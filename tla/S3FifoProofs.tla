---------------------------- MODULE S3FifoProofs ----------------------------
(*****************************************************************************)
(* First, what remains true of an S3-FIFO cache whatever its threads do to   *)
(* each other, for any number of threads.  An entry that is on a queue or in *)
(* a thread's hand is there once: a thread has in its hand what it made or   *)
(* what it popped, under the queue's lock, and no one else can get hold of   *)
(* it until it pushes it.  So the invariant says where entries are (Places), *)
(* that a thread has one in its hand wherever the code says so (HandFull,    *)
(* KeyHeld), and that whatever is referenced is not free to be made again    *)
(* (EntriesKeyed).  Then, what a single writer among any readers adds to     *)
(* that: the index, the queues, the membership map, size and the ghosts      *)
(* agree between its calls.                                                  *)
(*****************************************************************************)
EXTENDS S3Fifo, QueueProofs

Holding ==
    {"push", "judgeSmall", "promote", "judgeMain", "requeue",
     "dropIndex", "dropMember", "dropGhost", "uncount"}

Keyed ==
    {"lookup", "ghost", "publish", "push", "member", "count", "promoteMember",
     "rmIndex", "rmMember", "rmQueue", "rmCount"}

HandFull == \A t \in Threads : pc[t] \in Holding => loc[t].entry # None

KeyHeld == \A t \in Threads : pc[t] \in Keyed => loc[t].key # None

EntriesKeyed == \A e \in Entries : e \in Referenced => entryKey[e] # None

Places ==
    /\ IsInjective(small) /\ IsInjective(main)
    /\ Range(small) \cap Range(main) = {}
    /\ \A t \in Threads : loc[t].entry # None =>
        /\ loc[t].entry \notin Range(small) \cup Range(main)
        /\ \A u \in Threads \ {t} : loc[u].entry # loc[t].entry

IInv ==
    /\ TypeOK
    /\ HandFull /\ KeyHeld
    /\ EntriesKeyed
    /\ Places
    /\ GhostConsistent

-----------------------------------------------------------------------------
(* The capacity that the ghost queue is held to is a natural number.         *)
LEMMA MainCapacityType == main_queue_capacity \in Nat
<1>1. Capacity * RatioNum \in Nat /\ RatioDen \in Nat \ {0}
  BY ConfigAssumption
<1>2. small_queue_capacity \in Int
  BY <1>1 DEF small_queue_capacity
<1> QED BY <1>2, ConfigAssumption DEF main_queue_capacity

(* A thread between its calls carries nothing.                               *)
LEMMA AtRestType == AtRest \in Hands /\ AtRest.entry = None /\ AtRest.key = None
BY DEF AtRest, Hands

(* A new cache satisfies the invariant.                                      *)
LEMMA InitHolds == Init => IInv
<1> SUFFICES ASSUME Init PROVE IInv
  OBVIOUS
<1> USE DEF Init
<1>1. TypeOK
  <2>1. /\ index \in [Keys -> Entries \cup {None}]
        /\ small \in Seq(Entries) /\ main \in Seq(Entries)
        /\ ghost.keys \in SUBSET Keys /\ ghost.queue \in Seq(Keys)
        /\ membership \in [Keys -> {"Small", "Main", None}]
        /\ size \in 0 .. UsizeMod - 1
    BY UsizeAssumption, ConfigAssumption DEF NoGhosts
  <2>2. /\ entryKey \in [Entries -> Keys \cup {None}]
        /\ freq \in [Entries -> 0 .. MaxFreq]
        /\ stats \in [CounterNames -> 0 .. CounterMod - 1]
    BY MaxFreqAssumption, CounterAssumption
  <2>3. pc \in [Threads -> Sections] /\ loc \in [Threads -> Hands]
    BY AtRestType DEF Sections
  <2> QED BY <2>1, <2>2, <2>3 DEF TypeOK
<1>2. HandFull /\ KeyHeld
  BY DEF HandFull, KeyHeld, Holding, Keyed
<1>3. \A t \in Threads : loc[t].entry = None
  BY AtRestType
<1>4. Range(small) = {} /\ Range(main) = {} /\ IsInjective(small) /\ IsInjective(main)
  BY DEF Range, IsInjective
<1>5. EntriesKeyed
  BY <1>3, <1>4, NoneAssumption DEF EntriesKeyed, Referenced
<1>6. Places
  BY <1>3, <1>4 DEF Places
<1>7. GhostConsistent
  BY MainCapacityType, GhostStartsSound DEF GhostConsistent
<1> QED BY <1>1, <1>2, <1>5, <1>6, <1>7 DEF IInv

(* Where a step leaves the thread that takes it, and the others. *)
LEMMA ThreadMoves ==
    ASSUME IInv, NEW t \in Threads, NEW to \in Sections, NEW l \in Hands,
           pc' = [pc EXCEPT ![t] = to], loc' = [loc EXCEPT ![t] = l],
           to \in Holding => l.entry # None,
           to \in Keyed => l.key # None
    PROVE  /\ pc' \in [Threads -> Sections] /\ loc' \in [Threads -> Hands]
           /\ HandFull' /\ KeyHeld'
           /\ loc'[t] = l /\ \A u \in Threads \ {t} : loc'[u] = loc[u]
BY DEF IInv, TypeOK, HandFull, KeyHeld

Shrunk(s, r) == s \in Seq(Entries) /\ IsInjective(s) /\ Range(s) \subseteq Range(r)

(* The structures lose references or keep them. *)
LEMMA ShrinkStep ==
    ASSUME IInv, NEW t \in Threads, NEW to \in Sections, NEW l \in Hands,
           pc' = [pc EXCEPT ![t] = to], loc' = [loc EXCEPT ![t] = l],
           to \in Holding => l.entry # None,
           to \in Keyed => l.key # None,
           l.entry \in {loc[t].entry, None},
           index' \in [Keys -> Entries \cup {None}],
           \A k \in Keys : index'[k] \in {index[k], None},
           Shrunk(small', small), Shrunk(main', main),
           ghost'.keys \in SUBSET Keys, ghost'.queue \in Seq(Keys),
           GhostSound(ghost', main_queue_capacity),
           membership' \in [Keys -> {"Small", "Main", None}],
           size' \in 0 .. UsizeMod - 1,
           stats' \in [CounterNames -> 0 .. CounterMod - 1],
           entryKey' \in [Entries -> Keys \cup {None}],
           freq' \in [Entries -> 0 .. MaxFreq],
           \A e \in Entries : e \in Referenced' => entryKey'[e] = entryKey[e]
    PROVE  IInv'
<1>1. /\ pc' \in [Threads -> Sections] /\ loc' \in [Threads -> Hands]
      /\ HandFull' /\ KeyHeld'
      /\ loc'[t] = l /\ \A u \in Threads \ {t} : loc'[u] = loc[u]
  BY ThreadMoves
<1>2. TypeOK'
  BY <1>1 DEF TypeOK, Shrunk
<1>3. \A u \in Threads : loc'[u].entry \in {loc[u].entry, None}
  BY <1>1
<1>4. Places'
  BY <1>3 DEF Places, Shrunk, IInv
<1>5. Referenced' \subseteq Referenced \cup {None}
  <2>1. {index[k] : k \in Keys}' \subseteq {index[k] : k \in Keys} \cup {None}
    OBVIOUS
  <2>2. {loc[u].entry : u \in Threads}' \subseteq {loc[u].entry : u \in Threads} \cup {None}
    BY <1>3
  <2>3. Range(small)' \subseteq Range(small) /\ Range(main)' \subseteq Range(main)
    BY DEF Shrunk
  <2> QED BY <2>1, <2>2, <2>3 DEF Referenced
<1>6. EntriesKeyed'
  BY <1>5, NoneAssumption DEF EntriesKeyed, IInv
<1>7. GhostConsistent'
  BY DEF GhostConsistent
<1> QED BY <1>1, <1>2, <1>4, <1>6, <1>7 DEF IInv

(* A queue that stays as it is has lost nothing.                             *)
LEMMA Unshrunk ==
    ASSUME IInv
    PROVE  Shrunk(small, small) /\ Shrunk(main, main)
BY DEF IInv, TypeOK, Places, Shrunk

(* Entries that stay as they are keep their types and keys.                  *)
LEMMA Unchanged ==
    ASSUME IInv, UNCHANGED entries
    PROVE  /\ entryKey' \in [Entries -> Keys \cup {None}]
           /\ freq' \in [Entries -> 0 .. MaxFreq]
           /\ \A e \in Entries : e \in Referenced' => entryKey'[e] = entryKey[e]
BY DEF IInv, TypeOK, entries

(* Settle forgets the key and the frequency of dropped entries only.         *)
LEMMA Settled ==
    ASSUME IInv, Settle(entryKey, freq)
    PROVE  /\ entryKey' \in [Entries -> Keys \cup {None}]
           /\ freq' \in [Entries -> 0 .. MaxFreq]
           /\ \A e \in Entries : e \in Referenced' => entryKey'[e] = entryKey[e]
BY MaxFreqAssumption DEF IInv, TypeOK, Settle

(* A step of which only the thread, the membership map and the counters tell. *)
LEMMA QuietStep ==
    ASSUME IInv, NEW t \in Threads, NEW from, NEW to \in Sections, NEW l \in Hands,
           Goes(t, from, to), Carries(t, l),
           to \in Holding => l.entry # None,
           to \in Keyed => l.key # None,
           l.entry \in {loc[t].entry, None},
           UNCHANGED <<index, queues, ghost, entries>>,
           membership' \in [Keys -> {"Small", "Main", None}],
           size' \in 0 .. UsizeMod - 1,
           stats' \in [CounterNames -> 0 .. CounterMod - 1]
    PROVE  IInv'
<1>1. pc' = [pc EXCEPT ![t] = to] /\ loc' = [loc EXCEPT ![t] = l]
  BY DEF Goes, Carries
<1>2. /\ index' \in [Keys -> Entries \cup {None}]
      /\ \A k \in Keys : index'[k] \in {index[k], None}
      /\ ghost'.keys \in SUBSET Keys /\ ghost'.queue \in Seq(Keys)
      /\ GhostSound(ghost', main_queue_capacity)
  BY DEF IInv, TypeOK, GhostConsistent
<1>3. Shrunk(small', small) /\ Shrunk(main', main)
  BY Unshrunk DEF queues
<1> QED BY <1>1, <1>2, <1>3, Unchanged, ShrinkStep

(* A counter wraps within its width.                                         *)
LEMMA CountType ==
    ASSUME IInv, NEW c \in CounterNames, Count(c)
    PROVE  stats' \in [CounterNames -> 0 .. CounterMod - 1]
BY CounterAssumption DEF IInv, TypeOK, Count

(* size wraps within its width.                                              *)
LEMMA SizeType ==
    ASSUME IInv, Grow \/ Shrink
    PROVE  size' \in 0 .. UsizeMod - 1
BY UsizeAssumption, ConfigAssumption DEF IInv, TypeOK, Grow, Shrink

(* A step of which only the thread tells. *)
LEMMA PassingStep ==
    ASSUME IInv, NEW t \in Threads, NEW from, NEW to \in Sections, NEW l \in Hands,
           Goes(t, from, to), Carries(t, l),
           to \in Holding => l.entry # None,
           to \in Keyed => l.key # None,
           l.entry \in {loc[t].entry, None},
           UNCHANGED <<index, queues, ghost, membership, size, entries, stats>>
    PROVE  IInv'
<1>1. /\ membership' \in [Keys -> {"Small", "Main", None}]
      /\ size' \in 0 .. UsizeMod - 1
      /\ stats' \in [CounterNames -> 0 .. CounterMod - 1]
  BY DEF IInv, TypeOK
<1> QED BY <1>1, QuietStep

(* What a thread, the membership map and the counters are known to be before *)
(* a step.                                                                   *)
LEMMA AsBefore ==
    ASSUME IInv, NEW t \in Threads
    PROVE  /\ loc[t] \in Hands /\ pc[t] \in Sections
           /\ loc' = loc => Carries(t, loc[t])
           /\ membership \in [Keys -> {"Small", "Main", None}]
           /\ size \in 0 .. UsizeMod - 1
           /\ stats \in [CounterNames -> 0 .. CounterMod - 1]
           /\ pc[t] \in Holding => loc[t].entry # None
           /\ pc[t] \in Keyed => loc[t].key # None
BY DEF IInv, TypeOK, Carries, HandFull, KeyHeld

(* The steps that only look, or only decide where to go on.                  *)
LEMMA PassingActions ==
    ASSUME IInv, NEW t \in Threads
    PROVE  /\ (\E k \in Keys : CallInsert(t, k) \/ CallRemove(t, k)) => IInv'
           /\ CallClear(t) => IInv'
           /\ LookupHit(t) \/ LookupMiss(t) => IInv'
           /\ NothingToEvict(t) \/ OverCapacity(t) \/ SmallEmpty(t) => IInv'
           /\ JudgeSmallCold(t) \/ JudgeMainCold(t) => IInv'
           /\ MainFits(t) \/ MainOverfull(t) \/ MainEmpty(t) \/ Measure(t) => IInv'
           /\ RmMiss(t) => IInv'
<1> USE AsBefore, AtRestType
<1>1. ASSUME NEW k \in Keys, CallInsert(t, k) PROVE IInv'
  <2>1. /\ [AtRest EXCEPT !.key = k] \in Hands /\ "lookup" \in Sections
        /\ [AtRest EXCEPT !.key = k].entry = None /\ [AtRest EXCEPT !.key = k].key # None
        /\ "lookup" \notin Holding
    BY NoneAssumption DEF Hands, AtRest, Sections, Holding
  <2> QED BY <1>1, <2>1, PassingStep DEF CallInsert
<1>2. ASSUME NEW k \in Keys, CallRemove(t, k) PROVE IInv'
  <2>1. /\ [AtRest EXCEPT !.key = k] \in Hands /\ "rmIndex" \in Sections
        /\ [AtRest EXCEPT !.key = k].entry = None /\ [AtRest EXCEPT !.key = k].key # None
        /\ "rmIndex" \notin Holding
    BY NoneAssumption DEF Hands, AtRest, Sections, Holding
  <2> QED BY <1>2, <2>1, PassingStep DEF CallRemove
<1>3. ASSUME CallClear(t) PROVE IInv'
  <2>1. "clIndex" \in Sections /\ "clIndex" \notin Holding /\ "clIndex" \notin Keyed
    BY DEF Sections, Holding, Keyed
  <2> QED BY <1>3, <2>1, PassingStep DEF CallClear
<1>4. ASSUME LookupHit(t) PROVE IInv'
  <2> DEFINE l == [loc[t] EXCEPT !.resume = "lookup"]
  <2>1. /\ l \in Hands /\ l.entry = loc[t].entry /\ l.key = loc[t].key
        /\ "rmIndex" \in Sections /\ "rmIndex" \notin Holding
    BY DEF Hands, Sections, Holding
  <2>2. loc[t].key # None
    BY <1>4 DEF LookupHit, Goes, Keyed
  <2> QED BY <1>4, <2>1, <2>2, PassingStep DEF LookupHit
<1>5. ASSUME LookupMiss(t) PROVE IInv'
  <2>1. "ghost" \in Sections /\ "ghost" \notin Holding
    BY DEF Sections, Holding
  <2>2. loc[t].key # None
    BY <1>5 DEF LookupMiss, Goes, Keyed
  <2> QED BY <1>5, <2>1, <2>2, PassingStep DEF LookupMiss
<1>6. ASSUME NothingToEvict(t) PROVE IInv'
  <2>1. "idle" \in Sections /\ "idle" \notin Holding /\ "idle" \notin Keyed
    BY DEF Sections, Holding, Keyed
  <2> QED BY <1>6, <2>1, PassingStep DEF NothingToEvict
<1>7. ASSUME OverCapacity(t) PROVE IInv'
  <2>1. "popSmall" \in Sections /\ "popSmall" \notin Holding /\ "popSmall" \notin Keyed
    BY DEF Sections, Holding, Keyed
  <2> QED BY <1>7, <2>1, PassingStep DEF OverCapacity
<1>8. ASSUME SmallEmpty(t) PROVE IInv'
  <2>1. "measure" \in Sections /\ "measure" \notin Holding /\ "measure" \notin Keyed
    BY DEF Sections, Holding, Keyed
  <2> QED BY <1>8, <2>1, PassingStep DEF SmallEmpty
<1>9. ASSUME JudgeSmallCold(t) PROVE IInv'
  <2> DEFINE l == [loc[t] EXCEPT !.toGhost = TRUE]
  <2>1. /\ l \in Hands /\ l.entry = loc[t].entry
        /\ "dropIndex" \in Sections /\ "dropIndex" \notin Keyed
    BY DEF Hands, Sections, Keyed
  <2>2. loc[t].entry # None
    BY <1>9 DEF JudgeSmallCold, Goes, Holding
  <2> QED BY <1>9, <2>1, <2>2, PassingStep DEF JudgeSmallCold
<1>10. ASSUME JudgeMainCold(t) PROVE IInv'
  <2>1. "dropIndex" \in Sections /\ "dropIndex" \notin Keyed
    BY DEF Sections, Keyed
  <2>2. loc[t].entry # None
    BY <1>10 DEF JudgeMainCold, Goes, Holding
  <2> QED BY <1>10, <2>1, <2>2, PassingStep DEF JudgeMainCold
<1>11. ASSUME MainFits(t) PROVE IInv'
  <2>1. "check" \in Sections /\ "check" \notin Holding /\ "check" \notin Keyed
    BY DEF Sections, Holding, Keyed
  <2> QED BY <1>11, <2>1, PassingStep DEF MainFits
<1>12. ASSUME MainOverfull(t) PROVE IInv'
  <2> DEFINE l == [loc[t] EXCEPT !.caller = "checkMain"]
  <2>1. /\ l \in Hands /\ l.entry = loc[t].entry
        /\ "measure" \in Sections /\ "measure" \notin Holding /\ "measure" \notin Keyed
    BY DEF Hands, Sections, Holding, Keyed
  <2> QED BY <1>12, <2>1, PassingStep DEF MainOverfull
<1>13. ASSUME NEW from, GivesUp(t, from) PROVE IInv'
  <2> DEFINE to == IF loc[t].caller = "check" THEN "idle" ELSE "checkMain"
  <2>1. Answered(t) \in Hands /\ Answered(t).entry = None
    BY DEF Answered, Hands, AtRest
  <2>2. to \in Sections /\ to \notin Holding /\ to \notin Keyed
    BY DEF Sections, Holding, Keyed
  <2>3. Goes(t, from, to)
    BY <1>13 DEF GivesUp
  <2> HIDE DEF to
  <2> QED BY <1>13, <2>1, <2>2, <2>3, PassingStep DEF GivesUp
<1>14. ASSUME Measure(t) PROVE IInv'
  <2> DEFINE l == [loc[t] EXCEPT !.limit = Len(main), !.attempts = 0]
  <2>1. Len(main) \in Nat
    BY DEF IInv, TypeOK
  <2>2. /\ l \in Hands /\ l.entry = loc[t].entry
        /\ "popMain" \in Sections /\ "popMain" \notin Holding /\ "popMain" \notin Keyed
    BY <2>1 DEF Hands, Sections, Holding, Keyed
  <2> QED BY <1>14, <2>2, PassingStep DEF Measure
<1>15. ASSUME RmMiss(t) PROVE IInv'
  <2>1. loc[t].key # None
    BY <1>15 DEF RmMiss, Goes, Keyed
  <2>2. loc[t].resume \in {"idle", "lookup"}
    BY DEF Hands
  <2>3. /\ Resumed(t) \in Hands /\ Resumed(t).entry \in {loc[t].entry, None}
        /\ loc[t].resume = "lookup" => Resumed(t).key # None
    BY <2>1, <2>2 DEF Resumed
  <2>4. /\ loc[t].resume \in Sections /\ loc[t].resume \notin Holding
        /\ loc[t].resume \in Keyed => loc[t].resume = "lookup"
    BY <2>2 DEF Sections, Holding, Keyed
  <2> QED BY <1>15, <2>3, <2>4, PassingStep DEF RmMiss
<1> QED BY <1>1, <1>2, <1>3, <1>4, <1>5, <1>6, <1>7, <1>8, <1>9, <1>10, <1>11, <1>12,
          <1>13, <1>14, <1>15 DEF MainEmpty

(* The steps that write the membership map, size or a counter.               *)
LEMMA QuietActions ==
    ASSUME IInv, NEW t \in Threads
    PROVE  /\ Member(t) \/ CountInsert(t) \/ PromoteMember(t) => IInv'
           /\ DropMember(t) \/ RmMember(t) \/ RmCount(t) => IInv'
           /\ ClMember(t) \/ ClSize(t) => IInv'
<1> USE AsBefore, AtRestType
<1>1. ASSUME Member(t) PROVE IInv'
  <2>1. "count" \in Sections /\ "count" \notin Holding /\ loc[t].key # None
    BY <1>1 DEF Member, Goes, Sections, Holding, Keyed
  <2>2. membership' \in [Keys -> {"Small", "Main", None}]
    BY <1>1 DEF Member
  <2> QED BY <1>1, <2>1, <2>2, QuietStep DEF Member
<1>2. ASSUME CountInsert(t) PROVE IInv'
  <2>1. "check" \in Sections /\ "check" \notin Holding /\ "check" \notin Keyed
    BY DEF Sections, Holding, Keyed
  <2>2. size' \in 0 .. UsizeMod - 1
    BY <1>2, SizeType DEF CountInsert
  <2>3. stats' \in [CounterNames -> 0 .. CounterMod - 1]
    BY <1>2, CountType DEF CountInsert, CounterNames
  <2> QED BY <1>2, <2>1, <2>2, <2>3, QuietStep DEF CountInsert
<1>3. ASSUME PromoteMember(t) PROVE IInv'
  <2> DEFINE l == [loc[t] EXCEPT !.key = None]
  <2>1. /\ l \in Hands /\ l.entry = loc[t].entry
        /\ "checkMain" \in Sections /\ "checkMain" \notin Holding /\ "checkMain" \notin Keyed
    BY DEF Hands, Sections, Holding, Keyed
  <2>2. membership' \in [Keys -> {"Small", "Main", None}]
    BY <1>3 DEF PromoteMember
  <2> QED BY <1>3, <2>1, <2>2, QuietStep DEF PromoteMember
<1>4. ASSUME DropMember(t) PROVE IInv'
  <2> DEFINE to == IF loc[t].toGhost THEN "dropGhost" ELSE "uncount"
  <2>1. to \in Sections /\ to \notin Keyed /\ loc[t].entry # None
    BY <1>4 DEF DropMember, Goes, Sections, Holding, Keyed
  <2>2. membership' \in [Keys -> {"Small", "Main", None}]
    BY <1>4 DEF DropMember
  <2>3. Goes(t, "dropMember", to)
    BY <1>4 DEF DropMember
  <2> HIDE DEF to
  <2> QED BY <1>4, <2>1, <2>2, <2>3, QuietStep DEF DropMember
<1>5. ASSUME RmMember(t) PROVE IInv'
  <2> DEFINE found == membership[loc[t].key]
             to == IF found = None THEN "rmCount" ELSE "rmQueue"
             l == [loc[t] EXCEPT !.from = found]
  <2>1. loc[t].key # None /\ loc[t].key \in Keys
    BY <1>5 DEF RmMember, Goes, Keyed, Hands
  <2>2. to \in Sections /\ to \notin Holding
    BY DEF Sections, Holding
  <2>3. l \in Hands /\ l.entry = loc[t].entry /\ l.key = loc[t].key
    BY <2>1 DEF Hands
  <2>4. membership' \in [Keys -> {"Small", "Main", None}]
    BY <1>5 DEF RmMember
  <2>5. Goes(t, "rmMember", to) /\ Carries(t, l)
    BY <1>5 DEF RmMember
  <2> HIDE DEF to, l
  <2> QED BY <1>5, <2>1, <2>2, <2>3, <2>4, <2>5, QuietStep DEF RmMember
<1>6. ASSUME RmCount(t) PROVE IInv'
  <2>1. loc[t].key # None
    BY <1>6 DEF RmCount, Goes, Keyed
  <2>2. loc[t].resume \in {"idle", "lookup"}
    BY DEF Hands
  <2>3. /\ Resumed(t) \in Hands /\ Resumed(t).entry \in {loc[t].entry, None}
        /\ loc[t].resume = "lookup" => Resumed(t).key # None
    BY <2>1, <2>2 DEF Resumed
  <2>4. /\ loc[t].resume \in Sections /\ loc[t].resume \notin Holding
        /\ loc[t].resume \in Keyed => loc[t].resume = "lookup"
    BY <2>2 DEF Sections, Holding, Keyed
  <2>5. size' \in 0 .. UsizeMod - 1
    BY <1>6, SizeType DEF RmCount
  <2> QED BY <1>6, <2>3, <2>4, <2>5, QuietStep DEF RmCount
<1>7. ASSUME ClMember(t) PROVE IInv'
  <2>1. "clSize" \in Sections /\ "clSize" \notin Holding /\ "clSize" \notin Keyed
    BY DEF Sections, Holding, Keyed
  <2>2. membership' \in [Keys -> {"Small", "Main", None}]
    BY <1>7 DEF ClMember
  <2> QED BY <1>7, <2>1, <2>2, QuietStep DEF ClMember
<1>8. ASSUME ClSize(t) PROVE IInv'
  <2>1. "idle" \in Sections /\ "idle" \notin Holding /\ "idle" \notin Keyed
    BY DEF Sections, Holding, Keyed
  <2>2. size' \in 0 .. UsizeMod - 1
    BY <1>8, UsizeAssumption, ConfigAssumption DEF ClSize
  <2> QED BY <1>8, <2>1, <2>2, QuietStep DEF ClSize
<1> QED BY <1>1, <1>2, <1>3, <1>4, <1>5, <1>6, <1>7, <1>8

(* A step that changes the ghost queue and otherwise the thread. *)
LEMMA GhostStep ==
    ASSUME IInv, NEW t \in Threads, NEW from, NEW to \in Sections, NEW l \in Hands,
           Goes(t, from, to), Carries(t, l),
           to \in Holding => l.entry # None,
           to \in Keyed => l.key # None,
           l.entry \in {loc[t].entry, None},
           ghost'.keys \in SUBSET Keys, ghost'.queue \in Seq(Keys),
           GhostSound(ghost', main_queue_capacity),
           UNCHANGED <<index, queues, membership, size, entries, stats>>
    PROVE  IInv'
<1>1. pc' = [pc EXCEPT ![t] = to] /\ loc' = [loc EXCEPT ![t] = l]
  BY DEF Goes, Carries
<1>2. /\ index' \in [Keys -> Entries \cup {None}]
      /\ \A k \in Keys : index'[k] \in {index[k], None}
      /\ membership' \in [Keys -> {"Small", "Main", None}]
      /\ size' \in 0 .. UsizeMod - 1
      /\ stats' \in [CounterNames -> 0 .. CounterMod - 1]
  BY DEF IInv, TypeOK
<1>3. Shrunk(small', small) /\ Shrunk(main', main)
  BY Unshrunk DEF queues
<1> QED BY <1>1, <1>2, <1>3, Unchanged, ShrinkStep

(* The three steps that lock the ghost queue keep it sound: insert's look-   *)
(* up, an eviction's insertion, and clear.                                   *)
LEMMA GhostActions ==
    ASSUME IInv, NEW t \in Threads
    PROVE  CheckGhost(t) \/ DropGhost(t) \/ ClGhost(t) => IInv'
<1> USE AsBefore, MainCapacityType
<1>0. /\ ghost.keys \in SUBSET Keys /\ ghost.queue \in Seq(Keys)
      /\ GhostSound(ghost, main_queue_capacity)
  BY DEF IInv, TypeOK, GhostConsistent
<1>1. ASSUME CheckGhost(t) PROVE IInv'
  <2> DEFINE l == [loc[t] EXCEPT !.toMain = GhostContains(ghost, loc[t].key)]
  <2>1. /\ l \in Hands /\ l.entry = loc[t].entry /\ l.key = loc[t].key
        /\ "publish" \in Sections /\ "publish" \notin Holding /\ loc[t].key # None
    <3>1. GhostContains(ghost, loc[t].key) \in BOOLEAN
      BY DEF GhostContains
    <3> QED BY <1>1, <3>1 DEF CheckGhost, Goes, Hands, Sections, Holding, Keyed
  <2>2. /\ ghost'.keys \in SUBSET Keys /\ ghost'.queue \in Seq(Keys)
        /\ GhostSound(ghost', main_queue_capacity)
    <3> DEFINE k == loc[t].key
               r == GhostRemove(ghost, k)
    <3>1. r.keys \in SUBSET Keys /\ r.queue \in Seq(Keys) /\ GhostSound(r, main_queue_capacity)
      <4> HIDE DEF k
      <4> QED BY <1>0, GhostRemoveSound
    <3>2. ghost' = r
      BY <1>1 DEF CheckGhost
    <3> HIDE DEF r
    <3> QED BY <3>1, <3>2
  <2>3. Goes(t, "ghost", "publish") /\ Carries(t, l)
    BY <1>1 DEF CheckGhost
  <2> HIDE DEF l
  <2> QED BY <1>1, <2>1, <2>2, <2>3, GhostStep DEF CheckGhost
<1>2. ASSUME DropGhost(t) PROVE IInv'
  <2>1. "uncount" \in Sections /\ "uncount" \notin Keyed /\ loc[t].entry # None
    BY <1>2 DEF DropGhost, Goes, Sections, Holding, Keyed
  <2>2. entryKey[loc[t].entry] \in Keys
    <3>1. loc[t].entry \in Entries /\ loc[t].entry \in Referenced
      BY <2>1 DEF Hands, Referenced
    <3>2. entryKey[loc[t].entry] \in Keys \cup {None} /\ entryKey[loc[t].entry] # None
      BY <3>1 DEF IInv, TypeOK, EntriesKeyed
    <3> QED BY <3>2
  <2>3. /\ ghost'.keys \in SUBSET Keys /\ ghost'.queue \in Seq(Keys)
        /\ GhostSound(ghost', main_queue_capacity)
    BY <1>0, <1>2, <2>2, GhostInsertSound DEF DropGhost
  <2> QED BY <1>2, <2>1, <2>3, GhostStep DEF DropGhost
<1>3. ASSUME ClGhost(t) PROVE IInv'
  <2>1. "clMember" \in Sections /\ "clMember" \notin Holding /\ "clMember" \notin Keyed
    BY DEF Sections, Holding, Keyed
  <2>2. /\ ghost'.keys \in SUBSET Keys /\ ghost'.queue \in Seq(Keys)
        /\ GhostSound(ghost', main_queue_capacity)
    BY <1>3, GhostStartsSound DEF ClGhost
  <2> QED BY <1>3, <2>1, <2>2, GhostStep DEF ClGhost
<1> QED BY <1>1, <1>2, <1>3

(* A second chance resets or lowers the frequency of the entry in the        *)
(* thread's hand, which stays out of the queues until it is pushed back.     *)
LEMMA HitActions ==
    ASSUME IInv, NEW t \in Threads
    PROVE  JudgeSmallHot(t) \/ JudgeMainHot(t) => IInv'
<1> USE AsBefore
<1>1. /\ index \in [Keys -> Entries \cup {None}]
      /\ ghost.keys \in SUBSET Keys /\ ghost.queue \in Seq(Keys)
      /\ GhostSound(ghost, main_queue_capacity)
      /\ entryKey \in [Entries -> Keys \cup {None}] /\ freq \in [Entries -> 0 .. MaxFreq]
  BY DEF IInv, TypeOK, GhostConsistent
<1>2. Shrunk(small, small) /\ Shrunk(main, main)
  BY Unshrunk
<1>3. ASSUME JudgeSmallHot(t) PROVE IInv'
  <2>1. /\ "promote" \in Sections /\ "promote" \notin Keyed /\ loc[t].entry # None
    BY <1>3 DEF JudgeSmallHot, Goes, Sections, Keyed, Holding
  <2>2. freq' \in [Entries -> 0 .. MaxFreq]
    <3>1. freq' = [freq EXCEPT ![loc[t].entry] = 0]
      BY <1>3 DEF JudgeSmallHot
    <3>2. freq \in [Entries -> 0 .. MaxFreq]
      BY <1>1
    <3>3. loc[t].entry \in Entries
      BY <2>1 DEF Hands
    <3> QED BY <3>1, <3>2, <3>3, MaxFreqAssumption
  <2>3. pc' = [pc EXCEPT ![t] = "promote"] /\ loc' = [loc EXCEPT ![t] = loc[t]]
    BY <1>3 DEF JudgeSmallHot, Goes, Carries
  <2>4. UNCHANGED <<index, small, main, ghost, membership, size, entryKey, stats>>
    BY <1>3 DEF JudgeSmallHot, queues
  <2> QED BY <1>1, <1>2, <2>1, <2>2, <2>3, <2>4, ShrinkStep
<1>4. ASSUME JudgeMainHot(t) PROVE IInv'
  <2>1. /\ "requeue" \in Sections /\ "requeue" \notin Keyed /\ loc[t].entry # None
    BY <1>4 DEF JudgeMainHot, Goes, Sections, Keyed, Holding
  <2>2. freq' \in [Entries -> 0 .. MaxFreq]
    <3>1. freq' = [freq EXCEPT ![loc[t].entry] = @ - 1] /\ freq[loc[t].entry] > 0
      BY <1>4 DEF JudgeMainHot
    <3>2. freq \in [Entries -> 0 .. MaxFreq]
      BY <1>1
    <3>3. loc[t].entry \in Entries
      BY <2>1 DEF Hands
    <3> QED BY <3>1, <3>2, <3>3, MaxFreqAssumption
  <2>3. pc' = [pc EXCEPT ![t] = "requeue"] /\ loc' = [loc EXCEPT ![t] = loc[t]]
    BY <1>4 DEF JudgeMainHot, Goes, Carries
  <2>4. UNCHANGED <<index, small, main, ghost, membership, size, entryKey, stats>>
    BY <1>4 DEF JudgeMainHot, queues
  <2> QED BY <1>1, <1>2, <2>1, <2>2, <2>3, <2>4, ShrinkStep
<1> QED BY <1>3, <1>4

(* A step that drops references and settles the entries. *)
LEMMA SettlingStep ==
    ASSUME IInv, NEW t \in Threads, NEW from, NEW to \in Sections, NEW l \in Hands,
           Goes(t, from, to), Carries(t, l),
           to \in Holding => l.entry # None,
           to \in Keyed => l.key # None,
           l.entry \in {loc[t].entry, None},
           index' \in [Keys -> Entries \cup {None}],
           \A k \in Keys : index'[k] \in {index[k], None},
           Shrunk(small', small), Shrunk(main', main),
           size' \in 0 .. UsizeMod - 1,
           stats' \in [CounterNames -> 0 .. CounterMod - 1],
           UNCHANGED <<ghost, membership>>, Settle(entryKey, freq)
    PROVE  IInv'
<1>1. pc' = [pc EXCEPT ![t] = to] /\ loc' = [loc EXCEPT ![t] = l]
  BY DEF Goes, Carries
<1>2. /\ ghost'.keys \in SUBSET Keys /\ ghost'.queue \in Seq(Keys)
      /\ GhostSound(ghost', main_queue_capacity)
      /\ membership' \in [Keys -> {"Small", "Main", None}]
  BY DEF IInv, TypeOK, GhostConsistent
<1> QED BY <1>1, <1>2, Settled, ShrinkStep

(* The steps that take an entry out of the index or out of the cache.        *)
LEMMA SettlingActions ==
    ASSUME IInv, NEW t \in Threads
    PROVE  /\ DropIndex(t) \/ RmIndex(t) \/ Uncount(t) \/ RmQueue(t) => IInv'
           /\ ClIndex(t) \/ ClSmall(t) \/ ClMain(t) => IInv'
<1> USE AsBefore, AtRestType
<1>0. index \in [Keys -> Entries \cup {None}]
  BY DEF IInv, TypeOK
<1>1. Shrunk(small, small) /\ Shrunk(main, main)
  BY Unshrunk
<1>2. Shrunk(<<>>, small) /\ Shrunk(<<>>, main)
  BY DEF Shrunk, Range, IsInjective
<1>3. \A k : Shrunk(WithoutKey(small, k), small) /\ Shrunk(WithoutKey(main, k), main)
  <2> SUFFICES ASSUME NEW k
               PROVE  Shrunk(WithoutKey(small, k), small) /\ Shrunk(WithoutKey(main, k), main)
    OBVIOUS
  <2> DEFINE Gone == {e \in Entries : entryKey[e] = k}
  <2>1. small \in Seq(Entries) /\ main \in Seq(Entries) /\ IsInjective(small) /\ IsInjective(main)
    BY <1>1 DEF Shrunk
  <2> HIDE DEF Gone
  <2>2. Shrunk(Retain(small, Gone), small) /\ Shrunk(Retain(main, Gone), main)
    BY <2>1, RetainKeeps DEF Shrunk
  <2> QED BY <2>2 DEF WithoutKey, Gone
<1>4. ASSUME DropIndex(t) PROVE IInv'
  <2>1. "dropMember" \in Sections /\ "dropMember" \notin Keyed /\ loc[t].entry # None
    BY <1>4 DEF DropIndex, Goes, Sections, Keyed, Holding
  <2>2. /\ index' \in [Keys -> Entries \cup {None}]
        /\ \A k \in Keys : index'[k] \in {index[k], None}
    BY <1>0, <1>4 DEF DropIndex
  <2> QED BY <1>1, <1>4, <2>1, <2>2, SettlingStep DEF DropIndex, queues
<1>5. ASSUME RmIndex(t) PROVE IInv'
  <2>1. "rmMember" \in Sections /\ "rmMember" \notin Holding /\ loc[t].key # None
    BY <1>5 DEF RmIndex, Goes, Sections, Keyed, Holding
  <2>2. /\ index' \in [Keys -> Entries \cup {None}]
        /\ \A k \in Keys : index'[k] \in {index[k], None}
    BY <1>0, <1>5 DEF RmIndex
  <2> QED BY <1>1, <1>5, <2>1, <2>2, SettlingStep DEF RmIndex, queues
<1>6. ASSUME Uncount(t) PROVE IInv'
  <2>1. Answered(t) \in Hands /\ Answered(t).entry = None
    BY DEF Answered, Hands, AtRest
  <2>2. /\ loc[t].caller \in Sections /\ loc[t].caller \notin Holding
        /\ loc[t].caller \notin Keyed
    BY DEF Hands, Sections, Holding, Keyed
  <2>3. size' \in 0 .. UsizeMod - 1
    BY <1>6, SizeType DEF Uncount
  <2>4. stats' \in [CounterNames -> 0 .. CounterMod - 1]
    BY <1>6, CountType DEF Uncount, CounterNames
  <2> QED BY <1>0, <1>1, <1>6, <2>1, <2>2, <2>3, <2>4, SettlingStep DEF Uncount, queues
<1>7. ASSUME RmQueue(t) PROVE IInv'
  <2> DEFINE l == [loc[t] EXCEPT !.from = None]
  <2>1. /\ l \in Hands /\ l.entry = loc[t].entry /\ l.key = loc[t].key
        /\ "rmCount" \in Sections /\ "rmCount" \notin Holding /\ loc[t].key # None
    BY <1>7 DEF RmQueue, Goes, Hands, Sections, Holding, Keyed
  <2>2. Shrunk(small', small) /\ Shrunk(main', main)
    BY <1>1, <1>3, <1>7 DEF RmQueue
  <2>3. Goes(t, "rmQueue", "rmCount") /\ Carries(t, l)
    BY <1>7 DEF RmQueue
  <2> HIDE DEF l
  <2> QED BY <1>0, <1>7, <2>1, <2>2, <2>3, SettlingStep DEF RmQueue
<1>8. ASSUME ClIndex(t) PROVE IInv'
  <2>1. "clSmall" \in Sections /\ "clSmall" \notin Holding /\ "clSmall" \notin Keyed
    BY DEF Sections, Holding, Keyed
  <2>2. /\ index' \in [Keys -> Entries \cup {None}]
        /\ \A k \in Keys : index'[k] \in {index[k], None}
    BY <1>8 DEF ClIndex
  <2> QED BY <1>1, <1>8, <2>1, <2>2, SettlingStep DEF ClIndex, queues
<1>9. ASSUME ClSmall(t) PROVE IInv'
  <2>1. "clMain" \in Sections /\ "clMain" \notin Holding /\ "clMain" \notin Keyed
    BY DEF Sections, Holding, Keyed
  <2> QED BY <1>0, <1>1, <1>2, <1>9, <2>1, SettlingStep DEF ClSmall
<1>10. ASSUME ClMain(t) PROVE IInv'
  <2>1. "clGhost" \in Sections /\ "clGhost" \notin Holding /\ "clGhost" \notin Keyed
    BY DEF Sections, Holding, Keyed
  <2> QED BY <1>0, <1>1, <1>2, <1>10, <2>1, SettlingStep DEF ClMain
<1> QED BY <1>4, <1>5, <1>6, <1>7, <1>8, <1>9, <1>10

-----------------------------------------------------------------------------
(* An entry is taken from the front of a queue. *)
LEMMA PopActions ==
    ASSUME IInv, NEW t \in Threads
    PROVE  PopSmall(t) \/ PopMain(t) \/ ForcePop(t) => IInv'
<1> USE AsBefore, AtRestType
<1>1. /\ small \in Seq(Entries) /\ main \in Seq(Entries)
      /\ IsInjective(small) /\ IsInjective(main)
      /\ Range(small) \cap Range(main) = {}
  BY DEF IInv, TypeOK, Places
<1>2. ASSUME small # <<>> \/ main # <<>>,
             NEW to \in Sections, NEW l \in Hands, to \notin Keyed,
             pc' = [pc EXCEPT ![t] = to], loc' = [loc EXCEPT ![t] = l],
             \/ l.entry = Head(small) /\ small # <<>> /\ small' = Tail(small) /\ main' = main
             \/ l.entry = Head(main) /\ main # <<>> /\ main' = Tail(main) /\ small' = small,
             UNCHANGED <<index, ghost, membership, size, entries, stats>>
      PROVE  IInv'
  <2>1. /\ small' \in Seq(Entries) /\ main' \in Seq(Entries)
        /\ IsInjective(small') /\ IsInjective(main')
        /\ Range(small') \subseteq Range(small) /\ Range(main') \subseteq Range(main)
        /\ l.entry \in Range(small) \cup Range(main)
        /\ l.entry \notin Range(small') \cup Range(main')
        /\ l.entry \in Entries
    <3>1. CASE l.entry = Head(small) /\ small # <<>> /\ small' = Tail(small) /\ main' = main
      <4>1. /\ Tail(small) \in Seq(Entries) /\ Head(small) \in Entries
            /\ Head(small) \in Range(small) /\ Range(Tail(small)) \subseteq Range(small)
            /\ IsInjective(Tail(small)) /\ Head(small) \notin Range(Tail(small))
        BY <1>1, <3>1, TailKeeps
      <4> QED BY <1>1, <3>1, <4>1
    <3>2. CASE l.entry = Head(main) /\ main # <<>> /\ main' = Tail(main) /\ small' = small
      <4>1. /\ Tail(main) \in Seq(Entries) /\ Head(main) \in Entries
            /\ Head(main) \in Range(main) /\ Range(Tail(main)) \subseteq Range(main)
            /\ IsInjective(Tail(main)) /\ Head(main) \notin Range(Tail(main))
        BY <1>1, <3>2, TailKeeps
      <4> QED BY <1>1, <3>2, <4>1
    <3> QED BY <1>2, <3>1, <3>2
  <2>2. l.entry # None
    BY <2>1, NoneAssumption
  <2>3. /\ pc' \in [Threads -> Sections] /\ loc' \in [Threads -> Hands]
        /\ HandFull' /\ KeyHeld'
        /\ loc'[t] = l /\ \A u \in Threads \ {t} : loc'[u] = loc[u]
    BY <1>2, <2>2, ThreadMoves
  <2>4. TypeOK'
    BY <1>2, <2>1, <2>3 DEF TypeOK, IInv, entries
  <2>5. Places'
    <3>1. ASSUME NEW u \in Threads, loc'[u].entry # None
          PROVE  /\ loc'[u].entry \notin Range(small') \cup Range(main')
                 /\ \A w \in Threads \ {u} : loc'[w].entry # loc'[u].entry
      BY <2>1, <2>3, <3>1 DEF Places, IInv
    <3> QED BY <1>1, <2>1, <3>1 DEF Places
  <2>6. Referenced' \subseteq Referenced
    <3>1. {index[k] : k \in Keys}' = {index[k] : k \in Keys}
      BY <1>2
    <3>2. {loc[u].entry : u \in Threads}' \subseteq {loc[u].entry : u \in Threads} \cup {l.entry}
      BY <2>3
    <3> QED BY <2>1, <3>1, <3>2 DEF Referenced
  <2>7. EntriesKeyed'
    BY <1>2, <2>6 DEF EntriesKeyed, IInv, entries
  <2>8. GhostConsistent'
    BY <1>2 DEF GhostConsistent, IInv
  <2> QED BY <2>3, <2>4, <2>5, <2>7, <2>8 DEF IInv
<1>3. ASSUME PopSmall(t) PROVE IInv'
  <2> DEFINE l == [AtRest EXCEPT !.entry = Head(small)]
  <2>1. small # <<>> /\ Head(small) \in Entries
    BY <1>1, <1>3, TailKeeps DEF PopSmall
  <2>2. l \in Hands /\ l.entry = Head(small)
    BY <2>1 DEF Hands, AtRest
  <2>3. "judgeSmall" \in Sections /\ "judgeSmall" \notin Keyed
    BY DEF Sections, Keyed
  <2>4. pc' = [pc EXCEPT ![t] = "judgeSmall"] /\ loc' = [loc EXCEPT ![t] = l]
    BY <1>3 DEF PopSmall, Goes, Carries
  <2> HIDE DEF l
  <2> QED BY <1>2, <1>3, <2>1, <2>2, <2>3, <2>4 DEF PopSmall
<1>4. ASSUME PopMain(t) \/ ForcePop(t) PROVE IInv'
  <2> DEFINE l == [loc[t] EXCEPT !.entry = Head(main)]
  <2>1. main # <<>> /\ Head(main) \in Entries
    BY <1>1, <1>4, TailKeeps DEF PopMain, ForcePop
  <2>2. l \in Hands /\ l.entry = Head(main)
    BY <2>1 DEF Hands
  <2>3. PICK to \in {"judgeMain", "dropIndex"} : pc' = [pc EXCEPT ![t] = to]
    BY <1>4 DEF PopMain, ForcePop, Goes
  <2>4. to \in Sections /\ to \notin Keyed
    BY DEF Sections, Keyed
  <2>5. loc' = [loc EXCEPT ![t] = l]
    BY <1>4 DEF PopMain, ForcePop, Carries
  <2>6. /\ main' = Tail(main) /\ small' = small
        /\ UNCHANGED <<index, ghost, membership, size, entries, stats>>
    BY <1>4 DEF PopMain, ForcePop
  <2> HIDE DEF l
  <2> QED BY <1>2, <2>1, <2>2, <2>3, <2>4, <2>5, <2>6
<1> QED BY <1>3, <1>4

(* The entry in hand goes to the back of a queue. *)
LEMMA PushActions ==
    ASSUME IInv, NEW t \in Threads
    PROVE  Push(t) \/ Promote(t) \/ Requeue(t) => IInv'
<1> USE AsBefore, AtRestType
<1>1. /\ small \in Seq(Entries) /\ main \in Seq(Entries)
      /\ IsInjective(small) /\ IsInjective(main)
      /\ Range(small) \cap Range(main) = {}
  BY DEF IInv, TypeOK, Places
<1>2. ASSUME NEW to \in Sections, NEW l \in Hands, to \notin Holding,
             to \in Keyed => l.key # None,
             pc' = [pc EXCEPT ![t] = to], loc' = [loc EXCEPT ![t] = l],
             l.entry = None, loc[t].entry # None,
             \/ small' = Append(small, loc[t].entry) /\ main' = main
             \/ main' = Append(main, loc[t].entry) /\ small' = small,
             UNCHANGED <<index, ghost, membership, size, entries, stats>>
      PROVE  IInv'
  <2> DEFINE e == loc[t].entry
  <2>1. /\ e \in Entries /\ e \notin Range(small) \cup Range(main)
        /\ \A u \in Threads \ {t} : loc[u].entry # e
    BY <1>2 DEF Hands, Places, IInv
  <2>2. /\ small' \in Seq(Entries) /\ main' \in Seq(Entries)
        /\ IsInjective(small') /\ IsInjective(main')
        /\ Range(small') \cap Range(main') = {}
        /\ Range(small') \cup Range(main') = Range(small) \cup Range(main) \cup {e}
    <3>1. /\ Append(small, e) \in Seq(Entries) /\ IsInjective(Append(small, e))
          /\ Range(Append(small, e)) = Range(small) \cup {e}
          /\ Append(main, e) \in Seq(Entries) /\ IsInjective(Append(main, e))
          /\ Range(Append(main, e)) = Range(main) \cup {e}
      <4> HIDE DEF e
      <4> QED BY <1>1, <2>1, AppendKeeps
    <3>2. CASE small' = Append(small, e) /\ main' = main
      <4> HIDE DEF e
      <4> QED BY <1>1, <2>1, <3>1, <3>2
    <3>3. CASE main' = Append(main, e) /\ small' = small
      <4> HIDE DEF e
      <4> QED BY <1>1, <2>1, <3>1, <3>3
    <3> QED BY <1>2, <3>2, <3>3
  <2>3. /\ pc' \in [Threads -> Sections] /\ loc' \in [Threads -> Hands]
        /\ HandFull' /\ KeyHeld'
        /\ loc'[t] = l /\ \A u \in Threads \ {t} : loc'[u] = loc[u]
    BY <1>2, ThreadMoves
  <2>4. TypeOK'
    BY <1>2, <2>2, <2>3 DEF TypeOK, IInv, entries
  <2>5. Places'
    <3>1. ASSUME NEW u \in Threads, loc'[u].entry # None
          PROVE  /\ loc'[u].entry \notin Range(small') \cup Range(main')
                 /\ \A w \in Threads \ {u} : loc'[w].entry # loc'[u].entry
      <4>1. u # t /\ loc'[u] = loc[u]
        BY <1>2, <2>3, <3>1
      <4> QED BY <1>2, <2>1, <2>2, <2>3, <3>1, <4>1 DEF Places, IInv
    <3> QED BY <2>2, <3>1 DEF Places
  <2>6. Referenced' \subseteq Referenced \cup {None}
    <3>1. {index[k] : k \in Keys}' = {index[k] : k \in Keys}
      BY <1>2
    <3>2. {loc[u].entry : u \in Threads}' \subseteq {loc[u].entry : u \in Threads} \cup {None}
      BY <1>2, <2>3
    <3>3. e \in {loc[u].entry : u \in Threads}
      OBVIOUS
    <3> HIDE DEF e
    <3>4. Range(small)' \cup Range(main)' \subseteq Referenced
      BY <2>2, <3>3 DEF Referenced
    <3>5. {index[k] : k \in Keys}' \subseteq Referenced
      BY <3>1 DEF Referenced
    <3>6. {loc[u].entry : u \in Threads}' \subseteq Referenced \cup {None}
      BY <3>2 DEF Referenced
    <3> QED BY <3>4, <3>5, <3>6 DEF Referenced
  <2>7. EntriesKeyed'
    BY <1>2, <2>6, NoneAssumption DEF EntriesKeyed, IInv, entries
  <2>8. GhostConsistent'
    BY <1>2 DEF GhostConsistent, IInv
  <2> QED BY <2>3, <2>4, <2>5, <2>7, <2>8 DEF IInv
<1>3. ASSUME Push(t) PROVE IInv'
  <2> DEFINE l == [loc[t] EXCEPT !.entry = None]
  <2>1. l \in Hands /\ l.entry = None /\ l.key = loc[t].key
    BY DEF Hands
  <2>2. /\ "member" \in Sections /\ "member" \notin Holding
        /\ loc[t].key # None /\ loc[t].entry # None
    BY <1>3 DEF Push, Goes, Sections, Keyed, Holding
  <2>3. pc' = [pc EXCEPT ![t] = "member"] /\ loc' = [loc EXCEPT ![t] = l]
    BY <1>3 DEF Push, Goes, Carries
  <2> HIDE DEF l
  <2> QED BY <1>2, <1>3, <2>1, <2>2, <2>3 DEF Push
<1>4. ASSUME Promote(t) PROVE IInv'
  <2> DEFINE l == [AtRest EXCEPT !.key = entryKey[loc[t].entry], !.promoted = loc[t].entry]
  <2>1. loc[t].entry # None
    BY <1>4 DEF Promote, Goes, Holding
  <2>2. entryKey[loc[t].entry] \in Keys /\ loc[t].entry \in Entries
    <3>1. loc[t].entry \in Entries /\ loc[t].entry \in Referenced
      BY <2>1 DEF Hands, Referenced
    <3>2. entryKey[loc[t].entry] \in Keys \cup {None} /\ entryKey[loc[t].entry] # None
      BY <3>1 DEF IInv, TypeOK, EntriesKeyed
    <3> QED BY <3>1, <3>2
  <2>3. l \in Hands /\ l.entry = None /\ l.key # None
    BY <2>2, NoneAssumption DEF Hands, AtRest
  <2>4. "promoteMember" \in Sections /\ "promoteMember" \notin Holding
    BY DEF Sections, Holding
  <2>5. pc' = [pc EXCEPT ![t] = "promoteMember"] /\ loc' = [loc EXCEPT ![t] = l]
    BY <1>4 DEF Promote, Goes, Carries
  <2> HIDE DEF l
  <2> QED BY <1>2, <1>4, <2>1, <2>3, <2>4, <2>5 DEF Promote
<1>5. ASSUME Requeue(t) PROVE IInv'
  <2> DEFINE l == [loc[t] EXCEPT !.attempts = @ + 1, !.entry = None]
  <2>1. loc[t].entry # None
    BY <1>5 DEF Requeue, Goes, Holding
  <2>2. l \in Hands /\ l.entry = None
    <3>1. loc[t] \in Hands /\ loc[t].attempts + 1 \in Nat
      BY DEF Hands
    <3> QED BY <3>1 DEF Hands
  <2>3. PICK to \in {"forcePop", "popMain"} : pc' = [pc EXCEPT ![t] = to]
    BY <1>5 DEF Requeue, Goes
  <2>4. to \in Sections /\ to \notin Holding /\ to \notin Keyed
    BY DEF Sections, Holding, Keyed
  <2>5. loc' = [loc EXCEPT ![t] = l]
    BY <1>5 DEF Requeue, Carries
  <2>6. /\ main' = Append(main, loc[t].entry) /\ small' = small
        /\ UNCHANGED <<index, ghost, membership, size, entries, stats>>
    BY <1>5 DEF Requeue
  <2> HIDE DEF l
  <2> QED BY <1>2, <2>1, <2>2, <2>3, <2>4, <2>5, <2>6
<1> QED BY <1>3, <1>4, <1>5

(* A fresh entry comes into the index and the inserting thread's hand.       *)
LEMMA PublishAction ==
    ASSUME IInv, NEW t \in Threads, Publish(t)
    PROVE  IInv'
<1> USE AsBefore
<1> DEFINE e == NewEntry
           l == [loc[t] EXCEPT !.entry = e]
<1>1. e \in Entries /\ e \notin Referenced
  BY DEF Publish, NewEntry
<1>2. e # None /\ loc[t].key # None /\ loc[t].key \in Keys
  BY <1>1, NoneAssumption DEF Publish, Goes, Keyed, Hands
<1>3. /\ index' = [index EXCEPT ![loc[t].key] = e]
      /\ pc' = [pc EXCEPT ![t] = "push"] /\ loc' = [loc EXCEPT ![t] = l]
      /\ UNCHANGED <<small, main, ghost, membership, size, stats>>
      /\ Settle([entryKey EXCEPT ![e] = loc[t].key], [freq EXCEPT ![e] = 0])
  BY DEF Publish, Goes, Carries, queues
<1> HIDE DEF e
<1>4. l \in Hands /\ l.entry = e /\ l.key = loc[t].key /\ "push" \in Sections
  BY <1>1 DEF Hands, Sections
<1> HIDE DEF l
<1>5. /\ pc' \in [Threads -> Sections] /\ loc' \in [Threads -> Hands]
      /\ HandFull' /\ KeyHeld'
      /\ loc'[t] = l /\ \A u \in Threads \ {t} : loc'[u] = loc[u]
  BY <1>2, <1>3, <1>4, ThreadMoves
<1>6. /\ entryKey' \in [Entries -> Keys \cup {None}]
      /\ freq' \in [Entries -> 0 .. MaxFreq]
  <2>1. /\ [entryKey EXCEPT ![e] = loc[t].key] \in [Entries -> Keys \cup {None}]
        /\ [freq EXCEPT ![e] = 0] \in [Entries -> 0 .. MaxFreq]
    BY <1>1, <1>2, MaxFreqAssumption DEF IInv, TypeOK
  <2> QED BY <1>3, <2>1, MaxFreqAssumption DEF Settle
<1>7. TypeOK'
  <2>1. index' \in [Keys -> Entries \cup {None}]
    BY <1>1, <1>2, <1>3 DEF IInv, TypeOK
  <2> QED BY <1>3, <1>5, <1>6, <2>1 DEF IInv, TypeOK
<1>8. e \notin Range(small) \cup Range(main) /\ \A u \in Threads : loc[u].entry # e
  BY <1>1 DEF Referenced
<1>9. Places'
  <2>1. ASSUME NEW u \in Threads, loc'[u].entry # None
        PROVE  /\ loc'[u].entry \notin Range(small) \cup Range(main)
               /\ \A w \in Threads \ {u} : loc'[w].entry # loc'[u].entry
    BY <1>4, <1>5, <1>8, <2>1 DEF Places, IInv
  <2> QED BY <1>3, <2>1 DEF Places, IInv
<1>10. Referenced' \subseteq Referenced \cup {e}
  <2>1. {index[k] : k \in Keys}' \subseteq {index[k] : k \in Keys} \cup {e}
    BY <1>2, <1>3 DEF IInv, TypeOK
  <2>2. {loc[u].entry : u \in Threads}' \subseteq {loc[u].entry : u \in Threads} \cup {e}
    BY <1>4, <1>5
  <2> QED BY <1>3, <2>1, <2>2 DEF Referenced
<1>11. EntriesKeyed'
  <2> SUFFICES ASSUME NEW x \in Entries, x \in Referenced' PROVE entryKey'[x] # None
    BY DEF EntriesKeyed
  <2>1. entryKey'[x] = [entryKey EXCEPT ![e] = loc[t].key][x]
    BY <1>3 DEF Settle
  <2>2. CASE x = e
    BY <1>1, <1>2, <2>1, <2>2 DEF IInv, TypeOK
  <2>3. CASE x # e
    BY <1>10, <2>1, <2>3 DEF IInv, TypeOK, EntriesKeyed
  <2> QED BY <2>2, <2>3
<1>12. GhostConsistent'
  BY <1>3 DEF GhostConsistent, IInv
<1> QED BY <1>5, <1>7, <1>9, <1>11, <1>12 DEF IInv

(* A hit or miss changes a frequency and a counter only.                     *)
LEMMA GetActions ==
    ASSUME IInv, NEW k \in Keys, GetHit(k) \/ GetMiss(k)
    PROVE  IInv'
<1>1. /\ UNCHANGED <<index, small, main, ghost, membership, size, entryKey, pc, loc>>
      /\ \E c \in CounterNames : Count(c)
  BY DEF GetHit, GetMiss, queues, entries, CounterNames
<1>2. stats' \in [CounterNames -> 0 .. CounterMod - 1]
  BY <1>1, CountType
<1>3. freq' \in [Entries -> 0 .. MaxFreq]
  <2>1. freq \in [Entries -> 0 .. MaxFreq] /\ index[k] \in Entries \cup {None}
    BY DEF IInv, TypeOK
  <2>2. CASE GetMiss(k)
    BY <2>1, <2>2 DEF GetMiss, entries
  <2>3. CASE GetHit(k)
    <3>1. index[k] \in Entries
      BY <2>1, <2>3 DEF GetHit
    <3>2. freq' = [freq EXCEPT ![index[k]] = IF @ < MaxFreq THEN @ + 1 ELSE @]
      BY <2>3 DEF GetHit
    <3> QED BY <2>1, <3>1, <3>2, MaxFreqAssumption
  <2> QED BY <2>2, <2>3
<1>4. TypeOK'
  BY <1>1, <1>2, <1>3 DEF IInv, TypeOK
<1>5. HandFull' /\ KeyHeld' /\ Places' /\ GhostConsistent'
  BY <1>1 DEF IInv, HandFull, KeyHeld, Places, GhostConsistent
<1>6. EntriesKeyed'
  BY <1>1 DEF IInv, EntriesKeyed, Referenced
<1> QED BY <1>4, <1>5, <1>6 DEF IInv

-----------------------------------------------------------------------------
(* Every step of any thread keeps the invariant.                             *)
LEMMA StepKeeps == IInv /\ [Next]_vars => IInv'
<1> SUFFICES ASSUME IInv, [Next]_vars PROVE IInv'
  OBVIOUS
<1>1. CASE Get
  BY <1>1, GetActions DEF Get
<1>2. ASSUME NEW t \in Threads, Call(t) PROVE IInv'
  BY <1>2, PassingActions DEF Call
<1>3. ASSUME NEW t \in Threads, Step(t) PROVE IInv'
  <2>1. CASE InsertStep(t)
    BY <2>1, PassingActions, GhostActions, PublishAction, PushActions, QuietActions
       DEF InsertStep
  <2>2. CASE EvictStep(t)
    BY <2>2, PassingActions, PopActions, HitActions, PushActions, QuietActions,
       SettlingActions, GhostActions DEF EvictStep
  <2>3. CASE RemoveStep(t)
    BY <2>3, PassingActions, QuietActions, SettlingActions DEF RemoveStep
  <2>4. CASE ClearStep(t)
    BY <2>4, SettlingActions, GhostActions, QuietActions DEF ClearStep
  <2> QED BY <1>3, <2>1, <2>2, <2>3, <2>4 DEF Step
<1>4. CASE UNCHANGED vars
  <2>1. /\ UNCHANGED <<index, small, main, ghost, membership, size, entryKey, freq, stats>>
        /\ UNCHANGED <<pc, loc>>
    BY <1>4 DEF vars, queues, entries
  <2>2. TypeOK' /\ HandFull' /\ KeyHeld' /\ GhostConsistent'
    BY <2>1 DEF IInv, TypeOK, HandFull, KeyHeld, GhostConsistent
  <2>3. EntriesKeyed'
    BY <2>1 DEF IInv, EntriesKeyed, Referenced
  <2>4. Places'
    BY <2>1 DEF IInv, Places
  <2> QED BY <2>2, <2>3, <2>4 DEF IInv
<1> QED BY <1>1, <1>2, <1>3, <1>4 DEF Next

(* The inductive invariant holds of every behaviour, for any number of       *)
(* threads, keys and entries and for every capacity and ratio.               *)
THEOREM Invariant == Spec => []IInv
BY InitHolds, StepKeeps, PTL DEF Spec

(* Every variable of the S3-FIFO cache keeps its type.                       *)
THEOREM TypeCorrect == Spec => []TypeOK
<1>1. IInv => TypeOK
  BY DEF IInv
<1> QED BY <1>1, Invariant, PTL

(* Whatever evictions, removals, clears and insertions do to each other      *)
(* (s3fifo.rs 258-428), no entry is on the queues twice or on a queue and in *)
(* a thread's hand.                                                          *)
THEOREM NothingTwice == Spec => []EntryInOnePlace
<1>1. IInv => EntryInOnePlace
  <2> SUFFICES ASSUME IInv PROVE EntryInOnePlace
    OBVIOUS
  <2>1. small \in Seq(Entries) /\ main \in Seq(Entries) /\ Places
    BY DEF IInv, TypeOK
  <2>2. IsInjective(small \o main) /\ Range(small \o main) = Range(small) \cup Range(main)
    BY <2>1, ConcatKeeps DEF Places
  <2> QED BY <2>1, <2>2 DEF EntryInOnePlace, Places
<1> QED BY <1>1, Invariant, PTL

(* Under any number of writers the ghost queue's set and queue hold the same *)
(* keys, each queued once; when the main queue's capacity is 0 they hold one *)
(* key at most, which is one more than s3fifo.rs:24 allows (114-176).        *)
THEOREM GhostsConsistent == Spec => []GhostConsistent
<1>1. IInv => GhostConsistent
  BY DEF IInv
<1> QED BY <1>1, Invariant, PTL

(* s3fifo.rs:24 is right of every cache whose main queue has a capacity: the *)
(* ghost queue never holds more keys than that, with any number of writers.  *)
THEOREM GhostsBounded ==
    ASSUME main_queue_capacity > 0
    PROVE  Spec => [](Len(ghost.queue) <= main_queue_capacity)
<1>1. IInv => Len(ghost.queue) <= main_queue_capacity
  BY DEF IInv, GhostConsistent, GhostSound
<1> QED BY <1>1, Invariant, PTL

-----------------------------------------------------------------------------
(* One writer.  With a single thread w that inserts, removes and clears the  *)
(* structures agree whenever it rests, whatever the readers do.  In every    *)
(* section it is known by how much they disagree: which keys have left the   *)
(* index and not yet the queues or the writer's hand (Leaving), of which the *)
(* membership map has not been told (Untold), by how much size is ahead of   *)
(* the queues or behind them.                                                *)

Clearing == {"clSmall", "clMain", "clGhost", "clMember", "clSize"}
Dropping == {"dropMember", "dropGhost", "uncount"}
Popped == {"judgeSmall", "promote", "judgeMain", "requeue", "dropIndex"}

HandEmpty(w) == pc[w] \notin Holding => loc[w].entry = None

(* The entries on the queues and in the writer's hand.                       *)
Present(w) == Range(small) \cup Range(main) \cup ({loc[w].entry} \ {None})

KeysOn(queue) == {entryKey[e] : e \in Range(queue)}

Leaving(w, k) ==
    \/ pc[w] \in Clearing
    \/ pc[w] \in Dropping /\ k = entryKey[loc[w].entry]
    \/ pc[w] \in {"rmMember", "rmQueue"} /\ k = loc[w].key

IndexNames(w) ==
    /\ \A k \in Keys : index[k] # None => index[k] \in Present(w) /\ entryKey[index[k]] = k
    /\ \A e \in Present(w) : ~Leaving(w, entryKey[e]) => index[entryKey[e]] = e
    /\ \A k \in Keys : Leaving(w, k) => index[k] = None
    /\ \A d, e \in Present(w) : entryKey[d] = entryKey[e] => d = e
    /\ pc[w] \in {"ghost", "publish"} => index[loc[w].key] = None

Untold(w, k) ==
    \/ pc[w] \in {"clMain", "clGhost", "clMember"}
    \/ pc[w] \in Popped \cup {"dropMember"} /\ k = entryKey[loc[w].entry]
    \/ pc[w] \in {"member", "promoteMember", "rmQueue"} /\ k = loc[w].key

MapTells(w) ==
    /\ \A k \in Keys : ~Untold(w, k) =>
        /\ membership[k] = "Small" <=> k \in KeysOn(small)
        /\ membership[k] = "Main" <=> k \in KeysOn(main)
    /\ pc[w] = "push" => entryKey[loc[w].entry] = loc[w].key
    /\ pc[w] = "member" => loc[w].key \in KeysOn(IF loc[w].toMain THEN main ELSE small)
    /\ pc[w] = "promoteMember" => loc[w].key \in KeysOn(main)
    /\ pc[w] \in {"judgeMain", "requeue"} => membership[entryKey[loc[w].entry]] = "Main"
    /\ pc[w] = "rmMember" => membership[loc[w].key] # None
    /\ pc[w] = "rmQueue" =>
        /\ membership[loc[w].key] = None
        /\ loc[w].key \in KeysOn(IF loc[w].from = "Main" THEN main ELSE small)

SizeCounts(w) ==
    /\ pc[w] \in Popped \cup Dropping \cup {"rmCount"} => size = Len(small) + Len(main) + 1
    /\ pc[w] \in {"member", "count"} => size + 1 = Len(small) + Len(main)
    /\ pc[w] \notin Popped \cup Dropping \cup Clearing \cup {"rmCount", "member", "count"}
         => size = Len(small) + Len(main)
    /\ pc[w] \in Clearing \ {"clSmall"} => small = <<>>
    /\ pc[w] \in Clearing \ {"clSmall", "clMain"} => main = <<>>
    /\ size <= Capacity + 1
    /\ pc[w] \in Keyed \cup {"idle"} => pc[w] = "promoteMember" \/ size <= Capacity
    /\ pc[w] = "popSmall" => size > Capacity
    /\ pc[w] \in {"measure", "popMain", "forcePop"} => main # <<>>

GhostsAreOut(w) ==
    /\ \A k \in ghost.keys : index[k] = None
    /\ pc[w] = "publish" => loc[w].key \notin ghost.keys

EvictionDue(w) ==
    /\ pc[w] \in {"measure", "popMain", "forcePop"} =>
        \/ loc[w].caller = "check" /\ small = <<>>
        \/ loc[w].caller = "checkMain" /\ Len(main) > main_queue_capacity
    /\ pc[w] \in {"judgeMain", "requeue"} \/ (pc[w] = "dropIndex" /\ ~loc[w].toGhost) =>
        \/ loc[w].caller = "check" /\ small = <<>>
        \/ loc[w].caller = "checkMain" /\ Len(main) >= main_queue_capacity
    /\ pc[w] \in {"promoteMember", "checkMain"} \/ loc[w].caller = "checkMain" =>
        loc[w].promoted # None
    /\ pc[w] \in {"check", "popSmall"} => loc[w].caller = "check"

Agree(w) ==
    /\ HandEmpty(w) /\ IndexNames(w) /\ MapTells(w)
    /\ SizeCounts(w) /\ GhostsAreOut(w) /\ EvictionDue(w)

WInv(w) == IInv /\ Agree(w)

-----------------------------------------------------------------------------
(* A queue that is not empty holds its front and what is behind it.          *)
LEMMA HeadAndTail ==
    ASSUME NEW A, NEW s \in Seq(A)
    PROVE  Range(s) = IF s = <<>> THEN {} ELSE Range(Tail(s)) \cup {Head(s)}
<1>1. Len(s) \in Nat /\ DOMAIN s = 1 .. Len(s)
  OBVIOUS
<1>2. CASE s = <<>>
  BY <1>2 DEF Range
<1>3. CASE s # <<>>
  <2>1. /\ Range(Tail(s)) \subseteq Range(s) /\ Head(s) \in Range(s)
    BY <1>3, TailKeeps
  <2>2. ASSUME NEW i \in 1 .. Len(s) PROVE s[i] \in Range(Tail(s)) \cup {Head(s)}
    <3>1. CASE i = 1
      BY <1>3, <3>1
    <3>2. CASE i # 1
      <4>1. /\ Tail(s) \in Seq(A) /\ i - 1 \in 1 .. Len(Tail(s))
            /\ DOMAIN Tail(s) = 1 .. Len(Tail(s)) /\ Tail(s)[i - 1] = s[i]
        BY <1>1, <1>3, <3>2
      <4> QED BY <4>1 DEF Range
    <3> QED BY <3>1, <3>2
  <2>3. Range(s) \subseteq Range(Tail(s)) \cup {Head(s)}
    BY <1>1, <2>2 DEF Range
  <2> QED BY <1>3, <2>1, <2>3
<1> QED BY <1>2, <1>3

(* What the invariant for all threads says of one of them.                   *)
LEMMA WriterFacts ==
    ASSUME IInv, NEW w \in Threads
    PROVE  /\ loc[w] \in Hands /\ pc[w] \in Sections
           /\ index \in [Keys -> Entries \cup {None}]
           /\ membership \in [Keys -> {"Small", "Main", None}]
           /\ size \in 0 .. UsizeMod - 1
           /\ small \in Seq(Entries) /\ main \in Seq(Entries)
           /\ IsInjective(small) /\ IsInjective(main)
           /\ Range(small) \cap Range(main) = {}
           /\ ghost.keys \in SUBSET Keys
           /\ loc[w].entry # None => loc[w].entry \notin Range(small) \cup Range(main)
           /\ \A e \in Present(w) : e \in Entries /\ e # None /\ entryKey[e] \in Keys
           /\ pc[w] \in Holding => loc[w].entry # None /\ loc[w].entry \in Present(w)
           /\ pc[w] \in Keyed => loc[w].key \in Keys
<1>1. /\ loc[w] \in Hands /\ pc[w] \in Sections
      /\ index \in [Keys -> Entries \cup {None}]
      /\ membership \in [Keys -> {"Small", "Main", None}]
      /\ size \in 0 .. UsizeMod - 1
      /\ small \in Seq(Entries) /\ main \in Seq(Entries)
      /\ ghost.keys \in SUBSET Keys
      /\ entryKey \in [Entries -> Keys \cup {None}]
  BY DEF IInv, TypeOK
<1>2. /\ IsInjective(small) /\ IsInjective(main) /\ Range(small) \cap Range(main) = {}
      /\ loc[w].entry # None => loc[w].entry \notin Range(small) \cup Range(main)
  BY DEF IInv, Places
<1>3. Range(small) \subseteq Entries /\ Range(main) \subseteq Entries
  BY <1>1 DEF Range
<1>4. ASSUME NEW e \in Present(w) PROVE e \in Entries /\ e # None /\ entryKey[e] \in Keys
  <2>1. e \in Entries
    BY <1>1, <1>3 DEF Present, Hands
  <2>2. e \in Referenced
    BY DEF Present, Referenced
  <2> QED BY <1>1, <2>1, <2>2, NoneAssumption DEF IInv, EntriesKeyed
<1>5. pc[w] \in Holding => loc[w].entry # None /\ loc[w].entry \in Present(w)
  BY DEF IInv, HandFull, Present
<1>6. pc[w] \in Keyed => loc[w].key \in Keys
  BY <1>1 DEF IInv, KeyHeld, Hands
<1> QED BY <1>1, <1>2, <1>4, <1>5, <1>6

(* Where the writer goes and what it carries there.                          *)
LEMMA WriterMoves ==
    ASSUME IInv, NEW w \in Threads
    PROVE  /\ \A from, to : Goes(w, from, to) => pc[w] = from /\ pc'[w] = to
           /\ \A l : Carries(w, l) => loc'[w] = l
           /\ loc' = loc => loc'[w] = loc[w]
BY DEF IInv, TypeOK, Goes, Carries

(* Where a call begins.                                                      *)
LEMMA CallGoes ==
    ASSUME IInv, NEW w \in Threads, Call(w)
    PROVE  pc[w] = "idle" /\ pc'[w] \in {"lookup", "rmIndex", "clIndex"}
<1>1. ASSUME NEW k \in Keys, CallInsert(w, k) \/ CallRemove(w, k)
      PROVE  pc[w] = "idle" /\ pc'[w] \in {"lookup", "rmIndex"}
  BY <1>1, WriterMoves DEF CallInsert, CallRemove
<1>2. CallClear(w) => pc[w] = "idle" /\ pc'[w] = "clIndex"
  BY WriterMoves DEF CallClear
<1> QED BY <1>1, <1>2 DEF Call

(* The same for the three steps that change two things in the hand.          *)
LEMMA TwoChanges ==
    ASSUME IInv, NEW w \in Threads
    PROVE  /\ Promote(w) =>
                /\ pc[w] = "promote" /\ pc'[w] = "promoteMember"
                /\ loc'[w].entry = None /\ loc'[w].key = entryKey[loc[w].entry]
                /\ loc'[w].promoted = loc[w].entry /\ loc'[w].caller = "check"
           /\ Measure(w) =>
                /\ pc[w] = "measure" /\ pc'[w] = "popMain"
                /\ loc'[w].entry = loc[w].entry /\ loc'[w].caller = loc[w].caller
                /\ loc'[w].promoted = loc[w].promoted
           /\ Requeue(w) =>
                /\ pc[w] = "requeue" /\ pc'[w] \in {"forcePop", "popMain"}
                /\ loc'[w].entry = None /\ loc'[w].caller = loc[w].caller
                /\ loc'[w].promoted = loc[w].promoted
<1> USE WriterFacts, WriterMoves
<1>1. ASSUME Promote(w)
      PROVE  /\ loc'[w].entry = None /\ loc'[w].key = entryKey[loc[w].entry]
             /\ loc'[w].promoted = loc[w].entry /\ loc'[w].caller = "check"
  <2> DEFINE l == [AtRest EXCEPT !.key = entryKey[loc[w].entry], !.promoted = loc[w].entry]
  <2>1. /\ l.entry = None /\ l.key = entryKey[loc[w].entry]
        /\ l.promoted = loc[w].entry /\ l.caller = "check"
    BY DEF AtRest
  <2>2. Carries(w, l)
    BY <1>1 DEF Promote
  <2> HIDE DEF l
  <2> QED BY <2>1, <2>2
<1>2. ASSUME Measure(w)
      PROVE  /\ loc'[w].entry = loc[w].entry /\ loc'[w].caller = loc[w].caller
             /\ loc'[w].promoted = loc[w].promoted
  <2> DEFINE l == [loc[w] EXCEPT !.limit = Len(main), !.attempts = 0]
  <2>1. l.entry = loc[w].entry /\ l.caller = loc[w].caller /\ l.promoted = loc[w].promoted
    BY DEF Hands
  <2>2. Carries(w, l)
    BY <1>2 DEF Measure
  <2> HIDE DEF l
  <2> QED BY <2>1, <2>2
<1>3. ASSUME Requeue(w)
      PROVE  /\ loc'[w].entry = None /\ loc'[w].caller = loc[w].caller
             /\ loc'[w].promoted = loc[w].promoted
  <2> DEFINE l == [loc[w] EXCEPT !.attempts = @ + 1, !.entry = None]
  <2>1. l.entry = None /\ l.caller = loc[w].caller /\ l.promoted = loc[w].promoted
    BY DEF Hands
  <2>2. Carries(w, l)
    BY <1>3 DEF Requeue
  <2> HIDE DEF l
  <2> QED BY <2>1, <2>2
<1> QED BY <1>1, <1>2, <1>3 DEF Promote, Measure, Requeue

(* A thread has an entry in its hand only where the code says so.            *)
LEMMA HandStaysEmpty ==
    ASSUME IInv, NEW w \in Threads, HandEmpty(w), Call(w) \/ Step(w)
    PROVE  HandEmpty(w)'
<1> USE WriterFacts, WriterMoves, AtRestType
<1>1. CASE Call(w)
  <2>1. ASSUME NEW k \in Keys, CallInsert(w, k) PROVE HandEmpty(w)'
    BY <2>1 DEF CallInsert, HandEmpty, AtRest
  <2>2. ASSUME NEW k \in Keys, CallRemove(w, k) PROVE HandEmpty(w)'
    BY <2>2 DEF CallRemove, HandEmpty, AtRest
  <2>3. CallClear(w) => HandEmpty(w)'
    BY DEF CallClear, HandEmpty, Holding
  <2> QED BY <1>1, <2>1, <2>2, <2>3 DEF Call
<1>2. CASE InsertStep(w)
  BY <1>2 DEF InsertStep, LookupHit, LookupMiss, CheckGhost, Publish, Push, Member, CountInsert,
     HandEmpty, Holding, AtRest, Hands
<1>3. CASE EvictStep(w)
  <2>1. loc[w].caller \in {"check", "checkMain"} /\ Answered(w).entry = None
    BY DEF Hands, Answered, AtRest
  <2> USE DEF HandEmpty, Holding
  <2>2. NothingToEvict(w) \/ OverCapacity(w) \/ SmallEmpty(w) \/ MainFits(w) \/ MainOverfull(w)
          => HandEmpty(w)'
    BY DEF NothingToEvict, OverCapacity, SmallEmpty, MainFits, MainOverfull, Hands
  <2>3. PopSmall(w) \/ JudgeSmallHot(w) \/ JudgeSmallCold(w) => HandEmpty(w)'
    BY DEF PopSmall, JudgeSmallHot, JudgeSmallCold
  <2>4. Promote(w) \/ Measure(w) \/ Requeue(w) => HandEmpty(w)'
    BY TwoChanges
  <2>5. PromoteMember(w) => HandEmpty(w)'
    BY DEF PromoteMember, Hands
  <2>6. MainEmpty(w) => HandEmpty(w)'
    BY <2>1 DEF MainEmpty, GivesUp
  <2>7. PopMain(w) \/ ForcePop(w) => HandEmpty(w)'
    BY DEF PopMain, ForcePop, Hands
  <2>8. JudgeMainHot(w) \/ JudgeMainCold(w) => HandEmpty(w)'
    BY DEF JudgeMainHot, JudgeMainCold
  <2>9. DropIndex(w) \/ DropMember(w) \/ DropGhost(w) \/ Uncount(w) => HandEmpty(w)'
    BY <2>1 DEF DropIndex, DropMember, DropGhost, Uncount
  <2> QED BY <1>3, <2>2, <2>3, <2>4, <2>5, <2>6, <2>7, <2>8, <2>9 DEF EvictStep
<1>4. CASE RemoveStep(w)
  BY <1>4 DEF RemoveStep, RmMiss, RmIndex, RmMember, RmQueue, RmCount, Resumed,
     HandEmpty, Holding, AtRest, Hands
<1>5. CASE ClearStep(w)
  BY <1>5 DEF ClearStep, ClIndex, ClSmall, ClMain, ClGhost, ClMember, ClSize,
     HandEmpty, Holding, AtRest, Hands
<1> QED BY <1>1, <1>2, <1>3, <1>4, <1>5 DEF Step

-----------------------------------------------------------------------------
(* The entries there are.                                                    *)

(* A step that only moves the writer, or writes to the map or the counters,  *)
(* or takes keys out of the index, changes nothing on the queues or in hand. *)
LEMMA PresentStays ==
    ASSUME IInv, NEW w \in Threads, HandEmpty(w)
    PROVE  /\ Call(w) => Present(w)' = Present(w)
           /\ LookupHit(w) \/ LookupMiss(w) \/ CheckGhost(w) \/ Member(w) \/ CountInsert(w)
                => Present(w)' = Present(w)
           /\ NothingToEvict(w) \/ OverCapacity(w) \/ SmallEmpty(w) \/ JudgeSmallHot(w)
                \/ JudgeSmallCold(w) \/ PromoteMember(w) => Present(w)' = Present(w)
           /\ MainFits(w) \/ MainOverfull(w) \/ MainEmpty(w) \/ Measure(w)
                \/ JudgeMainHot(w) \/ JudgeMainCold(w) => Present(w)' = Present(w)
           /\ DropIndex(w) \/ DropMember(w) \/ DropGhost(w) => Present(w)' = Present(w)
           /\ RmMiss(w) \/ RmIndex(w) \/ RmMember(w) \/ RmCount(w) => Present(w)' = Present(w)
           /\ ClIndex(w) \/ ClGhost(w) \/ ClMember(w) \/ ClSize(w) => Present(w)' = Present(w)
<1> USE WriterFacts, WriterMoves, AtRestType
<1>1. ASSUME UNCHANGED queues, loc'[w].entry = loc[w].entry PROVE Present(w)' = Present(w)
  BY <1>1 DEF Present, queues
<1>2. Call(w) => Present(w)' = Present(w)
  <2>1. ASSUME NEW k \in Keys, CallInsert(w, k) PROVE Present(w)' = Present(w)
    BY <1>1, <2>1 DEF CallInsert, HandEmpty, Holding, AtRest
  <2>2. ASSUME NEW k \in Keys, CallRemove(w, k) PROVE Present(w)' = Present(w)
    BY <1>1, <2>2 DEF CallRemove, HandEmpty, Holding, AtRest
  <2>3. CallClear(w) => Present(w)' = Present(w)
    BY <1>1 DEF CallClear
  <2> QED BY <2>1, <2>2, <2>3 DEF Call
<1>3. LookupHit(w) \/ LookupMiss(w) \/ CheckGhost(w) \/ Member(w) => Present(w)' = Present(w)
  BY <1>1 DEF LookupHit, LookupMiss, CheckGhost, Member, Hands
<1>4. CountInsert(w) \/ MainFits(w) => Present(w)' = Present(w)
  BY <1>1 DEF CountInsert, MainFits, HandEmpty, Holding
<1>5. NothingToEvict(w) \/ OverCapacity(w) \/ SmallEmpty(w) \/ JudgeSmallHot(w)
        => Present(w)' = Present(w)
  BY <1>1 DEF NothingToEvict, OverCapacity, SmallEmpty, JudgeSmallHot
<1>6. JudgeSmallCold(w) \/ PromoteMember(w) \/ MainOverfull(w) => Present(w)' = Present(w)
  BY <1>1 DEF JudgeSmallCold, PromoteMember, MainOverfull, Hands
<1>7. MainEmpty(w) => Present(w)' = Present(w)
  BY <1>1 DEF MainEmpty, GivesUp, Answered, AtRest, HandEmpty, Holding
<1>8. Measure(w) => Present(w)' = Present(w)
  BY <1>1, TwoChanges DEF Measure
<1>9. JudgeMainHot(w) \/ JudgeMainCold(w) => Present(w)' = Present(w)
  BY <1>1 DEF JudgeMainHot, JudgeMainCold
<1>10. DropIndex(w) \/ DropMember(w) \/ DropGhost(w) => Present(w)' = Present(w)
  BY <1>1 DEF DropIndex, DropMember, DropGhost
<1>11. RmMiss(w) \/ RmCount(w) => Present(w)' = Present(w)
  BY <1>1 DEF RmMiss, RmCount, Resumed, HandEmpty, Holding
<1>12. RmIndex(w) \/ RmMember(w) => Present(w)' = Present(w)
  BY <1>1 DEF RmIndex, RmMember, Hands
<1>13. ClIndex(w) \/ ClGhost(w) \/ ClMember(w) \/ ClSize(w) => Present(w)' = Present(w)
  BY <1>1 DEF ClIndex, ClGhost, ClMember, ClSize
<1> QED BY <1>2, <1>3, <1>4, <1>5, <1>6, <1>7, <1>8, <1>9, <1>10, <1>11, <1>12, <1>13

(* A step that takes an entry from a queue into the hand, or puts it back,   *)
(* changes nothing of what there is.                                         *)
LEMMA PresentMoves ==
    ASSUME IInv, NEW w \in Threads, HandEmpty(w)
    PROVE  /\ Push(w) \/ Promote(w) \/ Requeue(w) => Present(w)' = Present(w)
           /\ PopSmall(w) \/ PopMain(w) \/ ForcePop(w) => Present(w)' = Present(w)
<1> USE WriterFacts, WriterMoves
<1>1. ASSUME NEW e \in Entries, e = loc[w].entry, loc'[w].entry = None,
             \/ small' = Append(small, e) /\ main' = main
             \/ main' = Append(main, e) /\ small' = small
      PROVE  Present(w)' = Present(w)
  <2>1. /\ Range(Append(small, e)) = Range(small) \cup {e}
        /\ Range(Append(main, e)) = Range(main) \cup {e}
    BY AppendKeeps
  <2> QED BY <1>1, <2>1, NoneAssumption DEF Present
<1>2. Push(w) \/ Promote(w) \/ Requeue(w) =>
        /\ loc[w].entry \in Entries /\ loc'[w].entry = None
        /\ \/ small' = Append(small, loc[w].entry) /\ main' = main
           \/ main' = Append(main, loc[w].entry) /\ small' = small
  <2>1. pc[w] \in {"push", "promote", "requeue"} => loc[w].entry \in Entries
    BY DEF Holding
  <2>2. Push(w) => loc'[w].entry = None
    BY DEF Push, Hands
  <2> QED BY <2>1, <2>2, TwoChanges DEF Push, Promote, Requeue
<1>3. Range(small) = IF small = <<>> THEN {} ELSE Range(Tail(small)) \cup {Head(small)}
  BY HeadAndTail
<1>4. Range(main) = IF main = <<>> THEN {} ELSE Range(Tail(main)) \cup {Head(main)}
  BY HeadAndTail
<1>5. \A q \in {small, main} : q # <<>> => Head(q) \in Entries /\ Head(q) # None
  BY NoneAssumption, TailKeeps
<1>6. PopSmall(w) => Present(w)' = Present(w)
  <2> SUFFICES ASSUME PopSmall(w) PROVE Present(w)' = Present(w)
    OBVIOUS
  <2>1. loc[w].entry = None /\ loc'[w].entry = Head(small)
    BY DEF PopSmall, HandEmpty, Holding, AtRest
  <2>2. small # <<>> /\ small' = Tail(small) /\ main' = main
    BY DEF PopSmall
  <2> QED BY <1>3, <1>5, <2>1, <2>2 DEF Present
<1>7. PopMain(w) \/ ForcePop(w) => Present(w)' = Present(w)
  <2> SUFFICES ASSUME PopMain(w) \/ ForcePop(w) PROVE Present(w)' = Present(w)
    OBVIOUS
  <2>1. loc[w].entry = None /\ loc'[w].entry = Head(main)
    BY DEF PopMain, ForcePop, HandEmpty, Holding, Hands
  <2>2. main # <<>> /\ main' = Tail(main) /\ small' = small
    BY DEF PopMain, ForcePop
  <2> QED BY <1>4, <1>5, <2>1, <2>2 DEF Present
<1> QED BY <1>1, <1>2, <1>6, <1>7

(* What is evicted leaves the hand; what is removed, or cleared, leaves its  *)
(* queue; and what is made comes into the hand.                              *)
LEMMA PresentChanges ==
    ASSUME IInv, NEW w \in Threads, HandEmpty(w)
    PROVE  /\ Uncount(w) => Present(w)' = Present(w) \ {loc[w].entry}
           /\ ClSmall(w) \/ ClMain(w) => Present(w)' \subseteq Present(w)
           /\ RmQueue(w) =>
                /\ loc[w].from = "Main" =>
                    /\ small' = small /\ main' = WithoutKey(main, loc[w].key)
                    /\ Range(main') = {e \in Range(main) : entryKey[e] # loc[w].key}
                /\ loc[w].from # "Main" =>
                    /\ main' = main /\ small' = WithoutKey(small, loc[w].key)
                    /\ Range(small') = {e \in Range(small) : entryKey[e] # loc[w].key}
                /\ Present(w)' \subseteq Present(w)
                /\ \A e \in Present(w) : entryKey[e] # loc[w].key => e \in Present(w)'
           /\ Publish(w) =>
                /\ NewEntry \in Entries /\ NewEntry # None /\ NewEntry \notin Present(w)
                /\ Present(w)' = Present(w) \cup {NewEntry}
<1> USE WriterFacts, WriterMoves
<1>1. Uncount(w) => Present(w)' = Present(w) \ {loc[w].entry}
  <2> SUFFICES ASSUME Uncount(w) PROVE Present(w)' = Present(w) \ {loc[w].entry}
    OBVIOUS
  <2>1. loc[w].entry # None /\ loc'[w].entry = None /\ small' = small /\ main' = main
    BY DEF Uncount, Holding, queues, Answered, AtRest
  <2> QED BY <2>1 DEF Present
<1>2. ClSmall(w) \/ ClMain(w) => Present(w)' \subseteq Present(w)
  <2> SUFFICES ASSUME ClSmall(w) \/ ClMain(w) PROVE Present(w)' \subseteq Present(w)
    OBVIOUS
  <2>1. Range(<<>>) = {}
    BY DEF Range
  <2>2. loc'[w] = loc[w] /\ small' \in {<<>>, small} /\ main' \in {<<>>, main}
    BY DEF ClSmall, ClMain
  <2> QED BY <2>1, <2>2 DEF Present
<1>3. ASSUME RmQueue(w)
      PROVE  /\ loc[w].from = "Main" =>
                    /\ small' = small /\ main' = WithoutKey(main, loc[w].key)
                    /\ Range(main') = {e \in Range(main) : entryKey[e] # loc[w].key}
             /\ loc[w].from # "Main" =>
                    /\ main' = main /\ small' = WithoutKey(small, loc[w].key)
                    /\ Range(small') = {e \in Range(small) : entryKey[e] # loc[w].key}
             /\ Present(w)' \subseteq Present(w)
             /\ \A e \in Present(w) : entryKey[e] # loc[w].key => e \in Present(w)'
  <2> DEFINE Gone == {e \in Entries : entryKey[e] = loc[w].key}
  <2>1. Range(small) \subseteq Entries /\ Range(main) \subseteq Entries
    BY DEF Range
  <2>2. \A q \in {small, main} : Range(WithoutKey(q, loc[w].key)) = Range(q) \ Gone
    <3> HIDE DEF Gone
    <3> QED BY RetainKeeps DEF WithoutKey, Gone
  <2>3. \A q \in {small, main} : Range(q) \ Gone = {e \in Range(q) : entryKey[e] # loc[w].key}
    BY <2>1
  <2>4. loc'[w].entry = loc[w].entry
    BY <1>3 DEF RmQueue, Hands
  <2>5. /\ loc[w].from = "Main" => small' = small /\ main' = WithoutKey(main, loc[w].key)
        /\ loc[w].from # "Main" => main' = main /\ small' = WithoutKey(small, loc[w].key)
    BY <1>3 DEF RmQueue
  <2> HIDE DEF Gone
  <2>6. /\ loc[w].from = "Main" => Range(main') = {e \in Range(main) : entryKey[e] # loc[w].key}
        /\ loc[w].from # "Main" => Range(small') = {e \in Range(small) : entryKey[e] # loc[w].key}
    BY <2>2, <2>3, <2>5
  <2> QED BY <2>4, <2>5, <2>6 DEF Present
<1>4. Publish(w) =>
        /\ NewEntry \in Entries /\ NewEntry # None /\ NewEntry \notin Present(w)
        /\ Present(w)' = Present(w) \cup {NewEntry}
  <2> SUFFICES ASSUME Publish(w)
               PROVE  /\ NewEntry \in Entries /\ NewEntry # None /\ NewEntry \notin Present(w)
                      /\ Present(w)' = Present(w) \cup {NewEntry}
    OBVIOUS
  <2> DEFINE n == NewEntry
  <2>1. n \in Entries /\ n \notin Referenced
    BY DEF Publish, NewEntry
  <2>2. Present(w) \subseteq Referenced
    BY DEF Present, Referenced
  <2>3. small' = small /\ main' = main /\ loc[w].entry = None
    BY DEF Publish, queues, HandEmpty, Holding
  <2>4. loc'[w].entry = n
    BY DEF Publish, Hands
  <2> HIDE DEF n
  <2>5. n # None
    BY <2>1, NoneAssumption
  <2>6. Present(w)' = Present(w) \cup {n}
    BY <2>3, <2>4, <2>5 DEF Present
  <2> QED BY <2>1, <2>2, <2>5, <2>6 DEF n
<1> QED BY <1>1, <1>2, <1>3, <1>4

(* No step but the one that makes an entry gives an entry its key.           *)
LEMMA KeysStay ==
    ASSUME IInv, NEW w \in Threads, Call(w) \/ Step(w), ~Publish(w),
           NEW e \in Present(w), e \in Present(w)'
    PROVE  entryKey'[e] = entryKey[e]
<1>1. e \in Entries /\ e \in Referenced'
  BY WriterFacts DEF Present, Referenced
<1>2. UNCHANGED entries \/ entryKey' = entryKey \/ Settle(entryKey, freq)
  <2>1. CASE Call(w)
    BY <2>1 DEF Call, CallInsert, CallRemove, CallClear
  <2>2. CASE InsertStep(w)
    BY <2>2 DEF InsertStep, LookupHit, LookupMiss, CheckGhost, Push, Member, CountInsert
  <2>3. CASE EvictStep(w)
    BY <2>3 DEF EvictStep, NothingToEvict, OverCapacity, SmallEmpty, PopSmall,
       JudgeSmallHot, JudgeSmallCold, Promote, PromoteMember, MainFits, MainOverfull, MainEmpty,
       GivesUp, Measure, PopMain, JudgeMainHot, JudgeMainCold, Requeue, ForcePop, DropIndex,
       DropMember, DropGhost, Uncount
  <2>4. CASE RemoveStep(w)
    BY <2>4 DEF RemoveStep, RmMiss, RmIndex, RmMember, RmQueue, RmCount
  <2>5. CASE ClearStep(w)
    BY <2>5 DEF ClearStep, ClIndex, ClSmall, ClMain, ClGhost, ClMember, ClSize
  <2> QED BY <2>1, <2>2, <2>3, <2>4, <2>5 DEF Step
<1> QED BY <1>1, <1>2 DEF Settle, entries

-----------------------------------------------------------------------------
(* The index.                                                                *)

(* A step that takes keys out of the index as they become leaving ones, and  *)
(* lets a key stop leaving once its entry is gone.                           *)
LEMMA IndexShrinks ==
    ASSUME IInv, NEW w \in Threads, IndexNames(w),
           Present(w)' \subseteq Present(w),
           \A e \in Present(w)' : entryKey'[e] = entryKey[e],
           \A k \in Keys : index'[k] = IF Leaving(w, k)' THEN None ELSE index[k],
           \A e \in Present(w) : e \in Present(w)' \/ Leaving(w, entryKey[e]),
           \A e \in Present(w)' : Leaving(w, entryKey[e]) => Leaving(w, entryKey[e])',
           pc'[w] \in {"ghost", "publish"} => index'[loc'[w].key] = None
    PROVE  IndexNames(w)'
<1> USE WriterFacts
<1>1. ASSUME NEW k \in Keys, index'[k] # None
      PROVE  index'[k] \in Present(w)' /\ entryKey'[index'[k]] = k
  BY <1>1 DEF IndexNames
<1>2. ASSUME NEW e \in Present(w)', ~Leaving(w, entryKey[e])'
      PROVE  index'[entryKey'[e]] = e
  <2>1. e \in Present(w) /\ entryKey'[e] = entryKey[e] /\ entryKey[e] \in Keys
    OBVIOUS
  <2>2. ~Leaving(w, entryKey[e])
    BY <1>2
  <2>3. index[entryKey[e]] = e /\ e # None
    BY <2>1, <2>2 DEF IndexNames
  <2>4. index'[entryKey[e]] = index[entryKey[e]]
    BY <1>2, <2>1
  <2> QED BY <2>1, <2>3, <2>4
<1>3. \A k \in Keys : Leaving(w, k)' => index'[k] = None
  OBVIOUS
<1>4. \A d, e \in Present(w)' : entryKey'[d] = entryKey'[e] => d = e
  BY DEF IndexNames
<1> QED BY <1>1, <1>2, <1>3, <1>4 DEF IndexNames

LEMMA IndexStays ==
    ASSUME IInv, NEW w \in Threads, IndexNames(w), index' = index,
           Present(w)' = Present(w),
           \A e \in Present(w)' : entryKey'[e] = entryKey[e],
           \A k \in Keys : Leaving(w, k)' <=> Leaving(w, k),
           pc'[w] \in {"ghost", "publish"} => index'[loc'[w].key] = None
    PROVE  IndexNames(w)'
<1>1. \A k \in Keys : index'[k] = IF Leaving(w, k)' THEN None ELSE index[k]
  BY DEF IndexNames
<1>2. \A e \in Present(w)' : Leaving(w, entryKey[e]) => Leaving(w, entryKey[e])'
  BY WriterFacts
<1> QED BY <1>1, <1>2, IndexShrinks

(* The entry made by an insertion is the only one with its key.              *)
LEMMA PublishNames ==
    ASSUME IInv, NEW w \in Threads, HandEmpty(w), IndexNames(w), Publish(w)
    PROVE  /\ IndexNames(w)'
           /\ entryKey'[NewEntry] = loc[w].key
           /\ \A e \in Present(w) : entryKey'[e] = entryKey[e]
<1> USE WriterFacts, WriterMoves
<1> DEFINE n == NewEntry
           k == loc[w].key
<1>1. /\ n \in Entries /\ n # None /\ n \notin Present(w)
      /\ Present(w)' = Present(w) \cup {n}
  BY PresentChanges
<1>2. pc[w] = "publish" /\ pc'[w] = "push"
  BY DEF Publish
<1>3. /\ index' = [index EXCEPT ![k] = n]
      /\ Settle([entryKey EXCEPT ![n] = k], [freq EXCEPT ![n] = 0])
  BY DEF Publish
<1>4. k \in Keys
  BY <1>2 DEF Keyed
<1>5. Present(w)' \subseteq Referenced'
  BY DEF Present, Referenced
<1>6. entryKey \in [Entries -> Keys \cup {None}]
  BY DEF IInv, TypeOK
<1> HIDE DEF n, k
<1>7. entryKey'[n] = k /\ \A e \in Present(w) : entryKey'[e] = entryKey[e]
  BY <1>1, <1>3, <1>5, <1>6 DEF Settle
<1>8. /\ \A j \in Keys : ~Leaving(w, j) /\ ~Leaving(w, j)'
      /\ pc[w] \notin Clearing \cup Dropping
  BY <1>2 DEF Leaving, Clearing, Dropping
<1>9. \A e \in Present(w) : entryKey[e] # k
  <2>1. index[k] = None
    BY <1>2 DEF IndexNames, k
  <2> QED BY <1>4, <1>8, <2>1 DEF IndexNames
<1>10. ASSUME NEW j \in Keys, index'[j] # None
       PROVE  index'[j] \in Present(w)' /\ entryKey'[index'[j]] = j
  <2>1. CASE j = k
    BY <1>1, <1>3, <1>4, <1>7, <2>1
  <2>2. CASE j # k
    BY <1>1, <1>3, <1>7, <1>10, <2>2 DEF IndexNames
  <2> QED BY <2>1, <2>2
<1>11. ASSUME NEW e \in Present(w)' PROVE index'[entryKey'[e]] = e
  <2>1. CASE e = n
    BY <1>3, <1>4, <1>7, <2>1
  <2>2. CASE e # n
    BY <1>1, <1>3, <1>7, <1>8, <1>9, <2>2 DEF IndexNames
  <2> QED BY <2>1, <2>2
<1>12. \A d, e \in Present(w)' : entryKey'[d] = entryKey'[e] => d = e
  BY <1>11
<1>13. IndexNames(w)'
  BY <1>2, <1>8, <1>10, <1>11, <1>12 DEF IndexNames
<1> QED BY <1>7, <1>13 DEF n, k

(* Every step keeps the index to the entries there are.                      *)
LEMMA IndexAgrees ==
    ASSUME IInv, NEW w \in Threads, Agree(w), Call(w) \/ Step(w)
    PROVE  IndexNames(w)'
<1> USE WriterFacts, WriterMoves
<1> DEFINE Calm == Sections \ (Clearing \cup Dropping \cup
                {"rmMember", "rmQueue", "ghost", "publish"})
<1>0. HandEmpty(w) /\ IndexNames(w)
  BY DEF Agree
<1>1. CASE Publish(w)
  BY <1>0, <1>1, PublishNames
<1>2. CASE ~Publish(w)
  <2>1. \A e \in Present(w)' : e \in Present(w) => entryKey'[e] = entryKey[e]
    BY <1>2, KeysStay
  <2>2. ASSUME index' = index, Present(w)' = Present(w),
               pc[w] \in Calm \cup {"publish"}, pc'[w] \in Calm
        PROVE  IndexNames(w)'
    <3>1. \A k \in Keys : ~Leaving(w, k) /\ ~Leaving(w, k)'
      BY <2>2 DEF Leaving, Clearing, Dropping
    <3>2. pc'[w] \notin {"ghost", "publish"}
      BY <2>2
    <3> QED BY <1>0, <2>1, <2>2, <3>1, <3>2, IndexStays
  <2>3. CASE Call(w)
    <3>1. pc[w] = "idle" /\ pc'[w] \in {"lookup", "rmIndex", "clIndex"} /\ index' = index
      BY <2>3, CallGoes DEF Call, CallInsert, CallRemove, CallClear
    <3>2. pc[w] \in Calm /\ pc'[w] \in Calm
      BY <3>1 DEF Sections, Clearing, Dropping
    <3> QED BY <1>0, <2>2, <2>3, <3>1, <3>2, PresentStays
  <2>4. CASE InsertStep(w)
    <3>1. CASE LookupHit(w) \/ Push(w) \/ Member(w) \/ CountInsert(w)
      <4>1. pc[w] \in Calm /\ pc'[w] \in Calm /\ index' = index
        BY <3>1 DEF LookupHit, Push, Member, CountInsert, Sections, Clearing, Dropping
      <4> QED BY <1>0, <2>2, <3>1, <4>1, PresentStays, PresentMoves
    <3>2. CASE LookupMiss(w) \/ CheckGhost(w)
      <4>1. /\ pc[w] \in {"lookup", "ghost"} /\ pc'[w] \in {"ghost", "publish"}
            /\ index' = index /\ loc'[w].key = loc[w].key
            /\ pc[w] = "lookup" => index[loc[w].key] = None
        BY <3>2 DEF LookupMiss, CheckGhost, Hands
      <4>2. index'[loc'[w].key] = None
        BY <1>0, <4>1 DEF IndexNames
      <4>3. \A k \in Keys : ~Leaving(w, k) /\ ~Leaving(w, k)'
        BY <4>1 DEF Leaving, Clearing, Dropping
      <4> QED BY <1>0, <2>1, <3>2, <4>1, <4>2, <4>3, PresentStays, IndexStays
    <3> QED BY <1>2, <2>4, <3>1, <3>2 DEF InsertStep
  <2>5. CASE EvictStep(w)
    <3>1. CASE NothingToEvict(w) \/ OverCapacity(w) \/ SmallEmpty(w) \/ PopSmall(w)
               \/ JudgeSmallHot(w) \/ JudgeSmallCold(w) \/ Promote(w) \/ PromoteMember(w)
      <4>1. pc[w] \in Calm /\ pc'[w] \in Calm /\ index' = index
        BY <3>1 DEF NothingToEvict, OverCapacity, SmallEmpty, PopSmall, JudgeSmallHot,
           JudgeSmallCold, Promote, PromoteMember, Sections, Clearing, Dropping
      <4> QED BY <1>0, <2>2, <3>1, <4>1, PresentStays, PresentMoves
    <3>2. CASE MainFits(w) \/ MainOverfull(w) \/ Measure(w) \/ PopMain(w)
               \/ JudgeMainHot(w) \/ JudgeMainCold(w) \/ Requeue(w) \/ ForcePop(w)
      <4>1. /\ pc[w] \in {"checkMain", "measure", "popMain", "judgeMain", "requeue", "forcePop"}
            /\ pc'[w] \in {"check", "measure", "popMain", "judgeMain", "requeue", "forcePop",
                           "dropIndex"}
        BY <3>2, TwoChanges DEF MainFits, MainOverfull, PopMain, JudgeMainHot,
           JudgeMainCold, ForcePop
      <4>2. index' = index
        BY <3>2 DEF MainFits, MainOverfull, Measure, PopMain, JudgeMainHot,
           JudgeMainCold, Requeue, ForcePop
      <4>3. pc[w] \in Calm /\ pc'[w] \in Calm
        BY <4>1 DEF Sections, Clearing, Dropping
      <4> QED BY <1>0, <2>2, <3>2, <4>2, <4>3, PresentStays, PresentMoves
    <3>3. CASE MainEmpty(w)
      <4>1. pc[w] \in {"measure", "popMain", "forcePop"} /\ pc'[w] \in {"idle", "checkMain"}
        BY <3>3 DEF MainEmpty, GivesUp
      <4>2. index' = index
        BY <3>3 DEF MainEmpty, GivesUp
      <4>3. pc[w] \in Calm /\ pc'[w] \in Calm
        BY <4>1 DEF Sections, Clearing, Dropping
      <4> QED BY <1>0, <2>2, <3>3, <4>2, <4>3, PresentStays
    <3>4. CASE DropIndex(w)
      <4> DEFINE e == loc[w].entry
      <4>1. /\ pc[w] = "dropIndex" /\ pc'[w] = "dropMember" /\ loc'[w] = loc[w]
            /\ index' = [index EXCEPT ![entryKey[e]] = None]
        BY <3>4 DEF DropIndex
      <4>2. e \in Present(w) /\ Present(w)' = Present(w) /\ entryKey'[e] = entryKey[e]
        BY <1>0, <2>1, <3>4, <4>1, PresentStays DEF Holding
      <4>3. \A k \in Keys : Leaving(w, k)' <=> k = entryKey[e]
        BY <4>1, <4>2 DEF Leaving, Clearing, Dropping
      <4>4. \A k \in Keys : ~Leaving(w, k)
        BY <4>1 DEF Leaving, Clearing, Dropping
      <4>5. \A k \in Keys : index'[k] = IF Leaving(w, k)' THEN None ELSE index[k]
        BY <4>1, <4>3
      <4>6. pc'[w] \notin {"ghost", "publish"}
        BY <4>1
      <4> HIDE DEF e
      <4> QED BY <1>0, <2>1, <4>2, <4>4, <4>5, <4>6, IndexShrinks
    <3>5. CASE DropMember(w) \/ DropGhost(w)
      <4> DEFINE e == loc[w].entry
      <4>1. /\ pc[w] \in Dropping /\ pc'[w] \in Dropping /\ loc'[w] = loc[w]
            /\ index' = index /\ entryKey' = entryKey /\ pc'[w] \notin {"ghost", "publish"}
        BY <3>5 DEF DropMember, DropGhost, Dropping, entries
      <4>2. \A k \in Keys : Leaving(w, k)' <=> Leaving(w, k)
        BY <4>1 DEF Leaving, Clearing, Dropping
      <4> QED BY <1>0, <2>1, <3>5, <4>1, <4>2, PresentStays, IndexStays
    <3>6. CASE Uncount(w)
      <4> DEFINE e == loc[w].entry
      <4>1. /\ pc[w] = "uncount" /\ pc'[w] \in {"check", "checkMain"} /\ index' = index
        BY <3>6 DEF Uncount, Hands
      <4>2. e \in Present(w) /\ Present(w)' = Present(w) \ {e}
        BY <1>0, <3>6, <4>1, PresentChanges DEF Holding
      <4>3. \A k \in Keys : (Leaving(w, k) <=> k = entryKey[e]) /\ ~Leaving(w, k)'
        BY <4>1 DEF Leaving, Clearing, Dropping
      <4>4. \A k \in Keys : index'[k] = IF Leaving(w, k)' THEN None ELSE index[k]
        BY <4>1, <4>3
      <4>5. \A d \in Present(w)' : ~Leaving(w, entryKey[d])
        BY <1>0, <4>2, <4>3 DEF IndexNames
      <4>6. \A d \in Present(w) : d \in Present(w)' \/ Leaving(w, entryKey[d])
        BY <4>2, <4>3
      <4>7. pc'[w] \notin {"ghost", "publish"} /\ Present(w)' \subseteq Present(w)
        BY <4>1, <4>2
      <4> HIDE DEF e
      <4> QED BY <1>0, <2>1, <4>4, <4>5, <4>6, <4>7, IndexShrinks
    <3> QED BY <2>5, <3>1, <3>2, <3>3, <3>4, <3>5, <3>6 DEF EvictStep
  <2>6. CASE RemoveStep(w)
    <3> DEFINE j == loc[w].key
    <3>1. CASE RmMiss(w) \/ RmCount(w)
      <4>1. pc[w] \in {"rmIndex", "rmCount"} /\ pc'[w] \in {"idle", "lookup"} /\ index' = index
        BY <3>1 DEF RmMiss, RmCount, Hands
      <4>2. pc[w] \in Calm /\ pc'[w] \in Calm
        BY <4>1 DEF Sections, Clearing, Dropping
      <4> QED BY <1>0, <2>2, <3>1, <4>1, <4>2, PresentStays
    <3>2. CASE RmIndex(w)
      <4>1. /\ pc[w] = "rmIndex" /\ pc'[w] = "rmMember" /\ loc'[w] = loc[w]
            /\ index' = [index EXCEPT ![j] = None]
        BY <3>2 DEF RmIndex
      <4>2. \A k \in Keys : ~Leaving(w, k) /\ (Leaving(w, k)' <=> k = j)
        BY <4>1 DEF Leaving, Clearing, Dropping
      <4>3. \A k \in Keys : index'[k] = IF Leaving(w, k)' THEN None ELSE index[k]
        BY <4>1, <4>2
      <4>4. pc'[w] \notin {"ghost", "publish"} /\ Present(w)' = Present(w)
        BY <1>0, <3>2, <4>1, PresentStays
      <4> QED BY <1>0, <2>1, <4>2, <4>3, <4>4, IndexShrinks
    <3>3. CASE RmMember(w)
      <4>1. /\ pc[w] = "rmMember" /\ pc'[w] = "rmQueue" /\ loc'[w].key = j /\ index' = index
        BY <3>3 DEF RmMember, Hands, Agree, MapTells
      <4>2. \A k \in Keys : Leaving(w, k)' <=> Leaving(w, k)
        BY <4>1 DEF Leaving, Clearing, Dropping
      <4> QED BY <1>0, <2>1, <3>3, <4>1, <4>2, PresentStays, IndexStays
    <3>4. CASE RmQueue(w)
      <4>1. /\ pc[w] = "rmQueue" /\ pc'[w] = "rmCount" /\ index' = index
        BY <3>4 DEF RmQueue
      <4>2. \A k \in Keys : (Leaving(w, k) <=> k = j) /\ ~Leaving(w, k)'
        BY <4>1 DEF Leaving, Clearing, Dropping
      <4>3. /\ Present(w)' \subseteq Present(w)
            /\ \A e \in Present(w) : entryKey[e] # j => e \in Present(w)'
        BY <1>0, <3>4, PresentChanges
      <4>4. \A e \in Present(w)' : entryKey[e] # j
        <5> DEFINE q == IF loc[w].from = "Main" THEN main ELSE small
        <5>1. PICK d \in Range(q) : entryKey[d] = j
          BY <4>1 DEF Agree, MapTells, KeysOn
        <5>2. d \in Present(w) /\ \A e \in Present(w) : entryKey[e] = j => e = d
          BY <1>0, <5>1 DEF IndexNames, Present
        <5>3. d \notin Present(w)'
          <6>1. loc'[w].entry = loc[w].entry
            BY <3>4 DEF RmQueue, Hands
          <6>2. d \notin Range(small') /\ d \notin Range(main')
            BY <1>0, <3>4, <5>1, PresentChanges
          <6> QED BY <5>1, <6>1, <6>2 DEF Present
        <5> QED BY <4>3, <5>2, <5>3
      <4>5. \A k \in Keys : index'[k] = IF Leaving(w, k)' THEN None ELSE index[k]
        BY <4>1, <4>2
      <4>6. pc'[w] \notin {"ghost", "publish"}
        BY <4>1
      <4> QED BY <1>0, <2>1, <4>2, <4>3, <4>4, <4>5, <4>6, IndexShrinks
    <3> QED BY <2>6, <3>1, <3>2, <3>3, <3>4 DEF RemoveStep
  <2>7. CASE ClearStep(w)
    <3>1. CASE ClIndex(w)
      <4>1. pc[w] = "clIndex" /\ pc'[w] = "clSmall" /\ index' = [k \in Keys |-> None]
        BY <3>1 DEF ClIndex
      <4>2. \A k \in Keys : ~Leaving(w, k) /\ Leaving(w, k)'
        BY <4>1 DEF Leaving, Clearing, Dropping
      <4>3. \A k \in Keys : index'[k] = IF Leaving(w, k)' THEN None ELSE index[k]
        BY <4>1, <4>2
      <4>4. pc'[w] \notin {"ghost", "publish"} /\ Present(w)' = Present(w)
        BY <1>0, <3>1, <4>1, PresentStays
      <4> QED BY <1>0, <2>1, <4>2, <4>3, <4>4, IndexShrinks
    <3>2. CASE ClSmall(w) \/ ClMain(w) \/ ClGhost(w) \/ ClMember(w)
      <4>1. pc[w] \in Clearing /\ pc'[w] \in Clearing /\ index' = index
        BY <3>2 DEF ClSmall, ClMain, ClGhost, ClMember, Clearing
      <4>2. \A k \in Keys : Leaving(w, k) /\ Leaving(w, k)'
        BY <4>1 DEF Leaving
      <4>3. \A k \in Keys : index'[k] = IF Leaving(w, k)' THEN None ELSE index[k]
        BY <1>0, <4>1, <4>2 DEF IndexNames
      <4>4. pc'[w] \notin {"ghost", "publish"} /\ Present(w)' \subseteq Present(w)
        BY <1>0, <3>2, <4>1, PresentStays, PresentChanges DEF Clearing
      <4>5. \A e \in Present(w) : Leaving(w, entryKey[e]) /\ Leaving(w, entryKey[e])'
        BY <4>1 DEF Leaving
      <4> QED BY <1>0, <2>1, <4>3, <4>4, <4>5, IndexShrinks
    <3>3. CASE ClSize(w)
      <4>1. pc[w] = "clSize" /\ pc'[w] = "idle" /\ index' = index /\ loc' = loc
        BY <3>3 DEF ClSize
      <4>2. small = <<>> /\ main = <<>> /\ loc[w].entry = None
        BY <4>1 DEF Agree, SizeCounts, HandEmpty, Clearing, Holding
      <4>3. Present(w) = {}
        BY <4>2 DEF Present, Range
      <4>4. \A k \in Keys : ~Leaving(w, k)'
        BY <4>1 DEF Leaving, Clearing, Dropping
      <4>5. \A k \in Keys : index'[k] = IF Leaving(w, k)' THEN None ELSE index[k]
        BY <4>1, <4>4
      <4>6. pc'[w] \notin {"ghost", "publish"} /\ Present(w)' = {}
        BY <1>0, <3>3, <4>1, <4>3, PresentStays
      <4> QED BY <1>0, <4>3, <4>5, <4>6, IndexShrinks
    <3> QED BY <2>7, <3>1, <3>2, <3>3 DEF ClearStep
  <2> QED BY <2>3, <2>4, <2>5, <2>6, <2>7 DEF Step
<1> QED BY <1>1, <1>2

-----------------------------------------------------------------------------
(* The membership map.                                                       *)

(* A key is on one queue, or in the hand.                                    *)
LEMMA KeyInOnePlace ==
    ASSUME IInv, NEW w \in Threads, IndexNames(w)
    PROVE  /\ KeysOn(small) \cap KeysOn(main) = {}
           /\ pc[w] \in Holding => entryKey[loc[w].entry] \notin KeysOn(small) \cup KeysOn(main)
<1> USE WriterFacts
<1>1. Range(small) \subseteq Present(w) /\ Range(main) \subseteq Present(w)
  BY DEF Present
<1> QED BY <1>1 DEF IndexNames, KeysOn

(* The keys on a queue that is as it was are as they were, and an entry that *)
(* is pushed or popped brings its key or takes it.                           *)
LEMMA KeysOnStep ==
    ASSUME IInv, NEW w \in Threads, Call(w) \/ Step(w), ~Publish(w),
           Present(w)' \subseteq Present(w)
    PROVE  /\ small' = small => KeysOn(small)' = KeysOn(small)
           /\ main' = main => KeysOn(main)' = KeysOn(main)
           /\ \A e \in Present(w) : e \in Present(w)' =>
                /\ small' = Append(small, e) => KeysOn(small)' = KeysOn(small) \cup {entryKey[e]}
                /\ main' = Append(main, e) => KeysOn(main)' = KeysOn(main) \cup {entryKey[e]}
           /\ small # <<>> /\ small' = Tail(small)
                => KeysOn(small) = KeysOn(small)' \cup {entryKey[Head(small)]}
           /\ main # <<>> /\ main' = Tail(main)
                => KeysOn(main) = KeysOn(main)' \cup {entryKey[Head(main)]}
<1> USE WriterFacts
<1>1. \A e \in Present(w)' : e \in Present(w) /\ entryKey'[e] = entryKey[e]
  BY KeysStay
<1>2. Range(small') \subseteq Present(w)' /\ Range(main') \subseteq Present(w)'
  BY DEF Present
<1>3. \A q : Range(q) \subseteq Present(w)' =>
        {entryKey'[e] : e \in Range(q)} = {entryKey[e] : e \in Range(q)}
  BY <1>1
<1>4. /\ KeysOn(small)' = {entryKey[e] : e \in Range(small')}
      /\ KeysOn(main)' = {entryKey[e] : e \in Range(main')}
  BY <1>2, <1>3 DEF KeysOn
<1>5. /\ small' = small => KeysOn(small)' = KeysOn(small)
      /\ main' = main => KeysOn(main)' = KeysOn(main)
  BY <1>4 DEF KeysOn
<1>6. ASSUME NEW e \in Present(w)
      PROVE  /\ Range(Append(small, e)) = Range(small) \cup {e}
             /\ Range(Append(main, e)) = Range(main) \cup {e}
  BY AppendKeeps
<1>7. \A k : /\ k \in KeysOn(small) <=> \E d \in Range(small) : k = entryKey[d]
             /\ k \in KeysOn(main) <=> \E d \in Range(main) : k = entryKey[d]
             /\ k \in KeysOn(small)' <=> \E d \in Range(small') : k = entryKey[d]
             /\ k \in KeysOn(main)' <=> \E d \in Range(main') : k = entryKey[d]
  BY <1>4 DEF KeysOn
<1>8. \A k, e : /\ (\A d : d \in Range(small') <=> d \in Range(small) \/ d = e)
                     => (k \in KeysOn(small)' <=> k \in KeysOn(small) \/ k = entryKey[e])
                /\ (\A d : d \in Range(main') <=> d \in Range(main) \/ d = e)
                     => (k \in KeysOn(main)' <=> k \in KeysOn(main) \/ k = entryKey[e])
                /\ (\A d : d \in Range(small) <=> d \in Range(small') \/ d = e)
                     => (k \in KeysOn(small) <=> k \in KeysOn(small)' \/ k = entryKey[e])
                /\ (\A d : d \in Range(main) <=> d \in Range(main') \/ d = e)
                     => (k \in KeysOn(main) <=> k \in KeysOn(main)' \/ k = entryKey[e])
  BY ONLY <1>7
<1>9. ASSUME NEW e \in Present(w)
      PROVE  /\ small' = Append(small, e) => KeysOn(small)' = KeysOn(small) \cup {entryKey[e]}
             /\ main' = Append(main, e) => KeysOn(main)' = KeysOn(main) \cup {entryKey[e]}
  <2>1. ASSUME small' = Append(small, e) PROVE KeysOn(small)' = KeysOn(small) \cup {entryKey[e]}
    <3>1. \A d : d \in Range(small') <=> d \in Range(small) \/ d = e
      BY <1>6, <2>1
    <3> QED BY ONLY <1>8, <3>1
  <2>2. ASSUME main' = Append(main, e) PROVE KeysOn(main)' = KeysOn(main) \cup {entryKey[e]}
    <3>1. \A d : d \in Range(main') <=> d \in Range(main) \/ d = e
      BY <1>6, <2>2
    <3> QED BY ONLY <1>8, <3>1
  <2> QED BY <2>1, <2>2
<1>10. ASSUME small # <<>>, small' = Tail(small)
       PROVE  KeysOn(small) = KeysOn(small)' \cup {entryKey[Head(small)]}
  <2>1. \A d : d \in Range(small) <=> d \in Range(small') \/ d = Head(small)
    BY <1>10, HeadAndTail
  <2> QED BY ONLY <1>8, <2>1
<1>11. ASSUME main # <<>>, main' = Tail(main)
       PROVE  KeysOn(main) = KeysOn(main)' \cup {entryKey[Head(main)]}
  <2>1. \A d : d \in Range(main) <=> d \in Range(main') \/ d = Head(main)
    BY <1>11, HeadAndTail
  <2> QED BY ONLY <1>8, <2>1
<1> QED BY <1>5, <1>9, <1>10, <1>11

(* A step that leaves the queues and the map as they are, and of no key      *)
(* that the map was wrong about makes one that it should know.               *)
LEMMA MapStays ==
    ASSUME IInv, NEW w \in Threads, MapTells(w), Call(w) \/ Step(w), ~Publish(w),
           Present(w)' = Present(w), small' = small, main' = main, membership' = membership,
           \A k \in Keys : Untold(w, k) => Untold(w, k)',
           pc'[w] \notin {"push", "member", "promoteMember", "judgeMain", "rmQueue"},
           pc'[w] = "rmMember" => membership[loc'[w].key] # None,
           pc'[w] = "requeue" =>
                pc[w] = "judgeMain" /\ loc'[w] = loc[w] /\ entryKey' = entryKey
    PROVE  MapTells(w)'
<1>1. KeysOn(small)' = KeysOn(small) /\ KeysOn(main)' = KeysOn(main)
  BY KeysOnStep
<1>2. \A k \in Keys : ~Untold(w, k)' =>
        /\ membership'[k] = "Small" <=> k \in KeysOn(small)'
        /\ membership'[k] = "Main" <=> k \in KeysOn(main)'
  BY <1>1 DEF MapTells
<1>3. pc'[w] = "requeue" => membership'[entryKey'[loc'[w].entry]] = "Main"
  BY DEF MapTells
<1> QED BY <1>2, <1>3 DEF MapTells

(* Every step keeps the map to the queues.                                   *)
LEMMA MapAgrees ==
    ASSUME IInv, NEW w \in Threads, Agree(w), Call(w) \/ Step(w)
    PROVE  MapTells(w)'
<1> USE WriterFacts, WriterMoves
<1> DEFINE h == entryKey[loc[w].entry]
           j == loc[w].key
           Plain == Sections \ (Clearing \cup Popped \cup
                {"dropMember", "push", "member", "promoteMember", "rmMember", "rmQueue"})
<1>0. HandEmpty(w) /\ IndexNames(w) /\ MapTells(w)
  BY DEF Agree
<1>1. CASE Publish(w)
  <2>1. /\ entryKey'[NewEntry] = j /\ loc'[w].entry = NewEntry /\ loc'[w].key = j
        /\ \A e \in Present(w) : entryKey'[e] = entryKey[e]
        /\ pc[w] = "publish" /\ pc'[w] = "push"
        /\ small' = small /\ main' = main /\ membership' = membership
    <3>1. loc'[w].entry = NewEntry /\ loc'[w].key = j
      <4> DEFINE n == NewEntry
      <4>1. Carries(w, [loc[w] EXCEPT !.entry = n])
        BY <1>1 DEF Publish
      <4> HIDE DEF n
      <4>2. loc'[w].entry = n /\ loc'[w].key = j
        BY <4>1 DEF Hands
      <4> QED BY <4>2 DEF n
    <3>2. /\ pc[w] = "publish" /\ pc'[w] = "push"
          /\ small' = small /\ main' = main /\ membership' = membership
      BY <1>1 DEF Publish, queues
    <3> QED BY <1>0, <1>1, <3>1, <3>2, PublishNames
  <2>2. Range(small) \subseteq Present(w) /\ Range(main) \subseteq Present(w)
    BY DEF Present
  <2>3. KeysOn(small)' = KeysOn(small) /\ KeysOn(main)' = KeysOn(main)
    BY <2>1, <2>2 DEF KeysOn
  <2>4. \A k \in Keys : ~Untold(w, k)
    BY <2>1 DEF Untold, Popped
  <2>5. \A k \in Keys : /\ membership'[k] = "Small" <=> k \in KeysOn(small)'
                        /\ membership'[k] = "Main" <=> k \in KeysOn(main)'
    BY <1>0, <2>1, <2>3, <2>4 DEF MapTells
  <2> QED BY <2>1, <2>5 DEF MapTells
<1>2. CASE ~Publish(w)
  <2>1. \A e \in Present(w)' : e \in Present(w) => entryKey'[e] = entryKey[e]
    BY <1>2, KeysStay
  <2>2. \A k \in Keys : ~Untold(w, k) =>
            /\ membership[k] = "Small" <=> k \in KeysOn(small)
            /\ membership[k] = "Main" <=> k \in KeysOn(main)
    BY <1>0 DEF MapTells
  <2>3. ASSUME Present(w)' = Present(w), UNCHANGED queues, membership' = membership,
               pc[w] \in Plain, pc'[w] \in Plain
        PROVE  MapTells(w)'
    <3>1. \A k \in Keys : ~Untold(w, k)
      BY <2>3 DEF Untold, Clearing
    <3>2. /\ pc'[w] \notin {"push", "member", "promoteMember", "judgeMain", "rmQueue"}
          /\ pc'[w] # "rmMember" /\ pc'[w] # "requeue"
      BY <2>3 DEF Popped
    <3> QED BY <1>0, <1>2, <2>3, <3>1, <3>2, MapStays DEF queues
  <2>4. CASE Call(w)
    <3>1. /\ pc[w] = "idle" /\ pc'[w] \in {"lookup", "rmIndex", "clIndex"}
          /\ UNCHANGED queues /\ membership' = membership
      BY <2>4 DEF Call, CallInsert, CallRemove, CallClear
    <3>2. pc[w] \in Plain /\ pc'[w] \in Plain
      BY <3>1 DEF Sections, Clearing, Popped
    <3> QED BY <1>0, <2>3, <2>4, <3>1, <3>2, PresentStays
  <2>5. CASE InsertStep(w)
    <3>1. CASE LookupHit(w) \/ LookupMiss(w) \/ CheckGhost(w) \/ CountInsert(w)
      <4>1. /\ pc[w] \in {"lookup", "ghost", "count"}
            /\ pc'[w] \in {"rmIndex", "ghost", "publish", "check"}
            /\ UNCHANGED queues /\ membership' = membership
        BY <3>1 DEF LookupHit, LookupMiss, CheckGhost, CountInsert
      <4>2. pc[w] \in Plain /\ pc'[w] \in Plain
        BY <4>1 DEF Sections, Clearing, Popped
      <4> QED BY <1>0, <2>3, <3>1, <4>1, <4>2, PresentStays
    <3>2. CASE Push(w)
      <4>1. /\ pc[w] = "push" /\ pc'[w] = "member" /\ membership' = membership
            /\ loc'[w].key = j /\ loc'[w].toMain = loc[w].toMain
            /\ loc[w].toMain => main' = Append(main, loc[w].entry) /\ small' = small
            /\ ~loc[w].toMain => small' = Append(small, loc[w].entry) /\ main' = main
        BY <3>2 DEF Push, Hands
      <4>2. h = j
        BY <1>0, <4>1 DEF MapTells
      <4>3. Present(w)' = Present(w) /\ loc[w].entry \in Present(w)
        BY <1>0, <3>2, <4>1, PresentMoves DEF Holding
      <4>4. /\ loc[w].toMain =>
                 KeysOn(main)' = KeysOn(main) \cup {j} /\ KeysOn(small)' = KeysOn(small)
            /\ ~loc[w].toMain =>
                 KeysOn(small)' = KeysOn(small) \cup {j} /\ KeysOn(main)' = KeysOn(main)
        <5> DEFINE e == loc[w].entry
        <5>1. /\ small' = small => KeysOn(small)' = KeysOn(small)
              /\ main' = main => KeysOn(main)' = KeysOn(main)
              /\ small' = Append(small, e) => KeysOn(small)' = KeysOn(small) \cup {h}
              /\ main' = Append(main, e) => KeysOn(main)' = KeysOn(main) \cup {h}
          <6>1. Present(w)' \subseteq Present(w) /\ e \in Present(w) /\ e \in Present(w)'
            BY <4>3
          <6>2. ~Publish(w)
            BY <4>1 DEF Publish, Goes
          <6> QED BY <6>1, <6>2, KeysOnStep
        <5> QED BY <4>1, <4>2, <5>1
      <4>5. \A k \in Keys : ~Untold(w, k) /\ (Untold(w, k)' <=> k = j)
        BY <4>1 DEF Untold, Popped
      <4>6. \A k \in Keys : ~Untold(w, k)' =>
                /\ membership'[k] = "Small" <=> k \in KeysOn(small)'
                /\ membership'[k] = "Main" <=> k \in KeysOn(main)'
        BY <2>2, <4>1, <4>4, <4>5
      <4>7. loc'[w].key \in (KeysOn(IF loc[w].toMain THEN main ELSE small))'
        BY <4>1, <4>4
      <4> QED BY <4>1, <4>6, <4>7 DEF MapTells
    <3>3. CASE Member(w)
      <4>1. /\ pc[w] = "member" /\ pc'[w] = "count" /\ small' = small /\ main' = main
            /\ membership' = [membership EXCEPT ![j] = IF loc[w].toMain THEN "Main" ELSE "Small"]
        BY <3>3 DEF Member, queues
      <4>2. /\ KeysOn(small)' = KeysOn(small) /\ KeysOn(main)' = KeysOn(main)
            /\ j \in KeysOn(IF loc[w].toMain THEN main ELSE small)
            /\ KeysOn(small) \cap KeysOn(main) = {}
        BY <1>0, <1>2, <3>3, <4>1, PresentStays, KeysOnStep, KeyInOnePlace DEF MapTells
      <4>3. \A k \in Keys : (Untold(w, k) <=> k = j) /\ ~Untold(w, k)'
        BY <4>1 DEF Untold, Popped
      <4>4. \A k \in Keys : /\ membership'[k] = "Small" <=> k \in KeysOn(small)'
                            /\ membership'[k] = "Main" <=> k \in KeysOn(main)'
        BY <2>2, <4>1, <4>2, <4>3
      <4> QED BY <4>1, <4>4 DEF MapTells
    <3> QED BY <1>2, <2>5, <3>1, <3>2, <3>3 DEF InsertStep
  <2>6. CASE EvictStep(w)
    <3>1. CASE NothingToEvict(w) \/ OverCapacity(w) \/ SmallEmpty(w) \/ MainEmpty(w)
               \/ MainFits(w) \/ MainOverfull(w) \/ Measure(w) \/ DropGhost(w)
      <4>1. /\ pc[w] \in {"check", "popSmall", "measure", "popMain", "forcePop", "checkMain",
                          "dropGhost"}
            /\ pc'[w] \in {"idle", "popSmall", "measure", "checkMain", "check", "popMain", "uncount"}
        BY <3>1, TwoChanges DEF NothingToEvict, OverCapacity, SmallEmpty, MainEmpty, GivesUp,
           MainFits, MainOverfull, DropGhost
      <4>2. UNCHANGED queues /\ membership' = membership
        BY <3>1 DEF NothingToEvict, OverCapacity, SmallEmpty, MainEmpty, GivesUp,
           MainFits, MainOverfull, Measure, DropGhost
      <4>3. pc[w] \in Plain /\ pc'[w] \in Plain
        BY <4>1 DEF Sections, Clearing, Popped
      <4> QED BY <1>0, <2>3, <3>1, <4>2, <4>3, PresentStays
    <3>2. CASE JudgeSmallHot(w) \/ JudgeSmallCold(w) \/ JudgeMainHot(w) \/ JudgeMainCold(w)
      <4>1. /\ pc[w] \in {"judgeSmall", "judgeMain"}
            /\ pc'[w] \in {"promote", "dropIndex", "requeue"}
            /\ pc'[w] = "requeue" => pc[w] = "judgeMain" /\ loc'[w] = loc[w]
            /\ loc'[w].entry = loc[w].entry
        BY <3>2 DEF JudgeSmallHot, JudgeSmallCold, JudgeMainHot, JudgeMainCold, Hands
      <4>2. UNCHANGED queues /\ membership' = membership /\ entryKey' = entryKey
        BY <3>2 DEF JudgeSmallHot, JudgeSmallCold, JudgeMainHot, JudgeMainCold, entries
      <4>3. \A k \in Keys : Untold(w, k) => Untold(w, k)'
        BY <4>1, <4>2 DEF Untold, Popped
      <4>4. /\ pc'[w] \notin {"push", "member", "promoteMember", "judgeMain", "rmQueue"}
            /\ pc'[w] # "rmMember"
        BY <4>1
      <4> QED BY <1>0, <1>2, <3>2, <4>1, <4>2, <4>3, <4>4, PresentStays, MapStays DEF queues
    <3>3. CASE PopSmall(w) \/ PopMain(w) \/ ForcePop(w)
      <4>1. /\ pc[w] \in {"popSmall", "popMain", "forcePop"}
            /\ pc'[w] \in {"judgeSmall", "judgeMain", "dropIndex"} /\ membership' = membership
            /\ pc'[w] = "judgeMain" => pc[w] = "popMain"
        BY <3>3 DEF PopSmall, PopMain, ForcePop
      <4> DEFINE e == loc'[w].entry
      <4>2. \/ small # <<>> /\ small' = Tail(small) /\ main' = main /\ e = Head(small)
               /\ pc'[w] = "judgeSmall"
            \/ main # <<>> /\ main' = Tail(main) /\ small' = small /\ e = Head(main)
        BY <3>3 DEF PopSmall, PopMain, ForcePop, Hands, AtRest
      <4>3. Present(w)' = Present(w)
        BY <1>0, <3>3, PresentMoves
      <4>4. e \in Present(w) /\ (pc'[w] = "judgeMain" => e \in Range(main))
        BY <4>2, TailKeeps DEF Present
      <4>5. entryKey'[e] = entryKey[e] /\ entryKey[e] \in Keys
        BY <2>1, <4>3, <4>4
      <4>6. \A k \in Keys : ~Untold(w, k) /\ (Untold(w, k)' <=> k = entryKey[e])
        BY <4>1, <4>5 DEF Untold, Popped
      <4> HIDE DEF e
      <4>7. \A k \in Keys : k # entryKey[e] =>
                /\ k \in KeysOn(small)' <=> k \in KeysOn(small)
                /\ k \in KeysOn(main)' <=> k \in KeysOn(main)
        <5>1. CASE small # <<>> /\ small' = Tail(small) /\ main' = main /\ e = Head(small)
          <6>1. KeysOn(small) = KeysOn(small)' \cup {entryKey[e]} /\ KeysOn(main)' = KeysOn(main)
            BY <1>2, <4>3, <5>1, KeysOnStep
          <6> QED BY <6>1
        <5>2. CASE main # <<>> /\ main' = Tail(main) /\ small' = small /\ e = Head(main)
          <6>1. KeysOn(main) = KeysOn(main)' \cup {entryKey[e]} /\ KeysOn(small)' = KeysOn(small)
            BY <1>2, <4>3, <5>2, KeysOnStep
          <6> QED BY <6>1
        <5> QED BY <4>2, <5>1, <5>2
      <4>8. \A k \in Keys : ~Untold(w, k)' =>
                /\ membership'[k] = "Small" <=> k \in KeysOn(small)'
                /\ membership'[k] = "Main" <=> k \in KeysOn(main)'
        BY <2>2, <4>1, <4>6, <4>7
      <4>9. pc'[w] = "judgeMain" => membership'[entryKey'[loc'[w].entry]] = "Main"
        <5>1. e \in Range(main) => entryKey[e] \in KeysOn(main)
          BY DEF KeysOn
        <5> QED BY <2>2, <4>1, <4>4, <4>5, <4>6, <5>1 DEF e
      <4> QED BY <4>1, <4>8, <4>9 DEF MapTells
    <3>4. CASE Promote(w) \/ Requeue(w)
      <4>1. /\ pc[w] \in {"promote", "requeue"}
            /\ pc'[w] \in {"promoteMember", "forcePop", "popMain"}
            /\ pc'[w] = "promoteMember" => loc'[w].key = h
            /\ pc[w] = "requeue" <=> pc'[w] # "promoteMember"
        BY <3>4, TwoChanges
      <4>2. /\ main' = Append(main, loc[w].entry) /\ small' = small
            /\ membership' = membership /\ entryKey' = entryKey
        BY <3>4 DEF Promote, Requeue, entries
      <4>3. Present(w)' = Present(w) /\ loc[w].entry \in Present(w)
        BY <1>0, <3>4, <4>1, PresentMoves DEF Holding
      <4>4. KeysOn(main)' = KeysOn(main) \cup {h} /\ KeysOn(small)' = KeysOn(small)
        BY <1>2, <4>2, <4>3, KeysOnStep
      <4>5. \A k \in Keys : /\ Untold(w, k) <=> k = h
                            /\ Untold(w, k)' <=> k = h /\ pc'[w] = "promoteMember"
        BY <4>1 DEF Untold, Popped
      <4>6. pc[w] = "requeue" => membership[h] = "Main"
        BY <1>0 DEF MapTells
      <4>7. h \notin KeysOn(small)
        BY <1>0, <4>1, KeyInOnePlace DEF Holding
      <4>8. \A k \in Keys : ~Untold(w, k)' =>
                /\ membership'[k] = "Small" <=> k \in KeysOn(small)'
                /\ membership'[k] = "Main" <=> k \in KeysOn(main)'
        BY <2>2, <4>1, <4>2, <4>4, <4>5, <4>6, <4>7
      <4> QED BY <4>1, <4>4, <4>8 DEF MapTells
    <3>5. CASE PromoteMember(w)
      <4>1. /\ pc[w] = "promoteMember" /\ pc'[w] = "checkMain" /\ small' = small /\ main' = main
            /\ membership' = [membership EXCEPT ![j] = "Main"]
        BY <3>5 DEF PromoteMember, queues
      <4>2. /\ KeysOn(small)' = KeysOn(small) /\ KeysOn(main)' = KeysOn(main)
            /\ j \in KeysOn(main) /\ KeysOn(small) \cap KeysOn(main) = {}
        BY <1>0, <1>2, <3>5, <4>1, PresentStays, KeysOnStep, KeyInOnePlace DEF MapTells
      <4>3. \A k \in Keys : (Untold(w, k) <=> k = j) /\ ~Untold(w, k)'
        BY <4>1 DEF Untold, Popped
      <4>4. \A k \in Keys : /\ membership'[k] = "Small" <=> k \in KeysOn(small)'
                            /\ membership'[k] = "Main" <=> k \in KeysOn(main)'
        BY <2>2, <4>1, <4>2, <4>3
      <4> QED BY <4>1, <4>4 DEF MapTells
    <3>6. CASE DropIndex(w)
      <4>1. /\ pc[w] = "dropIndex" /\ pc'[w] = "dropMember" /\ loc'[w] = loc[w]
            /\ UNCHANGED queues /\ membership' = membership
        BY <3>6 DEF DropIndex
      <4>2. Present(w)' = Present(w) /\ entryKey'[loc[w].entry] = h
        BY <1>0, <2>1, <3>6, <4>1, PresentStays DEF Holding
      <4>3. \A k \in Keys : Untold(w, k) => Untold(w, k)'
        BY <4>1, <4>2 DEF Untold, Popped
      <4> QED BY <1>0, <1>2, <4>1, <4>2, <4>3, MapStays DEF queues
    <3>7. CASE DropMember(w)
      <4>1. /\ pc[w] = "dropMember" /\ pc'[w] \in {"dropGhost", "uncount"}
            /\ small' = small /\ main' = main
            /\ membership' = [membership EXCEPT ![h] = None]
        BY <3>7 DEF DropMember, queues
      <4>2. /\ KeysOn(small)' = KeysOn(small) /\ KeysOn(main)' = KeysOn(main)
            /\ h \notin KeysOn(small) \cup KeysOn(main)
        BY <1>0, <1>2, <3>7, <4>1, PresentStays, KeysOnStep, KeyInOnePlace DEF Holding
      <4>3. \A k \in Keys : (Untold(w, k) <=> k = h) /\ ~Untold(w, k)'
        BY <4>1 DEF Untold, Popped
      <4>4. \A k \in Keys : /\ membership'[k] = "Small" <=> k \in KeysOn(small)'
                            /\ membership'[k] = "Main" <=> k \in KeysOn(main)'
        BY <2>2, <4>1, <4>2, <4>3, NoneAssumption
      <4> QED BY <4>1, <4>4 DEF MapTells
    <3>8. CASE Uncount(w)
      <4>1. /\ pc[w] = "uncount" /\ pc'[w] \in {"check", "checkMain"}
            /\ small' = small /\ main' = main /\ membership' = membership
        BY <3>8 DEF Uncount, queues, Hands
      <4>2. /\ KeysOn(small)' = KeysOn(small) /\ KeysOn(main)' = KeysOn(main)
        BY <1>0, <1>2, <3>8, <4>1, PresentChanges, KeysOnStep
      <4>3. \A k \in Keys : ~Untold(w, k)
        BY <4>1 DEF Untold, Popped
      <4>4. \A k \in Keys : /\ membership'[k] = "Small" <=> k \in KeysOn(small)'
                            /\ membership'[k] = "Main" <=> k \in KeysOn(main)'
        BY <2>2, <4>1, <4>2, <4>3
      <4> QED BY <4>1, <4>4 DEF MapTells
    <3> QED BY <2>6, <3>1, <3>2, <3>3, <3>4, <3>5, <3>6, <3>7, <3>8 DEF EvictStep
  <2>7. CASE RemoveStep(w)
    <3>1. CASE RmMiss(w) \/ RmCount(w)
      <4>1. /\ pc[w] \in {"rmIndex", "rmCount"} /\ pc'[w] \in {"idle", "lookup"}
            /\ UNCHANGED queues /\ membership' = membership
        BY <3>1 DEF RmMiss, RmCount, Hands
      <4>2. pc[w] \in Plain /\ pc'[w] \in Plain
        BY <4>1 DEF Sections, Clearing, Popped
      <4> QED BY <1>0, <2>3, <3>1, <4>1, <4>2, PresentStays
    <3>2. CASE RmIndex(w)
      <4>1. /\ pc[w] = "rmIndex" /\ pc'[w] = "rmMember" /\ loc'[w] = loc[w]
            /\ UNCHANGED queues /\ membership' = membership /\ index[j] # None
        BY <3>2 DEF RmIndex
      <4>2. \A k \in Keys : ~Untold(w, k)
        BY <4>1 DEF Untold, Popped
      <4>3. membership[j] # None
        <5>1. index[j] \in Present(w) /\ entryKey[index[j]] = j /\ j \in Keys
          BY <1>0, <4>1 DEF IndexNames, Keyed
        <5>2. loc[w].entry = None
          BY <1>0, <4>1 DEF HandEmpty, Holding
        <5>3. j \in KeysOn(small) \cup KeysOn(main)
          BY <5>1, <5>2 DEF Present, KeysOn
        <5> QED BY <2>2, <4>2, <5>1, <5>3, NoneAssumption
      <4>4. Present(w)' = Present(w)
        BY <1>0, <3>2, PresentStays
      <4> QED BY <1>0, <1>2, <4>1, <4>2, <4>3, <4>4, MapStays DEF queues
    <3>3. CASE RmMember(w)
      <4>1. /\ pc[w] = "rmMember" /\ pc'[w] = "rmQueue" /\ loc'[w].key = j
            /\ loc'[w].from = membership[j] /\ small' = small /\ main' = main
            /\ membership' = [membership EXCEPT ![j] = None] /\ j \in Keys
        <5>1. membership[j] # None
          BY <1>0, <3>3 DEF MapTells, RmMember
        <5> QED BY <3>3, <5>1 DEF RmMember, Hands, queues, Keyed
      <4>2. KeysOn(small)' = KeysOn(small) /\ KeysOn(main)' = KeysOn(main)
        BY <1>0, <1>2, <3>3, <4>1, PresentStays, KeysOnStep
      <4>3. \A k \in Keys : ~Untold(w, k) /\ (Untold(w, k)' <=> k = j)
        BY <4>1 DEF Untold, Popped
      <4>4. membership[j] \in {"Small", "Main"}
        BY <1>0, <4>1 DEF MapTells
      <4>5. \A k \in Keys : ~Untold(w, k)' =>
                /\ membership'[k] = "Small" <=> k \in KeysOn(small)'
                /\ membership'[k] = "Main" <=> k \in KeysOn(main)'
        BY <2>2, <4>1, <4>2, <4>3
      <4>6. loc'[w].key \in IF loc'[w].from = "Main" THEN KeysOn(main)' ELSE KeysOn(small)'
        BY <2>2, <4>1, <4>2, <4>3, <4>4
      <4>7. (loc[w].key \in KeysOn(IF loc[w].from = "Main" THEN main ELSE small))'
        BY <4>6
      <4> QED BY <4>1, <4>5, <4>7 DEF MapTells
    <3>4. CASE RmQueue(w)
      <4>1. pc[w] = "rmQueue" /\ pc'[w] = "rmCount" /\ membership' = membership /\ j \in Keys
        BY <3>4 DEF RmQueue, Keyed
      <4>2. /\ membership[j] = None
            /\ j \in IF loc[w].from = "Main" THEN KeysOn(main) ELSE KeysOn(small)
            /\ KeysOn(small) \cap KeysOn(main) = {}
        BY <1>0, <4>1, KeyInOnePlace DEF MapTells
      <4>3. /\ loc[w].from = "Main" =>
                 small' = small /\ Range(main') = {e \in Range(main) : entryKey[e] # j}
            /\ loc[w].from # "Main" =>
                 main' = main /\ Range(small') = {e \in Range(small) : entryKey[e] # j}
            /\ Present(w)' \subseteq Present(w)
        BY <1>0, <3>4, PresentChanges
      <4>4. /\ KeysOn(small)' = {entryKey[e] : e \in Range(small')}
            /\ KeysOn(main)' = {entryKey[e] : e \in Range(main')}
        <5>1. Range(small') \subseteq Present(w)' /\ Range(main') \subseteq Present(w)'
          BY DEF Present
        <5>2. /\ \A e \in Range(small') : entryKey'[e] = entryKey[e]
              /\ \A e \in Range(main') : entryKey'[e] = entryKey[e]
          BY <2>1, <4>3, <5>1
        <5> QED BY <5>2 DEF KeysOn
      <4>5. \A k : /\ k \in KeysOn(small)' <=> k \in KeysOn(small) /\ k # j
                   /\ k \in KeysOn(main)' <=> k \in KeysOn(main) /\ k # j
        <5>1. \A k : /\ k \in KeysOn(small) <=> \E e \in Range(small) : k = entryKey[e]
                     /\ k \in KeysOn(main) <=> \E e \in Range(main) : k = entryKey[e]
                     /\ k \in KeysOn(small)' <=> \E e \in Range(small') : k = entryKey[e]
                     /\ k \in KeysOn(main)' <=> \E e \in Range(main') : k = entryKey[e]
          BY <4>4 DEF KeysOn
        <5>2. CASE loc[w].from = "Main"
          <6>1. \A k : k \in KeysOn(main)' <=> k \in KeysOn(main) /\ k # j
            BY <4>3, <5>1, <5>2
          <6>2. \A k : k \in KeysOn(small)' <=> k \in KeysOn(small)
            BY <4>3, <5>1, <5>2
          <6> QED BY <4>2, <5>2, <6>1, <6>2
        <5>3. CASE loc[w].from # "Main"
          <6>1. \A k : k \in KeysOn(small)' <=> k \in KeysOn(small) /\ k # j
            BY <4>3, <5>1, <5>3
          <6>2. \A k : k \in KeysOn(main)' <=> k \in KeysOn(main)
            BY <4>3, <5>1, <5>3
          <6> QED BY <4>2, <5>3, <6>1, <6>2
        <5> QED BY <5>2, <5>3
      <4>6. \A k \in Keys : (Untold(w, k) <=> k = j) /\ ~Untold(w, k)'
        BY <4>1 DEF Untold, Popped
      <4>7. \A k \in Keys : /\ membership'[k] = "Small" <=> k \in KeysOn(small)'
                            /\ membership'[k] = "Main" <=> k \in KeysOn(main)'
        BY <2>2, <4>1, <4>2, <4>5, <4>6, NoneAssumption
      <4> QED BY <4>1, <4>7 DEF MapTells
    <3> QED BY <2>7, <3>1, <3>2, <3>3, <3>4 DEF RemoveStep
  <2>8. CASE ClearStep(w)
    <3>1. CASE ClIndex(w)
      <4>1. /\ pc[w] = "clIndex" /\ pc'[w] = "clSmall"
            /\ UNCHANGED queues /\ membership' = membership
        BY <3>1 DEF ClIndex
      <4>2. \A k \in Keys : ~Untold(w, k)
        BY <4>1 DEF Untold, Popped
      <4>3. /\ pc'[w] \notin {"push", "member", "promoteMember", "judgeMain", "rmQueue"}
            /\ pc'[w] # "rmMember" /\ pc'[w] # "requeue"
        BY <4>1
      <4> QED BY <1>0, <1>2, <3>1, <4>1, <4>2, <4>3, PresentStays, MapStays DEF queues
    <3>2. CASE ClSmall(w) \/ ClMain(w) \/ ClGhost(w)
      <4>1. pc'[w] \in {"clMain", "clGhost", "clMember"}
        BY <3>2 DEF ClSmall, ClMain, ClGhost
      <4>2. \A k \in Keys : Untold(w, k)'
        BY <4>1 DEF Untold
      <4> QED BY <4>1, <4>2 DEF MapTells
    <3>3. CASE ClMember(w) \/ ClSize(w)
      <4>1. /\ pc[w] \in {"clMember", "clSize"} /\ pc'[w] \in {"clSize", "idle"}
            /\ small' = small /\ main' = main
        BY <3>3 DEF ClMember, ClSize, queues
      <4>2. small = <<>> /\ main = <<>>
        BY <4>1 DEF Agree, SizeCounts, Clearing
      <4>3. KeysOn(small)' = {} /\ KeysOn(main)' = {} /\ KeysOn(small) = {} /\ KeysOn(main) = {}
        BY <4>1, <4>2 DEF KeysOn, Range
      <4>4. \A k \in Keys : membership'[k] \notin {"Small", "Main"}
        <5>1. CASE ClMember(w)
          BY <5>1, NoneAssumption DEF ClMember
        <5>2. CASE ClSize(w)
          <6>1. \A k \in Keys : ~Untold(w, k)
            BY <5>2 DEF ClSize, Untold, Popped
          <6> QED BY <2>2, <4>3, <5>2, <6>1 DEF ClSize
        <5> QED BY <3>3, <5>1, <5>2
      <4>5. \A k \in Keys : /\ membership'[k] = "Small" <=> k \in KeysOn(small)'
                            /\ membership'[k] = "Main" <=> k \in KeysOn(main)'
        BY <4>3, <4>4
      <4> QED BY <4>1, <4>5 DEF MapTells
    <3> QED BY <2>8, <3>1, <3>2, <3>3 DEF ClearStep
  <2> QED BY <2>4, <2>5, <2>6, <2>7, <2>8 DEF Step
<1> QED BY <1>1, <1>2

-----------------------------------------------------------------------------
(* size.                                                                     *)

(* Retaining all but one element makes a queue shorter by one.               *)
LEMMA RetainAllButOne ==
    ASSUME NEW A, NEW s \in Seq(A), IsInjective(s), NEW d \in Range(s), NEW Gone,
           \A e \in Range(s) : e \in Gone <=> e = d
    PROVE  Len(Retain(s, Gone)) = Len(s) - 1
<1> DEFINE r == Retain(s, Gone)
<1>1. r \in Seq(A) /\ IsInjective(r) /\ Range(r) = Range(s) \ Gone
  BY RetainKeeps
<1>2. Range(r) = Range(s) \ {d}
  BY <1>1
<1>3. /\ IsFiniteSet(Range(s)) /\ Cardinality(Range(s)) = Len(s)
      /\ Cardinality(Range(r)) = Len(r)
  BY <1>1, RangeCounts
<1>4. Cardinality(Range(s) \ {d}) = Cardinality(Range(s)) - 1
  BY <1>3, FS_RemoveElement
<1> QED BY <1>2, <1>3, <1>4

(* A step that leaves the queues and size as they are. *)
LEMMA SizeStays ==
    ASSUME IInv, NEW w \in Threads, SizeCounts(w), UNCHANGED queues, size' = size,
           pc[w] \notin Popped \cup Dropping \cup Clearing \cup {"rmCount", "member", "count"},
           pc'[w] \notin Popped \cup Dropping \cup {"rmCount", "member", "count"},
           pc'[w] \in Clearing => pc'[w] = "clSmall",
           pc'[w] \in Keyed \cup {"idle"} => size <= Capacity,
           pc'[w] = "popSmall" => size > Capacity,
           pc'[w] \in {"measure", "popMain", "forcePop"} => main # <<>>
    PROVE  SizeCounts(w)'
BY DEF SizeCounts, queues

(* Every step keeps size to the number of entries on the queues.             *)
LEMMA SizeAgrees ==
    ASSUME IInv, NEW w \in Threads, Agree(w), Call(w) \/ Step(w)
    PROVE  SizeCounts(w)'
<1> USE WriterFacts, WriterMoves
<1> DEFINE e == loc[w].entry
           j == loc[w].key
<1>0. HandEmpty(w) /\ IndexNames(w) /\ MapTells(w) /\ SizeCounts(w)
  BY DEF Agree
<1>1. /\ Len(small) \in Nat /\ Len(main) \in Nat /\ size \in Nat /\ Capacity \in Nat
      /\ Len(small) = 0 <=> small = <<>>
      /\ Len(main) = 0 <=> main = <<>>
  BY ConfigAssumption
<1>2. CASE Call(w)
  <2>1. /\ pc[w] = "idle" /\ pc'[w] \in {"lookup", "rmIndex", "clIndex"}
        /\ UNCHANGED queues /\ size' = size
    BY <1>2 DEF Call, CallInsert, CallRemove, CallClear
  <2> QED BY <1>0, <2>1, SizeStays DEF SizeCounts, Popped, Dropping, Clearing, Keyed
<1>3. CASE InsertStep(w)
  <2>1. CASE LookupHit(w) \/ LookupMiss(w) \/ CheckGhost(w) \/ Publish(w)
    <3>1. /\ pc[w] \in {"lookup", "ghost", "publish"}
          /\ pc'[w] \in {"rmIndex", "ghost", "publish", "push"}
          /\ UNCHANGED queues /\ size' = size
      BY <2>1 DEF LookupHit, LookupMiss, CheckGhost, Publish
    <3> QED BY <1>0, <3>1, SizeStays DEF SizeCounts, Popped, Dropping, Clearing, Keyed
  <2>2. CASE Push(w)
    <3>1. /\ pc[w] = "push" /\ pc'[w] = "member" /\ size' = size /\ e \in Entries
          /\ \/ small' = Append(small, e) /\ main' = main
             \/ main' = Append(main, e) /\ small' = small
      BY <2>2 DEF Push, Holding
    <3>2. Len(small') + Len(main') = Len(small) + Len(main) + 1
      <4>1. Len(Append(small, e)) = Len(small) + 1 /\ Len(Append(main, e)) = Len(main) + 1
        BY <3>1
      <4>2. CASE small' = Append(small, e) /\ main' = main
        BY <1>1, <4>1, <4>2
      <4>3. CASE main' = Append(main, e) /\ small' = small
        BY <1>1, <4>1, <4>3
      <4> QED BY <3>1, <4>2, <4>3
    <3>3. size = Len(small) + Len(main) /\ size <= Capacity
      BY <1>0, <3>1 DEF SizeCounts, Popped, Dropping, Clearing, Keyed
    <3> QED BY <1>1, <3>1, <3>2, <3>3 DEF SizeCounts, Popped, Dropping, Clearing
  <2>3. CASE Member(w)
    <3>1. pc[w] = "member" /\ pc'[w] = "count" /\ UNCHANGED queues /\ size' = size
      BY <2>3 DEF Member
    <3> QED BY <1>0, <3>1 DEF SizeCounts, Popped, Dropping, Clearing, Keyed, queues
  <2>4. CASE CountInsert(w)
    <3>1. pc[w] = "count" /\ pc'[w] = "check" /\ UNCHANGED queues /\ Grow
      BY <2>4 DEF CountInsert
    <3>2. size + 1 = Len(small) + Len(main) /\ size <= Capacity
      BY <1>0, <3>1 DEF SizeCounts, Popped, Dropping, Clearing, Keyed
    <3>3. size' = size + 1
      BY <3>1, <3>2, <1>1, UsizeAssumption DEF Grow
    <3> QED BY <1>1, <3>1, <3>2, <3>3 DEF SizeCounts, Popped, Dropping, Clearing, Keyed, queues
  <2> QED BY <1>3, <2>1, <2>2, <2>3, <2>4 DEF InsertStep
<1>4. CASE EvictStep(w)
  <2>1. CASE NothingToEvict(w) \/ OverCapacity(w)
    <3>1. /\ pc[w] = "check" /\ pc'[w] \in {"idle", "popSmall"}
          /\ UNCHANGED queues /\ size' = size
          /\ pc'[w] = "idle" => size <= Capacity
          /\ pc'[w] = "popSmall" => size > Capacity
      BY <2>1 DEF NothingToEvict, OverCapacity
    <3> QED BY <1>0, <3>1, SizeStays DEF Popped, Dropping, Clearing, Keyed
  <2>2. CASE SmallEmpty(w) \/ MainOverfull(w) \/ Measure(w)
    <3>1. pc[w] \in {"popSmall", "checkMain", "measure"} /\ pc'[w] \in {"measure", "popMain"}
      BY <2>2, TwoChanges DEF SmallEmpty, MainOverfull
    <3>2. UNCHANGED queues /\ size' = size
      BY <2>2 DEF SmallEmpty, MainOverfull, Measure
    <3>3. main # <<>>
      <4>1. CASE SmallEmpty(w)
        <5>1. pc[w] = "popSmall" /\ small = <<>>
          BY <4>1 DEF SmallEmpty
        <5>2. size > Capacity /\ size = Len(small) + Len(main)
          BY <1>0, <5>1 DEF SizeCounts, Popped, Dropping, Clearing
        <5> QED BY <1>1, <5>1, <5>2
      <4>2. CASE MainOverfull(w)
        BY <1>1, <4>2, MainCapacityType DEF MainOverfull
      <4>3. CASE Measure(w)
        BY <4>3 DEF Measure
      <4> QED BY <2>2, <4>1, <4>2, <4>3
    <3> QED BY <1>0, <3>1, <3>2, <3>3, SizeStays DEF Popped, Dropping, Clearing, Keyed
  <2>3. CASE MainFits(w)
    <3>1. pc[w] = "checkMain" /\ pc'[w] = "check" /\ UNCHANGED queues /\ size' = size
      BY <2>3 DEF MainFits
    <3> QED BY <1>0, <3>1, SizeStays DEF Popped, Dropping, Clearing, Keyed
  <2>4. ~MainEmpty(w)
    BY <1>0 DEF MainEmpty, GivesUp, SizeCounts
  <2>5. CASE PopSmall(w) \/ PopMain(w) \/ ForcePop(w)
    <3>1. /\ pc[w] \in {"popSmall", "popMain", "forcePop"}
          /\ pc'[w] \in {"judgeSmall", "judgeMain", "dropIndex"}
          /\ \/ small # <<>> /\ small' = Tail(small) /\ main' = main
             \/ main # <<>> /\ main' = Tail(main) /\ small' = small
          /\ size' = size
      BY <2>5 DEF PopSmall, PopMain, ForcePop
    <3>2. Len(small') + Len(main') = Len(small) + Len(main) - 1
      <4>1. /\ small # <<>> => Len(Tail(small)) = Len(small) - 1
            /\ main # <<>> => Len(Tail(main)) = Len(main) - 1
        OBVIOUS
      <4>2. CASE small # <<>> /\ small' = Tail(small) /\ main' = main
        BY <1>1, <4>1, <4>2
      <4>3. CASE main # <<>> /\ main' = Tail(main) /\ small' = small
        BY <1>1, <4>1, <4>3
      <4> QED BY <3>1, <4>2, <4>3
    <3>3. size = Len(small) + Len(main) /\ size <= Capacity + 1
      BY <1>0, <3>1 DEF SizeCounts, Popped, Dropping, Clearing
    <3> QED BY <1>1, <3>1, <3>2, <3>3 DEF SizeCounts, Popped, Dropping, Clearing, Keyed
  <2>6. CASE JudgeSmallHot(w) \/ JudgeSmallCold(w) \/ JudgeMainHot(w) \/ JudgeMainCold(w)
             \/ DropIndex(w) \/ DropMember(w) \/ DropGhost(w)
    <3>1. /\ pc[w] \in Popped \cup Dropping
          /\ pc'[w] \in {"promote", "dropIndex", "requeue", "dropMember", "dropGhost", "uncount"}
          /\ UNCHANGED queues /\ size' = size
      BY <2>6 DEF JudgeSmallHot, JudgeSmallCold, JudgeMainHot, JudgeMainCold, DropIndex,
         DropMember, DropGhost, Popped, Dropping
    <3> QED BY <1>0, <1>1, <3>1 DEF SizeCounts, Popped, Dropping, Clearing, Keyed, queues
  <2>7. CASE Promote(w) \/ Requeue(w)
    <3>1. /\ pc[w] \in {"promote", "requeue"}
          /\ pc'[w] \in {"promoteMember", "forcePop", "popMain"}
          /\ e \in Entries
      BY <2>7, TwoChanges DEF Holding
    <3>2. main' = Append(main, e) /\ small' = small /\ size' = size
      BY <2>7 DEF Promote, Requeue
    <3>3. main' # <<>> /\ Len(main') = Len(main) + 1
      BY <3>1, <3>2
    <3>4. size = Len(small) + Len(main) + 1 /\ size <= Capacity + 1
      BY <1>0, <3>1 DEF SizeCounts, Popped, Dropping, Clearing
    <3> QED BY <1>1, <3>1, <3>2, <3>3, <3>4 DEF SizeCounts, Popped, Dropping, Clearing, Keyed
  <2>8. CASE PromoteMember(w)
    <3>1. /\ pc[w] = "promoteMember" /\ pc'[w] = "checkMain"
          /\ UNCHANGED queues /\ size' = size
      BY <2>8 DEF PromoteMember
    <3> QED BY <1>0, <3>1, SizeStays DEF Popped, Dropping, Clearing, Keyed
  <2>9. CASE Uncount(w)
    <3>1. pc[w] = "uncount" /\ pc'[w] \in {"check", "checkMain"} /\ UNCHANGED queues /\ Shrink
      BY <2>9 DEF Uncount, Hands
    <3>2. size = Len(small) + Len(main) + 1 /\ size <= Capacity + 1
      BY <1>0, <3>1 DEF SizeCounts, Popped, Dropping, Clearing
    <3>3. size' = size - 1
      BY <1>1, <3>1, <3>2 DEF Shrink
    <3> QED BY <1>1, <3>1, <3>2, <3>3 DEF SizeCounts, Popped, Dropping, Clearing, Keyed, queues
  <2> QED BY <1>4, <2>1, <2>2, <2>3, <2>4, <2>5, <2>6, <2>7, <2>8, <2>9 DEF EvictStep
<1>5. CASE RemoveStep(w)
  <2>1. CASE RmMiss(w) \/ RmIndex(w) \/ RmMember(w)
    <3>1. /\ pc[w] \in {"rmIndex", "rmMember"}
          /\ pc'[w] \in {"idle", "lookup", "rmMember", "rmQueue"}
          /\ UNCHANGED queues /\ size' = size
      <4>1. pc[w] = "rmMember" => membership[j] # None
        BY <1>0 DEF MapTells
      <4> QED BY <2>1, <4>1 DEF RmMiss, RmIndex, RmMember, Hands
    <3> QED BY <1>0, <3>1, SizeStays DEF SizeCounts, Popped, Dropping, Clearing, Keyed
  <2>2. CASE RmQueue(w)
    <3> DEFINE q == IF loc[w].from = "Main" THEN main ELSE small
               Gone == {d \in Entries : entryKey[d] = j}
    <3>1. pc[w] = "rmQueue" /\ pc'[w] = "rmCount" /\ size' = size
      BY <2>2 DEF RmQueue
    <3>2. /\ loc[w].from = "Main" => small' = small /\ main' = Retain(main, Gone)
          /\ loc[w].from # "Main" => main' = main /\ small' = Retain(small, Gone)
      BY <2>2 DEF RmQueue, WithoutKey
    <3>3. PICK d \in Range(q) : entryKey[d] = j
      BY <1>0, <3>1 DEF MapTells, KeysOn
    <3>4. \A x \in Range(q) : x \in Gone <=> x = d
      BY <1>0, <3>3 DEF IndexNames, Present
    <3>5. q \in Seq(Entries) /\ IsInjective(q)
      OBVIOUS
    <3>6. Len(Retain(q, Gone)) = Len(q) - 1
      <4> HIDE DEF q, Gone
      <4> QED BY <3>3, <3>4, <3>5, RetainAllButOne
    <3>7. Len(small') + Len(main') = Len(small) + Len(main) - 1
      <4>1. CASE loc[w].from = "Main"
        <5>1. small' = small /\ main' = Retain(main, Gone) /\ q = main
          BY <3>2, <4>1
        <5> HIDE DEF q, Gone
        <5> QED BY <1>1, <3>6, <5>1
      <4>2. CASE loc[w].from # "Main"
        <5>1. main' = main /\ small' = Retain(small, Gone) /\ q = small
          BY <3>2, <4>2
        <5> HIDE DEF q, Gone
        <5> QED BY <1>1, <3>6, <5>1
      <4> QED BY <4>1, <4>2
    <3>8. size = Len(small) + Len(main) /\ size <= Capacity
      BY <1>0, <3>1 DEF SizeCounts, Popped, Dropping, Clearing, Keyed
    <3>9. Len(small') \in Nat /\ Len(main') \in Nat
      <4> HIDE DEF Gone
      <4> QED BY <3>2, RetainKeeps
    <3> QED BY <1>1, <3>1, <3>7, <3>8, <3>9 DEF SizeCounts, Popped, Dropping, Clearing
  <2>3. CASE RmCount(w)
    <3>1. pc[w] = "rmCount" /\ pc'[w] \in {"idle", "lookup"} /\ UNCHANGED queues /\ Shrink
      BY <2>3 DEF RmCount, Hands
    <3>2. size = Len(small) + Len(main) + 1 /\ size <= Capacity
      BY <1>0, <3>1 DEF SizeCounts, Popped, Dropping, Clearing, Keyed
    <3>3. size' = size - 1
      BY <1>1, <3>1, <3>2 DEF Shrink
    <3> QED BY <1>1, <3>1, <3>2, <3>3 DEF SizeCounts, Popped, Dropping, Clearing, Keyed, queues
  <2> QED BY <1>5, <2>1, <2>2, <2>3 DEF RemoveStep
<1>6. CASE ClearStep(w)
  <2>1. CASE ClIndex(w)
    <3>1. pc[w] = "clIndex" /\ pc'[w] = "clSmall" /\ UNCHANGED queues /\ size' = size
      BY <2>1 DEF ClIndex
    <3> QED BY <1>0, <3>1, SizeStays DEF Popped, Dropping, Clearing, Keyed
  <2>2. CASE ClSmall(w) \/ ClMain(w) \/ ClGhost(w) \/ ClMember(w)
    <3>1. /\ pc[w] \in Clearing /\ pc'[w] \in Clearing \ {"clSmall"} /\ size' = size
          /\ small' = <<>>
          /\ pc'[w] \in Clearing \ {"clSmall", "clMain"} => main' = <<>>
      BY <1>0, <2>2 DEF ClSmall, ClMain, ClGhost, ClMember, Clearing, SizeCounts, queues
    <3> QED BY <1>0, <3>1 DEF SizeCounts, Popped, Dropping, Clearing, Keyed
  <2>3. CASE ClSize(w)
    <3>1. pc[w] = "clSize" /\ pc'[w] = "idle" /\ UNCHANGED queues /\ size' = 0
      BY <2>3 DEF ClSize
    <3>2. small = <<>> /\ main = <<>>
      BY <1>0, <3>1 DEF SizeCounts, Clearing
    <3> QED BY <1>1, <3>1, <3>2 DEF SizeCounts, Popped, Dropping, Clearing, Keyed, queues
  <2> QED BY <1>6, <2>1, <2>2, <2>3 DEF ClearStep
<1> QED BY <1>2, <1>3, <1>4, <1>5, <1>6 DEF Step

-----------------------------------------------------------------------------
(* The ghosts.                                                               *)

(* What removing from the ghost queue and inserting into it do to its keys.  *)
LEMMA GhostKeys ==
    ASSUME NEW g, NEW k, NEW c
    PROVE  /\ GhostRemove(g, k).keys = g.keys \ {k}
           /\ GhostInsert(g, k, c).keys \subseteq g.keys \cup {k}
BY DEF GhostRemove, GhostInsert, GhostContains

(* A step that makes no ghost and publishes nothing.                         *)
LEMMA GhostsStay ==
    ASSUME IInv, NEW w \in Threads, GhostsAreOut(w),
           ghost' \in {ghost, NoGhosts}, pc'[w] # "publish",
           \A k \in Keys : index'[k] \in {index[k], None}
    PROVE  GhostsAreOut(w)'
<1>1. \A k \in ghost'.keys : k \in ghost.keys
  BY DEF NoGhosts
<1> QED BY <1>1, WriterFacts DEF GhostsAreOut

(* Every step keeps the ghosts out of the index.                             *)
LEMMA GhostsAgree ==
    ASSUME IInv, NEW w \in Threads, Agree(w), Call(w) \/ Step(w)
    PROVE  GhostsAreOut(w)'
<1> USE WriterFacts, WriterMoves
<1>0. IndexNames(w) /\ GhostsAreOut(w)
  BY DEF Agree
<1>1. CASE CheckGhost(w)
  <2> DEFINE k == loc[w].key
  <2>1. /\ pc'[w] = "publish" /\ loc'[w].key = k /\ index' = index
        /\ ghost' = GhostRemove(ghost, k)
    BY <1>1 DEF CheckGhost, Hands
  <2>2. ghost'.keys = ghost.keys \ {k}
    <3> HIDE DEF k
    <3> QED BY <2>1, GhostKeys
  <2> QED BY <1>0, <2>1, <2>2 DEF GhostsAreOut
<1>2. CASE Publish(w)
  <2>1. /\ pc[w] = "publish" /\ pc'[w] = "push" /\ ghost' = ghost
        /\ index' = [index EXCEPT ![loc[w].key] = NewEntry]
    BY <1>2 DEF Publish
  <2>2. \A k \in Keys : k # loc[w].key => index'[k] = index[k]
    BY <2>1
  <2> QED BY <1>0, <2>1, <2>2 DEF GhostsAreOut
<1>3. CASE DropGhost(w)
  <2> DEFINE k == entryKey[loc[w].entry]
  <2>1. /\ pc[w] = "dropGhost" /\ pc'[w] = "uncount" /\ index' = index
        /\ ghost' = GhostInsert(ghost, k, main_queue_capacity)
    BY <1>3 DEF DropGhost
  <2>2. index[k] = None
    BY <1>0, <2>1 DEF IndexNames, Leaving, Dropping, Holding
  <2>3. \A j \in ghost'.keys : j \in ghost.keys \/ j = k
    <3> HIDE DEF k
    <3> QED BY <2>1, GhostKeys
  <2> QED BY <1>0, <2>1, <2>2, <2>3 DEF GhostsAreOut
<1>4. CASE Call(w)
  <2>1. pc'[w] \in {"lookup", "rmIndex", "clIndex"}
    BY <1>4, CallGoes
  <2>2. ghost' = ghost /\ index' = index
    BY <1>4 DEF Call, CallInsert, CallRemove, CallClear
  <2> QED BY <1>0, <2>1, <2>2, GhostsStay
<1>5. CASE InsertStep(w)
  <2>1. CASE LookupHit(w) \/ LookupMiss(w) \/ Push(w) \/ Member(w) \/ CountInsert(w)
    <3>1. pc'[w] # "publish" /\ ghost' = ghost /\ index' = index
      BY <2>1 DEF LookupHit, LookupMiss, Push, Member, CountInsert
    <3> QED BY <1>0, <3>1, GhostsStay
  <2> QED BY <1>1, <1>2, <1>5, <2>1 DEF InsertStep
<1>6. CASE EvictStep(w)
  <2>1. CASE NothingToEvict(w) \/ OverCapacity(w) \/ SmallEmpty(w) \/ PopSmall(w)
             \/ JudgeSmallHot(w) \/ JudgeSmallCold(w) \/ Promote(w) \/ PromoteMember(w)
    <3>1. pc'[w] # "publish" /\ ghost' = ghost /\ index' = index
      BY <2>1 DEF NothingToEvict, OverCapacity, SmallEmpty, PopSmall, JudgeSmallHot,
         JudgeSmallCold, Promote, PromoteMember
    <3> QED BY <1>0, <3>1, GhostsStay
  <2>2. CASE MainFits(w) \/ MainOverfull(w) \/ MainEmpty(w) \/ Measure(w) \/ PopMain(w)
             \/ JudgeMainHot(w) \/ JudgeMainCold(w) \/ Requeue(w) \/ ForcePop(w)
    <3>1. pc'[w] # "publish"
      BY <2>2, TwoChanges DEF MainFits, MainOverfull, MainEmpty, GivesUp, PopMain,
         JudgeMainHot, JudgeMainCold, ForcePop
    <3>2. ghost' = ghost /\ index' = index
      BY <2>2 DEF MainFits, MainOverfull, MainEmpty, GivesUp, Measure, PopMain,
         JudgeMainHot, JudgeMainCold, Requeue, ForcePop
    <3> QED BY <1>0, <3>1, <3>2, GhostsStay
  <2>3. CASE DropIndex(w)
    <3>1. /\ pc'[w] # "publish" /\ ghost' = ghost
          /\ \A k \in Keys : index'[k] \in {index[k], None}
      BY <2>3 DEF DropIndex
    <3> QED BY <1>0, <3>1, GhostsStay
  <2>4. CASE DropMember(w) \/ Uncount(w)
    <3>1. pc'[w] # "publish" /\ ghost' = ghost /\ index' = index
      BY <2>4 DEF DropMember, Uncount, Hands
    <3> QED BY <1>0, <3>1, GhostsStay
  <2> QED BY <1>3, <1>6, <2>1, <2>2, <2>3, <2>4 DEF EvictStep
<1>7. CASE RemoveStep(w)
  <2>1. pc'[w] # "publish" /\ ghost' = ghost
    BY <1>7 DEF RemoveStep, RmMiss, RmIndex, RmMember, RmQueue, RmCount, Hands
  <2>2. \A k \in Keys : index'[k] \in {index[k], None}
    BY <1>7 DEF RemoveStep, RmMiss, RmIndex, RmMember, RmQueue, RmCount
  <2> QED BY <1>0, <2>1, <2>2, GhostsStay
<1>8. CASE ClearStep(w)
  <2>1. pc'[w] # "publish" /\ ghost' \in {ghost, NoGhosts}
    BY <1>8 DEF ClearStep, ClIndex, ClSmall, ClMain, ClGhost, ClMember, ClSize
  <2>2. \A k \in Keys : index'[k] \in {index[k], None}
    BY <1>8 DEF ClearStep, ClIndex, ClSmall, ClMain, ClGhost, ClMember, ClSize
  <2> QED BY <1>0, <2>1, <2>2, GhostsStay
<1> QED BY <1>4, <1>5, <1>6, <1>7, <1>8 DEF Step

-----------------------------------------------------------------------------
(* The main queue's victims.                                                 *)

Judging ==
    {"check", "popSmall", "promoteMember", "checkMain", "measure", "popMain", "forcePop",
     "judgeMain", "requeue", "dropIndex"}

(* A step to a section where no entry of the main queue is at stake.         *)
LEMMA DueElsewhere ==
    ASSUME IInv, NEW w \in Threads, EvictionDue(w), pc'[w] \notin Judging,
           \/ loc'[w].caller = "check"
           \/ loc'[w].caller = loc[w].caller /\ loc'[w].promoted = loc[w].promoted
    PROVE  EvictionDue(w)'
BY DEF EvictionDue, Judging

(* Every step keeps the main queue's entries from being taken without need.  *)
LEMMA DueAgrees ==
    ASSUME IInv, NEW w \in Threads, Agree(w), Call(w) \/ Step(w)
    PROVE  EvictionDue(w)'
<1> USE WriterFacts, WriterMoves, AtRestType
<1>0. SizeCounts(w) /\ EvictionDue(w)
  BY DEF Agree
<1>1. /\ Len(small) \in Nat /\ Len(main) \in Nat /\ main_queue_capacity \in Nat
      /\ AtRest.caller = "check" /\ Answered(w).caller = "check"
      /\ Answered(w).promoted = loc[w].promoted
  BY MainCapacityType DEF AtRest, Answered
<1>2. CASE Call(w)
  <2>1. pc'[w] \notin Judging
    BY <1>2, CallGoes DEF Judging
  <2>2. loc'[w].caller = "check" \/ loc'[w] = loc[w]
    <3>1. ASSUME NEW k \in Keys, CallInsert(w, k) \/ CallRemove(w, k)
          PROVE  loc'[w].caller = "check"
      BY <3>1 DEF CallInsert, CallRemove, AtRest
    <3>2. CallClear(w) => loc'[w] = loc[w]
      BY DEF CallClear
    <3> QED BY <1>2, <3>1, <3>2 DEF Call
  <2> QED BY <1>0, <2>1, <2>2, DueElsewhere
<1>3. CASE InsertStep(w)
  <2>1. CASE CountInsert(w)
    <3>1. pc'[w] = "check" /\ loc'[w].caller = "check"
      BY <1>1, <2>1 DEF CountInsert
    <3> QED BY <3>1 DEF EvictionDue
  <2>2. CASE LookupHit(w) \/ LookupMiss(w) \/ CheckGhost(w) \/ Publish(w) \/ Push(w) \/ Member(w)
    <3>1. pc'[w] \notin Judging
      BY <2>2 DEF LookupHit, LookupMiss, CheckGhost, Publish, Push, Member, Judging
    <3>2. loc'[w].caller = loc[w].caller /\ loc'[w].promoted = loc[w].promoted
      BY <2>2 DEF LookupHit, LookupMiss, CheckGhost, Publish, Push, Member, Hands
    <3> QED BY <1>0, <3>1, <3>2, DueElsewhere
  <2> QED BY <1>3, <2>1, <2>2 DEF InsertStep
<1>4. CASE EvictStep(w)
  <2>1. CASE NothingToEvict(w) \/ OverCapacity(w)
    <3>1. pc[w] = "check" /\ pc'[w] \in {"idle", "popSmall"} /\ loc'[w] = loc[w]
      BY <2>1 DEF NothingToEvict, OverCapacity
    <3> QED BY <1>0, <3>1 DEF EvictionDue
  <2>2. CASE SmallEmpty(w)
    <3>1. /\ pc[w] = "popSmall" /\ pc'[w] = "measure" /\ loc'[w] = loc[w]
          /\ small = <<>> /\ small' = small
      BY <2>2 DEF SmallEmpty, queues
    <3> QED BY <1>0, <3>1 DEF EvictionDue
  <2>3. CASE PopSmall(w)
    <3>1. pc'[w] = "judgeSmall" /\ loc'[w].caller = "check"
      BY <2>3 DEF PopSmall, AtRest
    <3> QED BY <3>1 DEF EvictionDue
  <2>4. CASE JudgeSmallHot(w) \/ JudgeSmallCold(w)
    <3>1. /\ pc'[w] = "promote" \/ (pc'[w] = "dropIndex" /\ loc'[w].toGhost)
          /\ loc'[w].caller = loc[w].caller /\ loc'[w].promoted = loc[w].promoted
      BY <2>4 DEF JudgeSmallHot, JudgeSmallCold, Hands
    <3> QED BY <1>0, <3>1 DEF EvictionDue
  <2>5. CASE Promote(w)
    <3>1. /\ pc'[w] = "promoteMember" /\ loc'[w].caller = "check"
          /\ loc'[w].promoted # None
      BY <2>5, TwoChanges DEF Holding
    <3> QED BY <3>1 DEF EvictionDue
  <2>6. CASE PromoteMember(w)
    <3>1. /\ pc[w] = "promoteMember" /\ pc'[w] = "checkMain"
          /\ loc'[w].caller = loc[w].caller /\ loc'[w].promoted = loc[w].promoted
      BY <2>6 DEF PromoteMember, Hands
    <3> QED BY <1>0, <3>1 DEF EvictionDue
  <2>7. CASE MainFits(w)
    <3>1. pc'[w] = "check" /\ loc'[w].caller = "check"
      BY <1>1, <2>7 DEF MainFits
    <3> QED BY <3>1 DEF EvictionDue
  <2>8. CASE MainOverfull(w)
    <3>1. /\ pc[w] = "checkMain" /\ pc'[w] = "measure" /\ loc'[w].caller = "checkMain"
          /\ loc'[w].promoted = loc[w].promoted
      BY <2>8 DEF MainOverfull, Hands
    <3>2. main' = main /\ Len(main) > main_queue_capacity
      BY <2>8 DEF MainOverfull, queues
    <3>3. loc[w].promoted # None
      BY <1>0, <3>1 DEF EvictionDue
    <3> QED BY <3>1, <3>2, <3>3 DEF EvictionDue, main_queue_capacity, small_queue_capacity
  <2>9. ~MainEmpty(w)
    BY <1>0 DEF MainEmpty, GivesUp, SizeCounts
  <2>10. CASE Measure(w)
    <3>1. /\ pc[w] = "measure" /\ pc'[w] = "popMain" /\ loc'[w].caller = loc[w].caller
          /\ loc'[w].promoted = loc[w].promoted
      BY <2>10, TwoChanges
    <3>2. main' = main /\ small' = small
      BY <2>10 DEF Measure, queues
    <3> QED BY <1>0, <3>1, <3>2 DEF EvictionDue
  <2>11. CASE PopMain(w) \/ ForcePop(w)
    <3>1. /\ pc[w] \in {"popMain", "forcePop"} /\ pc'[w] \in {"judgeMain", "dropIndex"}
          /\ loc'[w].caller = loc[w].caller /\ loc'[w].promoted = loc[w].promoted
      BY <2>11 DEF PopMain, ForcePop, Hands
    <3>2. main # <<>> /\ main' = Tail(main) /\ small' = small
      BY <2>11 DEF PopMain, ForcePop
    <3>3. Len(main') = Len(main) - 1
      BY <3>2
    <3>4. Len(main) > main_queue_capacity => Len(main') >= main_queue_capacity
      BY <1>1, <3>3
    <3> QED BY <1>0, <3>1, <3>2, <3>4 DEF EvictionDue
  <2>12. CASE JudgeMainHot(w) \/ JudgeMainCold(w)
    <3>1. /\ pc[w] = "judgeMain" /\ pc'[w] \in {"requeue", "dropIndex"} /\ loc'[w] = loc[w]
      BY <2>12 DEF JudgeMainHot, JudgeMainCold
    <3>2. main' = main /\ small' = small
      BY <2>12 DEF JudgeMainHot, JudgeMainCold, queues
    <3> QED BY <1>0, <3>1, <3>2 DEF EvictionDue
  <2>13. CASE Requeue(w)
    <3>1. /\ pc[w] = "requeue" /\ pc'[w] \in {"forcePop", "popMain"}
          /\ loc'[w].caller = loc[w].caller /\ loc'[w].promoted = loc[w].promoted
          /\ loc[w].entry \in Entries
      BY <2>13, TwoChanges DEF Holding
    <3>2. main' = Append(main, loc[w].entry) /\ small' = small
      BY <2>13 DEF Requeue
    <3>3. Len(main') = Len(main) + 1
      BY <3>1, <3>2
    <3>4. Len(main) >= main_queue_capacity => Len(main') > main_queue_capacity
      BY <1>1, <3>3
    <3> QED BY <1>0, <3>1, <3>2, <3>4 DEF EvictionDue
  <2>14. CASE DropIndex(w) \/ DropMember(w) \/ DropGhost(w)
    <3>1. pc'[w] \notin Judging /\ loc'[w] = loc[w]
      BY <2>14 DEF DropIndex, DropMember, DropGhost, Judging
    <3> QED BY <1>0, <3>1, DueElsewhere
  <2>15. CASE Uncount(w)
    <3>1. /\ pc'[w] = loc[w].caller /\ loc'[w].caller = "check"
          /\ loc'[w].promoted = loc[w].promoted /\ loc[w].caller \in {"check", "checkMain"}
      BY <1>1, <2>15 DEF Uncount, Hands
    <3> QED BY <1>0, <3>1 DEF EvictionDue
  <2> QED BY <1>4, <2>1, <2>2, <2>3, <2>4, <2>5, <2>6, <2>7, <2>8, <2>9, <2>10, <2>11,
             <2>12, <2>13, <2>14, <2>15 DEF EvictStep
<1>5. CASE RemoveStep(w)
  <2>1. pc'[w] \notin Judging
    BY <1>5 DEF RemoveStep, RmMiss, RmIndex, RmMember, RmQueue, RmCount, Judging, Hands
  <2>2. \/ loc'[w].caller = "check"
        \/ loc'[w].caller = loc[w].caller /\ loc'[w].promoted = loc[w].promoted
    BY <1>1, <1>5 DEF RemoveStep, RmMiss, RmIndex, RmMember, RmQueue, RmCount, Resumed, Hands
  <2> QED BY <1>0, <2>1, <2>2, DueElsewhere
<1>6. CASE ClearStep(w)
  <2>1. pc'[w] \notin Judging /\ loc'[w] = loc[w]
    BY <1>6 DEF ClearStep, ClIndex, ClSmall, ClMain, ClGhost, ClMember, ClSize, Judging
  <2> QED BY <1>0, <2>1, DueElsewhere
<1> QED BY <1>2, <1>3, <1>4, <1>5, <1>6 DEF Step

-----------------------------------------------------------------------------
(* What agrees before a step of readers, or none, agrees after it.           *)
LEMMA ReadersKeepAgree ==
    ASSUME IInv, NEW w \in Threads, Agree(w), Get \/ UNCHANGED vars
    PROVE  Agree(w)'
<1>1. /\ index' = index /\ small' = small /\ main' = main /\ ghost' = ghost
      /\ membership' = membership /\ size' = size /\ entryKey' = entryKey
      /\ pc' = pc /\ loc' = loc
  BY DEF Get, GetHit, GetMiss, vars, queues, entries
<1>2. /\ Present(w)' = Present(w)
      /\ KeysOn(small)' = KeysOn(small) /\ KeysOn(main)' = KeysOn(main)
      /\ \A k : (Leaving(w, k)' <=> Leaving(w, k)) /\ (Untold(w, k)' <=> Untold(w, k))
  BY <1>1 DEF Present, KeysOn, Leaving, Untold
<1>3. HandEmpty(w)' /\ IndexNames(w)'
  BY <1>1, <1>2 DEF Agree, HandEmpty, IndexNames
<1>4. MapTells(w)'
  BY <1>1, <1>2 DEF Agree, MapTells
<1>5. SizeCounts(w)' /\ GhostsAreOut(w)' /\ EvictionDue(w)'
  BY <1>1 DEF Agree, SizeCounts, GhostsAreOut, EvictionDue
<1> QED BY <1>3, <1>4, <1>5 DEF Agree

(* A new cache agrees.                                                       *)
LEMMA InitAgrees ==
    ASSUME Init, NEW w \in Threads
    PROVE  Agree(w)
<1>1. /\ pc[w] = "idle" /\ loc[w] = AtRest
      /\ AtRest.entry = None /\ AtRest.caller = "check"
      /\ small = <<>> /\ main = <<>> /\ size = 0 /\ ghost.keys = {}
      /\ \A k \in Keys : index[k] = None /\ membership[k] = None
  BY DEF Init, AtRest, NoGhosts
<1>2. Present(w) = {} /\ KeysOn(small) = {} /\ KeysOn(main) = {}
  BY <1>1 DEF Present, KeysOn, Range
<1>3. HandEmpty(w) /\ IndexNames(w)
  BY <1>1, <1>2 DEF HandEmpty, IndexNames, Leaving, Clearing, Dropping
<1>4. MapTells(w)
  BY <1>1, <1>2, NoneAssumption DEF MapTells
<1>5. Capacity \in Nat
  BY ConfigAssumption
<1>6. SizeCounts(w)
  BY <1>1, <1>5 DEF SizeCounts, Popped, Dropping, Clearing
<1>7. GhostsAreOut(w) /\ EvictionDue(w)
  BY <1>1 DEF GhostsAreOut, EvictionDue
<1> QED BY <1>3, <1>4, <1>6, <1>7 DEF Agree

(* Every step of the one writer and of any reader keeps the agreement.       *)
LEMMA WriterKeeps ==
    ASSUME NEW w, Threads = {w}
    PROVE  WInv(w) /\ [Next]_vars => WInv(w)'
<1> SUFFICES ASSUME WInv(w), [Next]_vars PROVE WInv(w)'
  OBVIOUS
<1>1. IInv /\ IInv' /\ Agree(w)
  BY StepKeeps DEF WInv
<1>2. CASE Get \/ UNCHANGED vars
  BY <1>1, <1>2, ReadersKeepAgree DEF WInv
<1>3. CASE Call(w) \/ Step(w)
  <2>1. HandEmpty(w)'
    BY <1>1, <1>3, HandStaysEmpty DEF Agree
  <2>2. IndexNames(w)'
    BY <1>1, <1>3, IndexAgrees
  <2>3. MapTells(w)'
    BY <1>1, <1>3, MapAgrees
  <2>4. SizeCounts(w)'
    BY <1>1, <1>3, SizeAgrees
  <2>5. GhostsAreOut(w)' /\ EvictionDue(w)'
    BY <1>1, <1>3, GhostsAgree, DueAgrees
  <2> QED BY <1>1, <2>1, <2>2, <2>3, <2>4, <2>5 DEF WInv, Agree
<1> QED BY <1>2, <1>3 DEF Next

(* The agreement holds of every behaviour with one writer.                   *)
THEOREM OneWriterAgrees ==
    ASSUME NEW w, Threads = {w}
    PROVE  Spec => []WInv(w)
<1>1. Init => WInv(w)
  BY InitHolds, InitAgrees DEF WInv
<1> QED BY <1>1, WriterKeeps, PTL DEF Spec

(* As many keys are live as there are entries on the queues.                 *)
LEMMA LiveAreQueued ==
    ASSUME NEW w \in Threads, WInv(w), pc[w] = "idle"
    PROVE  /\ Cardinality(Live) = Len(small) + Len(main)
           /\ \A e \in Range(small) \cup Range(main) : index[entryKey[e]] = e
<1> USE WriterFacts DEF WInv
<1> DEFINE On == Range(small) \cup Range(main)
<1>1. /\ IInv /\ IndexNames(w)
      /\ Present(w) = On /\ \A k \in Keys : ~Leaving(w, k)
  BY DEF Agree, HandEmpty, Present, Holding, Leaving, Clearing, Dropping
<1>2. /\ \A e \in On : e # None /\ entryKey[e] \in Keys /\ index[entryKey[e]] = e
      /\ \A k \in Live : index[k] \in On /\ entryKey[index[k]] = k
  BY <1>1 DEF IndexNames, Live
<1>3. [e \in On |-> entryKey[e]] \in Bijection(On, Live)
  <2> DEFINE F == [e \in On |-> entryKey[e]]
  <2>1. F \in [On -> Live]
    BY <1>2 DEF Live
  <2>2. \A d, e \in On : F[d] = F[e] => d = e
    BY <1>2
  <2>3. \A k \in Live : \E e \in On : F[e] = k
    BY <1>2
  <2> HIDE DEF F, On
  <2>4. F \in Bijection(On, Live)
    BY <2>1, <2>2, <2>3 DEF Bijection, Injection, Surjection, IsInjective
  <2> QED BY <2>4 DEF F
<1>4. /\ IsInjective(small \o main) /\ Range(small \o main) = On
      /\ small \o main \in Seq(Entries)
      /\ Len(small \o main) = Len(small) + Len(main)
  BY <1>1, ConcatKeeps
<1>5. IsFiniteSet(On) /\ Cardinality(On) = Len(small) + Len(main)
  <2> HIDE DEF On
  <2> QED BY <1>4, RangeCounts
<1>6. Cardinality(Live) = Cardinality(On)
  <2> HIDE DEF On
  <2>1. ExistsBijection(On, Live)
    BY <1>3 DEF ExistsBijection
  <2> QED BY <1>5, <2>1, FS_Bijection
<1> QED BY <1>2, <1>5, <1>6

(* Between the calls of one writer the queues hold exactly the live entries, *)
(* size counts them and is within the capacity, and no live key is a ghost,  *)
(* whatever the readers do.                                                  *)
THEOREM QueuesStayMatched ==
    ASSUME NEW w, Threads = {w}
    PROVE  Spec => []QueuesMatchIndex
<1>1. WInv(w) => QueuesMatchIndex
  <2> SUFFICES ASSUME WInv(w), pc[w] = "idle"
               PROVE  /\ size = Len(small) + Len(main) /\ size = Cardinality(Live)
                      /\ size <= Capacity
                      /\ \A e \in Range(small) \cup Range(main) : index[entryKey[e]] = e
                      /\ Live \cap ghost.keys = {}
    BY DEF QueuesMatchIndex, Quiescent
  <2>1. size = Len(small) + Len(main) /\ size <= Capacity
    BY DEF WInv, Agree, SizeCounts, Popped, Dropping, Clearing
  <2>2. Live \cap ghost.keys = {}
    BY DEF WInv, Agree, GhostsAreOut, Live
  <2> QED BY <2>1, <2>2, LiveAreQueued
<1> QED BY <1>1, OneWriterAgrees, PTL

(* Between its calls the membership map names, for each live key and no      *)
(* other, the queue that has its entry.                                      *)
THEOREM MapStaysMatched ==
    ASSUME NEW w, Threads = {w}
    PROVE  Spec => []MembershipMatchesQueues
<1>1. WInv(w) => MembershipMatchesQueues
  BY DEF WInv, Agree, MapTells, Untold, Popped, KeysOn, MembershipMatchesQueues, Quiescent
<1> QED BY <1>1, OneWriterAgrees, PTL

(* And at every moment, the main queue loses an entry only when the small    *)
(* queue has none to give, or to a promotion that made it outgrow its        *)
(* capacity.                                                                 *)
THEOREM MainVictimsJustified ==
    ASSUME NEW w, Threads = {w}
    PROVE  Spec => []MainVictimJustified
<1>1. WInv(w) => MainVictimJustified
  BY DEF WInv, Agree, EvictionDue, MainVictimJustified
<1> QED BY <1>1, OneWriterAgrees, PTL

(* With one writer what the documents say of len and of max_capacity is so:  *)
(* len is at most one above the capacity, while an insertion is under way    *)
(* (mod.rs 118), and between calls no more keys are live than fit            *)
(* (config.rs 93).  Two writers break both.                                  *)
THEOREM OneWriterKeepsPromises ==
    ASSUME NEW w, Threads = {w}
    PROVE  Spec => [](LenIsPlausible /\ LiveWithinCapacity)
<1>1. WInv(w) => LenIsPlausible /\ LiveWithinCapacity
  <2> SUFFICES ASSUME WInv(w) PROVE LenIsPlausible /\ LiveWithinCapacity
    OBVIOUS
  <2>1. size <= Capacity + 1 /\ Cardinality(Threads) = 1
    BY FS_Singleton DEF WInv, Agree, SizeCounts
  <2>2. LenIsPlausible
    BY <2>1 DEF LenIsPlausible
  <2>3. ASSUME Quiescent PROVE Cardinality(Live) <= Capacity
    <3>1. pc[w] = "idle"
      BY <2>3 DEF Quiescent
    <3>2. size = Len(small) + Len(main) /\ size <= Capacity
      BY <3>1 DEF WInv, Agree, SizeCounts, Popped, Dropping, Clearing
    <3> QED BY <3>1, <3>2, LiveAreQueued
  <2> QED BY <2>2, <2>3 DEF LiveWithinCapacity
<1> QED BY <1>1, OneWriterAgrees, PTL
=============================================================================
