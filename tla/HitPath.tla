------------------------------ MODULE HitPath ------------------------------
(***************************************************************************)
(* The lock-free part of S3FifoCache: the frequency of a CacheEntry        *)
(* (src/node/entry.rs) and the counters of CacheStats (src/stats.rs), one  *)
(* atomic access per step.                                                 *)
(*                                                                         *)
(* Readers call get on one key; a writer inserts the key, pops its entry   *)
(* from the queues, judges it and evicts it; observers read the statistics *)
(* and resetters reset them, once each.                                    *)
(* The locks of S3FifoCache appear where they order these accesses: get    *)
(* holds the index's read lock from the look-up to the end, so the index   *)
(* changes only while no reader is inside; an entry popped from a queue is *)
(* judged by the thread that has it (S3Fifo's EntryInOnePlace) and by no   *)
(* other, so there is one writer.                                          *)
(***************************************************************************)
EXTENDS Integers, Sequences, FiniteSets

CONSTANTS Readers, Observers, Resetters,
          MaxFreq,                   \* CacheEntry::MAX_FREQ, 3
          MaxAccesses, MaxInsertions \* bounds: calls of get, entries made

ASSUME FreqAssumption == MaxFreq \in Nat \ {0}
ASSUME ReadersAssumption == IsFiniteSet(Readers)
ASSUME BoundAssumption == MaxAccesses \in Nat /\ MaxInsertions \in Nat

VARIABLES indexed,   \* the index has the entry
          freq,      \* its `metadata'
          stats,     \* CacheStats
          reader,    \* where each reader is in get, and the frequency it saw
          writer,    \* where the writer is, and the frequency it saw
          observer,  \* what each observer asked and has learnt
          resetter,  \* how far each reset is
          recorded   \* history: the record_ calls, which reset does not undo

vars == <<indexed, freq, stats, reader, writer, observer, resetter, recorded>>

CounterNames == {"hits", "misses", "insertions", "evictions"}
Zeros == [c \in CounterNames |-> 0]

ReaderSections == {"idle", "load", "swap", "hit", "miss"}
WriterSections ==
    {"gone", "published", "small", "main", "fromSmall", "fromMain",
     "hotSmall", "hotMain", "swap", "doomed", "unindexed"}

(* clone reads the counters, and reset zeroes them, in this order;          *)
(* hit_ratio and total_accesses read the first two.                         *)
Order == <<"hits", "misses", "insertions", "evictions">>

(* Mutants: the ratio reads the hits again, through total_accesses; reset   *)
(* forgets a counter. *)
Read_HitsTwice(request) ==
    IF request = "accesses" THEN <<"hits", "hits", "misses">> ELSE Order

Read(request) == IF request = "accesses" THEN SubSeq(Order, 1, 2) ELSE Order

Zeroed_KeepsEvictions == SubSeq(Order, 1, 3)

Zeroed == Order

(* The first `done' counters are read or zeroed; `first' is the first value *)
(* loaded, the numerator of hit_ratio; `since' is what had been recorded at *)
(* the first load or store; `plain': no counter was zeroed before the last  *)
(* load.                                                                    *)
NotAsked ==
    [request |-> "none", done |-> 0, got |-> Zeros, first |-> 0,
     since |-> Zeros, plain |-> TRUE]

NotBegun == [done |-> 0, since |-> Zeros]

TypeOK ==
    /\ indexed \in BOOLEAN
    /\ freq \in 0 .. MaxFreq
    /\ stats \in [CounterNames -> Nat]
    /\ recorded \in [CounterNames -> Nat]
    /\ reader \in [Readers -> [at : ReaderSections, saw : 0 .. MaxFreq]]
    /\ writer \in [at : WriterSections, saw : 0 .. MaxFreq]
    /\ observer \in [Observers ->
            [request : {"none", "clone", "accesses"}, done : 0 .. Len(Order),
             got : [CounterNames -> Nat], first : Nat,
             since : [CounterNames -> Nat], plain : BOOLEAN]]
    /\ resetter \in [Resetters ->
            [done : 0 .. Len(Order), since : [CounterNames -> Nat]]]

Init ==
    /\ indexed = FALSE
    /\ freq = 0
    /\ stats = Zeros
    /\ recorded = Zeros
    /\ reader = [r \in Readers |-> [at |-> "idle", saw |-> 0]]
    /\ writer = [at |-> "gone", saw |-> 0]
    /\ observer = [o \in Observers |-> NotAsked]
    /\ resetter = [z \in Resetters |-> NotBegun]

-----------------------------------------------------------------------------
(* fetch_add on a counter.                                                 *)
Record(c) ==
    /\ stats' = [stats EXCEPT ![c] = @ + 1]
    /\ recorded' = [recorded EXCEPT ![c] = @ + 1]

(* A reader or the writer leaves section `from' for `to', having seen f.    *)
Reads(r, from, to, f) ==
    reader[r].at = from /\ reader' = [reader EXCEPT ![r] = [at |-> to, saw |-> f]]
Writes(from, to, f) ==
    writer.at = from /\ writer' = [at |-> to, saw |-> f]

(* Who waits for the index's write lock waits for these.                    *)
Inside == {r \in Readers : reader[r].at # "idle"}

InProgress == recorded["hits"] + recorded["misses"] + Cardinality(Inside)

-----------------------------------------------------------------------------
(* get.                                                                     *)
Enter(r) ==
    /\ InProgress < MaxAccesses
    /\ Reads(r, "idle", IF indexed THEN "load" ELSE "miss", 0)
    /\ UNCHANGED <<indexed, freq, stats, writer, observer, resetter, recorded>>

(* increment_freq is fetch_update: a load, then a compare-and-exchange that *)
(* starts over with the value it found when that is not the one seen.  At   *)
(* the maximum there is nothing to write.                                   *)
(* Mutant: there is no maximum. *)
AfterLoad_NoCap(r, from, f) == Reads(r, from, "swap", f)

AfterLoad(r, from, f) ==
    IF f < MaxFreq THEN Reads(r, from, "swap", f) ELSE Reads(r, from, "hit", 0)

LoadFreq(r) ==
    /\ AfterLoad(r, "load", freq)
    /\ UNCHANGED <<indexed, freq, stats, writer, observer, resetter, recorded>>

(* Mutant of SwapFreq: a store where there is a compare-and-exchange. *)
SwapFreq_Store(r) ==
    /\ freq' = reader[r].saw + 1
    /\ Reads(r, "swap", "hit", 0)
    /\ UNCHANGED <<indexed, stats, writer, observer, resetter, recorded>>

SwapFreq(r) ==
    /\ freq = reader[r].saw
    /\ freq' = freq + 1
    /\ Reads(r, "swap", "hit", 0)
    /\ UNCHANGED <<indexed, stats, writer, observer, resetter, recorded>>

(* The exchange is the weak one: it may also fail for no reason.            *)
SwapAgain(r) ==
    /\ AfterLoad(r, "swap", freq)
    /\ UNCHANGED <<indexed, freq, stats, writer, observer, resetter, recorded>>

RecordHit(r) ==
    /\ Reads(r, "hit", "idle", 0)
    /\ Record("hits")
    /\ UNCHANGED <<indexed, freq, writer, observer, resetter>>

RecordMiss(r) ==
    /\ Reads(r, "miss", "idle", 0)
    /\ Record("misses")
    /\ UNCHANGED <<indexed, freq, writer, observer, resetter>>

-----------------------------------------------------------------------------
(* The writer: insert puts a new entry, with frequency 0, into the index    *)
(* and on a queue.                                                          *)
Publish ==
    /\ recorded["insertions"] < MaxInsertions
    /\ Inside = {}
    /\ Writes("gone", "published", 0)
    /\ indexed' = TRUE
    /\ freq' = 0
    /\ UNCHANGED <<stats, reader, observer, resetter, recorded>>

RecordInsertion ==
    /\ \E queue \in {"small", "main"} : Writes("published", queue, 0)
    /\ Record("insertions")
    /\ UNCHANGED <<indexed, freq, reader, observer, resetter>>

Pop ==
    /\ \/ Writes("small", "fromSmall", 0)
       \/ Writes("main", "fromMain", 0)
       \/ Writes("main", "doomed", 0)       \* evict_from_main's forced victim
    /\ UNCHANGED <<indexed, freq, stats, reader, observer, resetter, recorded>>

(* The judgement: freq(), then reset_freq() or decrement_freq() when it was *)
(* not 0.  Readers may hit the entry in between.                            *)
FindCold ==
    /\ freq = 0
    /\ Writes("fromSmall", "doomed", 0) \/ Writes("fromMain", "doomed", 0)
    /\ UNCHANGED <<indexed, freq, stats, reader, observer, resetter, recorded>>

FindHot ==
    /\ freq > 0
    /\ Writes("fromSmall", "hotSmall", 0) \/ Writes("fromMain", "hotMain", 0)
    /\ UNCHANGED <<indexed, freq, stats, reader, observer, resetter, recorded>>

ResetFreq ==
    /\ Writes("hotSmall", "main", 0)
    /\ freq' = 0
    /\ UNCHANGED <<indexed, stats, reader, observer, resetter, recorded>>

(* decrement_freq loads again and stops at 0.                               *)
LoadToDecrement ==
    /\ Writes("hotMain", "swap", freq)
    /\ UNCHANGED <<indexed, freq, stats, reader, observer, resetter, recorded>>

(* Mutant of SwapDown: the value seen less one is stored. *)
SwapDown_Store ==
    /\ freq' = IF writer.saw = 0 THEN 0 ELSE writer.saw - 1
    /\ Writes("swap", "main", 0)
    /\ UNCHANGED <<indexed, stats, reader, observer, resetter, recorded>>

SwapDown ==
    /\ freq = writer.saw
    /\ freq' = IF freq = 0 THEN 0 ELSE freq - 1
    /\ Writes("swap", "main", 0)
    /\ UNCHANGED <<indexed, stats, reader, observer, resetter, recorded>>

SwapDownAgain ==
    /\ Writes("swap", "swap", freq)
    /\ UNCHANGED <<indexed, freq, stats, reader, observer, resetter, recorded>>

(* The victim leaves the index, with the hits it had since it was judged.   *)
Unindex ==
    /\ Inside = {}
    /\ Writes("doomed", "unindexed", 0)
    /\ indexed' = FALSE
    /\ freq' = 0
    /\ UNCHANGED <<stats, reader, observer, resetter, recorded>>

RecordEviction ==
    /\ Writes("unindexed", "gone", 0)
    /\ Record("evictions")
    /\ UNCHANGED <<indexed, freq, reader, observer, resetter>>

-----------------------------------------------------------------------------
(* The statistics: hits(), misses(), insertions() or evictions(), one load  *)
(* each, on behalf of a call that `asked' describes.                        *)
(* Mutant: the last two counters are taken for one another. *)
LoadNext_Swapped(o, asked) ==
    /\ LET c == Read(asked.request)[asked.done + 1]
           d == CASE c = "insertions" -> "evictions" [] c = "evictions" -> "insertions"
                  [] OTHER -> c
       IN  observer' = [observer EXCEPT ![o] =
                [asked EXCEPT !.done = @ + 1, !.got[d] = stats[c],
                              !.first = IF asked.done = 0 THEN stats[c] ELSE @]]
    /\ UNCHANGED <<indexed, freq, stats, reader, writer, resetter, recorded>>

LoadNext(o, asked) ==
    /\ LET c == Read(asked.request)[asked.done + 1]
       IN  observer' = [observer EXCEPT ![o] =
                [asked EXCEPT !.done = @ + 1, !.got[c] = stats[c],
                              !.first = IF asked.done = 0 THEN stats[c] ELSE @]]
    /\ UNCHANGED <<indexed, freq, stats, reader, writer, resetter, recorded>>

Ask(o) ==
    /\ observer[o].request = "none"
    /\ \E request \in {"clone", "accesses"} :
        LoadNext(o, [NotAsked EXCEPT !.request = request, !.since = recorded,
                                     !.plain = (stats = recorded)])

Asking(o) == observer[o].request # "none" /\ observer[o].done < Len(Read(observer[o].request))
Answered(o) == observer[o].request # "none" /\ ~Asking(o)

Load(o) == Asking(o) /\ LoadNext(o, observer[o])

(* One store of reset.                                                      *)
HasReset(z) == resetter[z].done = Len(Zeroed)

Zero(z) ==
    /\ ~HasReset(z)
    /\ stats' = [stats EXCEPT ![Zeroed[resetter[z].done + 1]] = 0]
    /\ resetter' = [resetter EXCEPT ![z].done = @ + 1,
                                    ![z].since = IF resetter[z].done = 0 THEN recorded ELSE @]
    /\ observer' = [o \in Observers |->
            IF Asking(o) THEN [observer[o] EXCEPT !.plain = FALSE] ELSE observer[o]]
    /\ UNCHANGED <<indexed, freq, reader, writer, recorded>>

-----------------------------------------------------------------------------
Get(r) ==
    \/ Enter(r) \/ LoadFreq(r) \/ SwapFreq(r) \/ SwapAgain(r) \/ RecordHit(r) \/ RecordMiss(r)

Write ==
    \/ Publish \/ RecordInsertion \/ Pop \/ FindCold \/ FindHot \/ ResetFreq
    \/ LoadToDecrement \/ SwapDown \/ SwapDownAgain \/ Unindex \/ RecordEviction

Observe(o) == Ask(o) \/ Load(o)

Next ==
    \/ Write
    \/ \E r \in Readers : Get(r)
    \/ \E o \in Observers : Observe(o)
    \/ \E z \in Resetters : Zero(z)

Spec == Init /\ [][Next]_vars

-----------------------------------------------------------------------------
(* The mapping to HitPromise.  A hit takes effect when it has changed the   *)
(* frequency, or found it at its maximum; a judgement when the frequency is *)
(* written; what is about to be recorded counts already.                    *)
At(section) == {r \in Readers : reader[r].at = section}

Due(c) ==
    CASE c = "hits" -> Cardinality(At("hit"))
      [] c = "misses" -> Cardinality(At("miss"))
      [] c = "insertions" -> IF writer.at = "published" THEN 1 ELSE 0
      [] c = "evictions" -> IF writer.at = "unindexed" THEN 1 ELSE 0

Promise == INSTANCE HitPromise WITH
    place <- CASE writer.at = "hotSmall" -> "fromSmall"
               [] writer.at \in {"hotMain", "swap"} -> "fromMain"
               [] writer.at = "unindexed" -> "gone"
               [] OTHER -> writer.at,
    counted <- [c \in CounterNames |-> recorded[c] + Due(c)]

-----------------------------------------------------------------------------
(* No hit is lost or counted twice, however the exchanges of the readers    *)
(* and of the eviction interleave, and a judgement is as good as one step:  *)
(* a hit between freq() and reset_freq() or decrement_freq() makes no       *)
(* difference a hit just before freq() would not make.                      *)
ImplementsPromise == Promise!PSpec

(* hit_ratio is never above 1, though a reset or any number of accesses may *)
(* come between its two loads (stats.rs:119, "between 0.0 and 1.0").        *)
RatioInRange ==
    \A o \in Observers : Answered(o) /\ observer[o].request = "accesses" =>
        observer[o].first <= observer[o].got["hits"] + observer[o].got["misses"]

(* With no reset in between, each number of an answer is between what had   *)
(* been recorded at its first load and what had been when it ended.  As     *)
(* accesses are recorded one at a time, total_accesses, although it loads   *)
(* two counters, gives a total that was right at a moment of the call.      *)
AnswersAreCurrent ==
    \A o \in Observers : Answered(o) /\ observer[o].plain =>
        \A i \in DOMAIN Read(observer[o].request) :
            LET c == Read(observer[o].request)[i]
            IN  observer[o].since[c] <= observer[o].got[c] /\ observer[o].got[c] <= recorded[c]

(* Whatever is recorded or reset meanwhile, after a reset no counter shows  *)
(* anything recorded before its first store: nothing of a warm-up can get   *)
(* into the period measured after it (stats.rs:166).                        *)
ResetForgets ==
    \A z \in Resetters : HasReset(z) =>
        \A c \in CounterNames : stats[c] <= recorded[c] - resetter[z].since[c]
=============================================================================
