----------------------------- MODULE HitPromise -----------------------------
(***************************************************************************)
(* What S3Fifo.tla takes for granted of CacheEntry and CacheStats: a hit is *)
(* one step that raises the frequency and counts, and evict_from_small and *)
(* evict_from_main judge an entry in one step.  One entry, followed from   *)
(* its insertion to its eviction; HitPath implements this with the atomics.*)
(***************************************************************************)
EXTENDS Integers

CONSTANT MaxFreq

VARIABLES place,    \* where the entry is; "doomed": evicted but still indexed
          freq,     \* its frequency
          counted   \* what CacheStats has counted

pvars == <<place, freq, counted>>

CounterNames == {"hits", "misses", "insertions", "evictions"}

PInit ==
    /\ place = "gone"
    /\ freq = 0
    /\ counted = [c \in CounterNames |-> 0]

Counted(c) == counted' = [counted EXCEPT ![c] = @ + 1]

Hit ==
    /\ place # "gone"
    /\ freq' = IF freq < MaxFreq THEN freq + 1 ELSE freq
    /\ Counted("hits")
    /\ UNCHANGED place

Miss ==
    /\ place = "gone"
    /\ Counted("misses")
    /\ UNCHANGED <<place, freq>>

Insert ==
    /\ place = "gone"
    /\ place' = "published"
    /\ freq' = 0
    /\ Counted("insertions")

Queue ==
    /\ place = "published"
    /\ place' \in {"small", "main"}
    /\ UNCHANGED <<freq, counted>>

Pop ==
    /\ \/ place = "small" /\ place' = "fromSmall"
       \/ place = "main" /\ place' = "fromMain"
       \/ place = "main" /\ place' = "doomed"       \* after a round without victim
    /\ UNCHANGED <<freq, counted>>

JudgeHot ==
    /\ place \in {"fromSmall", "fromMain"}
    /\ freq > 0
    /\ freq' = IF place = "fromSmall" THEN 0 ELSE freq - 1
    /\ place' = "main"
    /\ UNCHANGED counted

JudgeCold ==
    /\ place \in {"fromSmall", "fromMain"}
    /\ freq = 0
    /\ place' = "doomed"
    /\ UNCHANGED <<freq, counted>>

Evict ==
    /\ place = "doomed"
    /\ place' = "gone"
    /\ freq' = 0
    /\ Counted("evictions")

PNext == Hit \/ Miss \/ Insert \/ Queue \/ Pop \/ JudgeHot \/ JudgeCold \/ Evict

PSpec == PInit /\ [][PNext]_pvars
=============================================================================
