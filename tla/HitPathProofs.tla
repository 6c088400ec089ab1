--------------------------- MODULE HitPathProofs ---------------------------
(***************************************************************************)
(* The lock-free part of S3FifoCache, for any number of readers, observers *)
(* and resets, any maximal frequency and any number of calls: HitPath      *)
(* implements HitPromise, and what the statistics answer is right.         *)
(*                                                                         *)
(* The two arguments do not meet.  Who hits and who judges share the       *)
(* frequency: a reader is inside only while the entry is indexed, it       *)
(* exchanges only below the maximum, and an entry found hot stays hot      *)
(* until the writer writes (FreqInv).  Who reads and who resets share the  *)
(* counters: the counters an observer has loaded, and those a reset has    *)
(* zeroed, are related to what has been recorded (ObserverInv, ResetInv).  *)
(***************************************************************************)
EXTENDS HitPath, FiniteSetTheorems, SequenceTheorems, TLAPS

Hot == {"hotSmall", "hotMain", "swap"}

(* Who exchanges has seen a frequency below the maximum; the entry is        *)
(* indexed between Publish and Unindex, and while a reader that found it is  *)
(* inside; what was found hot is hot until it is written.                    *)
FreqInv ==
    /\ indexed <=> writer.at \notin {"gone", "unindexed"}
    /\ \A r \in Readers : reader[r].at = "swap" => reader[r].saw < MaxFreq
    /\ \A r \in Readers : reader[r].at \in {"load", "swap", "hit"} => indexed
    /\ \A r \in Readers : reader[r].at = "miss" => ~indexed
    /\ writer.at \in Hot => freq > 0

(* The numbers a call has are at least what had been recorded at its first   *)
(* load and at most the total recorded by now; while it loads, with no reset *)
(* so far, the counters show that total.                                     *)
CallInv(a, counters, total) ==
    /\ a.done > 0 => a.first = a.got["hits"]
    /\ a.plain =>
        /\ a.done < Len(Read(a.request)) => counters = total
        /\ \A c \in CounterNames : a.since[c] <= total[c]
        /\ \A i \in 1 .. a.done :
            a.since[Order[i]] <= a.got[Order[i]] /\ a.got[Order[i]] <= total[Order[i]]

ObserverInv ==
    \A o \in Observers : observer[o].request # "none" =>
        /\ observer[o].done \in 1 .. Len(Read(observer[o].request))
        /\ CallInv(observer[o], stats, recorded)

(* A counter zeroed by a reset shows only what came after its first store.   *)
ResetInv ==
    \A z \in Resetters :
        LET x == resetter[z]
        IN  /\ x.done > 0 => \A c \in CounterNames : x.since[c] <= recorded[c]
            /\ \A i \in 1 .. x.done : stats[Order[i]] <= recorded[Order[i]] - x.since[Order[i]]

IInv == TypeOK /\ FreqInv /\ ObserverInv /\ ResetInv

-----------------------------------------------------------------------------
(* The order of the counters, and the calls that load two or four of them.   *)
LEMMA Orders ==
    /\ Len(Order) = 4 /\ DOMAIN Order = 1 .. 4
    /\ \A i \in 1 .. 4 : Order[i] \in CounterNames
    /\ \A i, j \in 1 .. 4 : Order[i] = Order[j] => i = j
    /\ Order[1] = "hits" /\ Order[2] = "misses"
    /\ \A c \in CounterNames : \E i \in 1 .. 4 : c = Order[i]
    /\ Zeroed = Order
BY DEF Order, CounterNames, Zeroed

LEMMA Reads2or4 ==
    ASSUME NEW q \in {"clone", "accesses"}
    PROVE  /\ Len(Read(q)) = IF q = "accesses" THEN 2 ELSE 4
           /\ DOMAIN Read(q) = 1 .. Len(Read(q))
           /\ \A i \in 1 .. Len(Read(q)) : i \in 1 .. 4 /\ Read(q)[i] = Order[i]
<1>1. CASE q = "accesses"
  <2>1. Read(q) = SubSeq(Order, 1, 2)
    BY <1>1 DEF Read
  <2> DEFINE r == SubSeq(Order, 1, 2)
  <2>2. /\ r \in Seq(CounterNames) /\ Len(r) = IF 1 <= 2 THEN 2 - 1 + 1 ELSE 0
        /\ \A i \in 1 .. 2 - 1 + 1 : r[i] = Order[1 + i - 1]
    <3>1. \A i \in 1 .. 2 : Order[i] \in CounterNames
      BY Orders
    <3> QED BY <3>1, SubSeqProperties
  <2> HIDE DEF r
  <2>3. Len(r) = 2 /\ DOMAIN r = 1 .. 2 /\ \A i \in 1 .. 2 : i \in 1 .. 4 /\ r[i] = Order[i]
    BY <2>2
  <2> QED BY <1>1, <2>1, <2>3 DEF r
<1>2. CASE q = "clone"
  BY <1>2, Orders DEF Read
<1> QED BY <1>1, <1>2

LEMMA InitHolds == Init => IInv
<1> SUFFICES ASSUME Init PROVE IInv
  OBVIOUS
<1>1. TypeOK
  <2>1. Zeros \in [CounterNames -> Nat]
    BY DEF Zeros
  <2>2. 0 \in 0 .. MaxFreq /\ 0 \in 0 .. Len(Order)
    BY FreqAssumption, Orders
  <2>3. "idle" \in ReaderSections /\ "gone" \in WriterSections
    BY DEF ReaderSections, WriterSections
  <2> QED BY <2>1, <2>2, <2>3 DEF Init, TypeOK, NotAsked, NotBegun
<1>2. FreqInv
  BY DEF Init, FreqInv, Hot
<1>3. ObserverInv
  BY DEF Init, ObserverInv, NotAsked
<1>4. ResetInv
  BY DEF Init, ResetInv, NotBegun
<1> QED BY <1>1, <1>2, <1>3, <1>4 DEF IInv

-----------------------------------------------------------------------------
(* The frequency: the readers and the writer.                                *)

(* What moving a reader, or the writer, to its next section does.            *)
LEMMA ReaderMoves ==
    ASSUME TypeOK, NEW r \in Readers, NEW from, NEW to \in ReaderSections,
           NEW f \in 0 .. MaxFreq, Reads(r, from, to, f)
    PROVE  /\ reader' \in [Readers -> [at : ReaderSections, saw : 0 .. MaxFreq]]
           /\ reader[r].at = from
           /\ reader'[r].at = to /\ reader'[r].saw = f
           /\ \A q \in Readers : q # r => reader'[q] = reader[q]
BY DEF TypeOK, Reads

LEMMA WriterMoves ==
    ASSUME NEW from, NEW to \in WriterSections, NEW f \in 0 .. MaxFreq, Writes(from, to, f)
    PROVE  /\ writer' \in [at : WriterSections, saw : 0 .. MaxFreq]
           /\ writer.at = from
           /\ writer'.at = to /\ writer'.saw = f
BY DEF Writes

(* A call of get or a step of the writer records at most one access and      *)
(* touches no call of the statistics.                                        *)
LEMMA CounterSteps ==
    ASSUME (\E r \in Readers : Get(r)) \/ Write
    PROVE  /\ UNCHANGED <<observer, resetter>>
           /\ UNCHANGED <<stats, recorded>> \/ \E c \in CounterNames : Record(c)
<1>1. \A c \in {"hits", "misses", "insertions", "evictions"} : c \in CounterNames
  BY DEF CounterNames
<1>2. ASSUME NEW r \in Readers, Get(r)
      PROVE  /\ UNCHANGED <<observer, resetter>>
             /\ UNCHANGED <<stats, recorded>> \/ Record("hits") \/ Record("misses")
  BY <1>2 DEF Get, Enter, LoadFreq, SwapFreq, SwapAgain, RecordHit, RecordMiss
<1>3. ASSUME Write
      PROVE  /\ UNCHANGED <<observer, resetter>>
             /\ UNCHANGED <<stats, recorded>> \/ Record("insertions") \/ Record("evictions")
  BY <1>3 DEF Write, Publish, RecordInsertion, Pop, FindCold, FindHot, ResetFreq,
              LoadToDecrement, SwapDown, SwapDownAgain, Unindex, RecordEviction
<1> QED BY <1>1, <1>2, <1>3

LEMMA RecordTypes ==
    ASSUME TypeOK, UNCHANGED <<stats, recorded>> \/ \E c \in CounterNames : Record(c)
    PROVE  stats' \in [CounterNames -> Nat] /\ recorded' \in [CounterNames -> Nat]
<1>1. stats \in [CounterNames -> Nat] /\ recorded \in [CounterNames -> Nat]
  BY DEF TypeOK
<1>2. ASSUME NEW f \in [CounterNames -> Nat], NEW c \in CounterNames
      PROVE  [f EXCEPT ![c] = @ + 1] \in [CounterNames -> Nat]
  OBVIOUS
<1> QED BY <1>1, <1>2 DEF Record

(* A step of get keeps the types and FreqInv.                                *)
LEMMA GetKeepsFreq ==
    ASSUME IInv, NEW r \in Readers, Get(r)
    PROVE  TypeOK' /\ FreqInv'
<1> USE DEF IInv
<1>1. /\ UNCHANGED <<observer, resetter>>
      /\ stats' \in [CounterNames -> Nat] /\ recorded' \in [CounterNames -> Nat]
  BY CounterSteps, RecordTypes
<1>2. /\ {"idle", "load", "swap", "hit", "miss"} = ReaderSections
      /\ 0 \in 0 .. MaxFreq /\ MaxFreq \in Nat /\ freq \in 0 .. MaxFreq
      /\ reader[r].saw \in 0 .. MaxFreq
  BY FreqAssumption DEF ReaderSections, TypeOK
<1> DEFINE Moved(from, to, f) == from \in ReaderSections /\ to \in ReaderSections
                                  /\ f \in 0 .. MaxFreq /\ Reads(r, from, to, f)
<1>3. ASSUME NEW from, NEW to, NEW f, Moved(from, to, f), UNCHANGED <<indexed, writer>>,
             freq' \in 0 .. MaxFreq, freq' >= freq,
             to = "swap" => f < MaxFreq,
             to \in {"load", "swap", "hit"} => indexed, to = "miss" => ~indexed
      PROVE  TypeOK' /\ FreqInv'
  <2>1. /\ reader' \in [Readers -> [at : ReaderSections, saw : 0 .. MaxFreq]]
        /\ reader'[r].at = to /\ reader'[r].saw = f
        /\ \A q \in Readers : q # r => reader'[q] = reader[q]
    BY <1>3, ReaderMoves
  <2>2. TypeOK'
    BY <1>1, <1>3, <2>1 DEF TypeOK
  <2>3. FreqInv'
    BY <1>2, <1>3, <2>1 DEF FreqInv
  <2> QED BY <2>2, <2>3
<1>4. CASE Enter(r)
  BY <1>2, <1>3, <1>4 DEF Enter
<1>5. ASSUME NEW from \in {"load", "swap"}, AfterLoad(r, from, freq), UNCHANGED <<indexed, freq, writer>>
      PROVE  TypeOK' /\ FreqInv'
  <2>1. reader[r].at = from /\ indexed
    BY <1>5 DEF AfterLoad, Reads, FreqInv
  <2>2. CASE freq < MaxFreq
    <3>1. Moved(from, "swap", freq)
      BY <1>2, <1>5, <2>2 DEF AfterLoad
    <3> QED BY <1>2, <1>3, <1>5, <2>1, <2>2, <3>1
  <2>3. CASE ~(freq < MaxFreq)
    <3>1. Moved(from, "hit", 0)
      BY <1>2, <1>5, <2>3 DEF AfterLoad
    <3> QED BY <1>2, <1>3, <1>5, <2>1, <3>1
  <2> QED BY <2>2, <2>3
<1>6. CASE LoadFreq(r)
  BY <1>5, <1>6 DEF LoadFreq
<1>7. CASE SwapAgain(r)
  BY <1>5, <1>7 DEF SwapAgain
<1>8. CASE SwapFreq(r)
  <2>1. reader[r].at = "swap" /\ freq < MaxFreq /\ indexed
    BY <1>8 DEF SwapFreq, Reads, FreqInv
  <2>2. freq' \in 0 .. MaxFreq /\ freq' >= freq
    BY <1>2, <1>8, <2>1 DEF SwapFreq
  <2> QED BY <1>2, <1>3, <1>8, <2>1, <2>2 DEF SwapFreq
<1>9. CASE RecordHit(r) \/ RecordMiss(r)
  BY <1>2, <1>3, <1>9 DEF RecordHit, RecordMiss
<1> QED BY <1>4, <1>6, <1>7, <1>8, <1>9 DEF Get

(* A step of the writer keeps the types and FreqInv.                         *)
LEMMA WriteKeepsFreq ==
    ASSUME IInv, Write
    PROVE  TypeOK' /\ FreqInv'
<1> USE DEF IInv
<1>1. /\ UNCHANGED <<observer, resetter>>
      /\ stats' \in [CounterNames -> Nat] /\ recorded' \in [CounterNames -> Nat]
  BY CounterSteps, RecordTypes
<1>2. 0 \in 0 .. MaxFreq /\ MaxFreq \in Nat /\ freq \in 0 .. MaxFreq /\ reader' = reader
  BY FreqAssumption DEF TypeOK, Write, Publish, RecordInsertion, Pop, FindCold, FindHot,
        ResetFreq, LoadToDecrement, SwapDown, SwapDownAgain, Unindex, RecordEviction
<1>3. ASSUME NEW from, NEW to \in WriterSections, NEW f \in 0 .. MaxFreq, Writes(from, to, f),
             indexed' \in BOOLEAN, indexed' <=> to \notin {"gone", "unindexed"},
             freq' \in 0 .. MaxFreq, to \in Hot => freq' > 0,
             indexed' = indexed \/ Inside = {}
      PROVE  TypeOK' /\ FreqInv'
  <2>1. writer' \in [at : WriterSections, saw : 0 .. MaxFreq] /\ writer'.at = to
    BY <1>3, WriterMoves
  <2>2. TypeOK'
    BY <1>1, <1>2, <1>3, <2>1 DEF TypeOK
  <2>3. ASSUME indexed' # indexed PROVE \A q \in Readers : reader[q].at = "idle"
    BY <1>3, <2>3 DEF Inside
  <2>4. \A q \in Readers : /\ reader[q].at \in {"load", "swap", "hit"} => indexed'
                           /\ reader[q].at = "miss" => ~indexed'
    BY <1>3, <2>3 DEF FreqInv, TypeOK
  <2>5. FreqInv'
    BY <1>2, <1>3, <2>1, <2>4 DEF FreqInv
  <2> QED BY <2>2, <2>5
<1>4. \A at \in {"gone", "published", "small", "main", "fromSmall", "fromMain", "hotSmall",
                 "hotMain", "swap", "doomed", "unindexed"} : at \in WriterSections
  BY DEF WriterSections
<1>5. indexed \in BOOLEAN /\ (indexed <=> writer.at \notin {"gone", "unindexed"})
      /\ (writer.at \in Hot => freq > 0)
  BY DEF TypeOK, FreqInv
<1>6. CASE Publish
  BY <1>2, <1>3, <1>4, <1>6 DEF Publish, Hot
<1>7. CASE RecordInsertion
  BY <1>2, <1>3, <1>4, <1>5, <1>7 DEF RecordInsertion, Writes, Hot
<1>8. CASE Pop
  BY <1>2, <1>3, <1>4, <1>5, <1>8 DEF Pop, Writes, Hot
<1>9. CASE FindCold \/ FindHot
  BY <1>2, <1>3, <1>4, <1>5, <1>9 DEF FindCold, FindHot, Writes, Hot
<1>10. CASE ResetFreq
  BY <1>2, <1>3, <1>4, <1>5, <1>10 DEF ResetFreq, Writes, Hot
<1>11. CASE LoadToDecrement \/ SwapDownAgain
  BY <1>2, <1>3, <1>4, <1>5, <1>11 DEF LoadToDecrement, SwapDownAgain, Writes, Hot
<1>12. CASE SwapDown
  <2>1. freq' \in 0 .. MaxFreq /\ writer.at = "swap"
    BY <1>2, <1>12 DEF SwapDown, Writes
  <2> QED BY <1>2, <1>3, <1>4, <1>5, <1>12, <2>1 DEF SwapDown, Hot
<1>13. CASE Unindex
  BY <1>2, <1>3, <1>4, <1>13 DEF Unindex, Hot
<1>14. CASE RecordEviction
  BY <1>2, <1>3, <1>4, <1>5, <1>14 DEF RecordEviction, Writes, Hot
<1> QED BY <1>6, <1>7, <1>8, <1>9, <1>10, <1>11, <1>12, <1>13, <1>14 DEF Write

-----------------------------------------------------------------------------
(* The counters: who reads them and who resets them.                         *)

(* What a call or a reset keeps of its own.                                  *)
Calls == [request : {"none", "clone", "accesses"}, done : 0 .. Len(Order),
          got : [CounterNames -> Nat], first : Nat,
          since : [CounterNames -> Nat], plain : BOOLEAN]

(* Recording an access keeps what observers and resets know.                 *)
LEMMA RecordKeepsCounters ==
    ASSUME IInv, UNCHANGED <<observer, resetter>>,
           UNCHANGED <<stats, recorded>> \/ \E c \in CounterNames : Record(c)
    PROVE  ObserverInv' /\ ResetInv'
<1> USE DEF IInv
<1>1. /\ stats \in [CounterNames -> Nat] /\ recorded \in [CounterNames -> Nat]
      /\ observer \in [Observers -> Calls]
      /\ resetter \in [Resetters -> [done : 0 .. Len(Order), since : [CounterNames -> Nat]]]
  BY DEF TypeOK, Calls
<1>2. \A c \in CounterNames : recorded'[c] \in Nat /\ recorded'[c] >= recorded[c]
      /\ stats'[c] \in Nat /\ stats'[c] - stats[c] = recorded'[c] - recorded[c]
  BY <1>1 DEF Record
<1>3. stats = recorded => stats' = recorded'
  BY <1>1 DEF Record
<1>4. ASSUME NEW a \in Calls, a.done <= Len(Read(a.request)), CallInv(a, stats, recorded)
      PROVE  CallInv(a, stats', recorded')
  <2>1. \A i \in 1 .. a.done : Order[i] \in CounterNames
    BY Orders DEF Calls
  <2>2. \A c \in CounterNames : a.since[c] \in Nat /\ a.got[c] \in Nat
    BY DEF Calls
  <2>3. ASSUME NEW c \in CounterNames, a.since[c] <= recorded[c]
        PROVE  a.since[c] <= recorded'[c]
    BY <1>1, <1>2, <2>2, <2>3
  <2>4. ASSUME NEW c \in CounterNames, a.got[c] <= recorded[c]
        PROVE  a.got[c] <= recorded'[c]
    BY <1>1, <1>2, <2>2, <2>4
  <2> QED BY <1>3, <1>4, <2>1, <2>3, <2>4 DEF CallInv
<1>5. ObserverInv'
  <2> SUFFICES ASSUME NEW o \in Observers, observer'[o].request # "none"
               PROVE  /\ observer'[o].done \in 1 .. Len(Read(observer'[o].request))
                      /\ CallInv(observer'[o], stats', recorded')
    BY DEF ObserverInv
  <2>1. observer[o] \in Calls /\ observer'[o] = observer[o]
    BY <1>1
  <2>2. /\ observer[o].done \in 1 .. Len(Read(observer[o].request))
        /\ CallInv(observer[o], stats, recorded)
    BY <2>1 DEF ObserverInv
  <2>3. observer[o].done <= Len(Read(observer[o].request))
    BY <2>1, <2>2
  <2> QED BY <1>4, <2>1, <2>2, <2>3
<1>6. ASSUME NEW z \in Resetters
      PROVE  /\ resetter[z].done > 0 => \A c \in CounterNames : resetter[z].since[c] <= recorded'[c]
             /\ \A i \in 1 .. resetter[z].done :
                   stats'[Order[i]] <= recorded'[Order[i]] - resetter[z].since[Order[i]]
  <2>1. \A c \in CounterNames : resetter[z].since[c] \in Nat
    BY <1>1
  <2>2. \A i \in 1 .. resetter[z].done : Order[i] \in CounterNames
    BY <1>1, Orders
  <2>3. ASSUME NEW c \in CounterNames, resetter[z].since[c] <= recorded[c]
        PROVE  resetter[z].since[c] <= recorded'[c]
    BY <1>1, <1>2, <2>1, <2>3
  <2>4. ASSUME NEW c \in CounterNames, stats[c] <= recorded[c] - resetter[z].since[c]
        PROVE  stats'[c] <= recorded'[c] - resetter[z].since[c]
    BY <1>1, <1>2, <2>1, <2>4
  <2> QED BY <2>2, <2>3, <2>4 DEF ResetInv
<1>7. ResetInv'
  BY <1>6 DEF ResetInv
<1> QED BY <1>5, <1>7

(* A load takes the next counter over into the answer.                       *)
LEMMA LoadKeepsCall ==
    ASSUME TypeOK, NEW o \in Observers, NEW a \in Calls, a.request # "none",
           a.done < Len(Read(a.request)), CallInv(a, stats, recorded), LoadNext(o, a)
    PROVE  /\ observer' \in [Observers -> Calls]
           /\ \A p \in Observers : p # o => observer'[p] = observer[p]
           /\ observer'[o].request # "none"
           /\ observer'[o].done \in 1 .. Len(Read(observer'[o].request))
           /\ CallInv(observer'[o], stats', recorded')
<1> DEFINE i == a.done + 1
           c == Order[i]
           f == IF a.done = 0 THEN stats[c] ELSE a.first
           b == [a EXCEPT !.done = i, !.got[c] = stats[c], !.first = f]
<1>1. /\ a.request \in {"clone", "accesses"} /\ a.done \in 0 .. 4 /\ a.got \in [CounterNames -> Nat]
      /\ a.since \in [CounterNames -> Nat] /\ a.first \in Nat /\ a.plain \in BOOLEAN
  BY Orders DEF Calls
<1>2. i \in 1 .. Len(Read(a.request)) /\ i \in 1 .. 4 /\ Read(a.request)[i] = c
      /\ c \in CounterNames /\ Len(Read(a.request)) \in Nat
      /\ i = a.done + 1 /\ c = Order[i]
  <2>1. Len(Read(a.request)) = IF a.request = "accesses" THEN 2 ELSE 4
    BY <1>1, Reads2or4
  <2>2. i \in 1 .. Len(Read(a.request)) /\ i \in 1 .. 4
    BY <1>1, <2>1
  <2>3. Read(a.request)[i] = c
    BY <1>1, <2>2, Reads2or4
  <2> QED BY <2>1, <2>2, <2>3, Orders
<1> HIDE DEF i, c
<1>3. stats[c] \in Nat /\ stats \in [CounterNames -> Nat] /\ observer \in [Observers -> Calls]
  BY <1>2 DEF TypeOK, Calls
<1>4. observer' = [observer EXCEPT ![o] = b] /\ UNCHANGED <<stats, recorded>>
  BY <1>2 DEF LoadNext
<1>5. f \in Nat /\ i \in 0 .. Len(Order)
  BY <1>1, <1>2, <1>3, Orders
<1> HIDE DEF f
<1>6. /\ b.request = a.request /\ b.done = i /\ b.since = a.since /\ b.plain = a.plain
      /\ b.got = [a.got EXCEPT ![c] = stats[c]] /\ b.first = f
  BY DEF Calls
<1>7. b \in Calls
  BY <1>2, <1>3, <1>5 DEF Calls
<1> HIDE DEF b
<1>8. observer' \in [Observers -> Calls] /\ observer'[o] = b
      /\ \A p \in Observers : p # o => observer'[p] = observer[p]
  BY <1>3, <1>4, <1>7
<1>9. i > 0 => b.first = b.got["hits"]
  <2>1. CASE a.done = 0
    BY <1>1, <1>2, <1>6, <2>1, Orders DEF f
  <2>2. CASE a.done > 0
    <3>1. i # 1 /\ 1 \in 1 .. 4
      BY <1>1, <1>2, <2>2
    <3>2. c # "hits"
      BY <1>2, <3>1, Orders
    <3> QED BY <1>1, <1>6, <2>2, <3>2, Orders DEF CallInv, f
  <2> QED BY <1>1, <2>1, <2>2
<1>10. ASSUME a.plain
       PROVE  /\ stats = recorded
              /\ \A d \in CounterNames : b.since[d] <= recorded[d]
              /\ \A j \in 1 .. i :
                    b.since[Order[j]] <= b.got[Order[j]] /\ b.got[Order[j]] <= recorded[Order[j]]
  <2>1. stats = recorded /\ \A d \in CounterNames : a.since[d] <= recorded[d]
    BY <1>10 DEF CallInv
  <2>2. b.got[c] = recorded[c] /\ a.since[c] <= recorded[c] /\ recorded[c] \in Nat
    BY <1>1, <1>2, <1>3, <1>6, <2>1
  <2>3. ASSUME NEW j \in 1 .. a.done
        PROVE  a.since[Order[j]] <= b.got[Order[j]] /\ b.got[Order[j]] <= recorded[Order[j]]
    <3>1. j \in 1 .. 4 /\ j # i
      BY <1>1, <1>2
    <3>2. Order[j] # c /\ Order[j] \in CounterNames
      BY <1>2, <3>1, Orders
    <3>3. b.got[Order[j]] = a.got[Order[j]]
      BY <1>1, <1>6, <3>2
    <3> QED BY <1>10, <3>3 DEF CallInv
  <2>4. \A j \in 1 .. i : j = i \/ j \in 1 .. a.done
    BY <1>1, <1>2
  <2>5. a.since[Order[i]] <= b.got[Order[i]] /\ b.got[Order[i]] <= recorded[Order[i]]
    BY <1>2, <2>2
  <2> QED BY <1>6, <2>1, <2>3, <2>4, <2>5
<1>11. CallInv(b, stats', recorded')
  BY <1>4, <1>6, <1>9, <1>10 DEF CallInv
<1> QED BY <1>1, <1>2, <1>6, <1>8, <1>11

(* A first load and a later one keep the invariant.                          *)
LEMMA ObserveKeeps ==
    ASSUME IInv, NEW o \in Observers, Observe(o)
    PROVE  IInv'
<1> USE DEF IInv
<1>1. /\ observer \in [Observers -> Calls]
      /\ stats \in [CounterNames -> Nat] /\ recorded \in [CounterNames -> Nat]
  BY DEF TypeOK, Calls
<1>2. PICK a \in Calls : /\ a.request # "none" /\ a.done < Len(Read(a.request))
                         /\ CallInv(a, stats, recorded) /\ LoadNext(o, a)
  <2>1. CASE Ask(o)
    <3>1. PICK request \in {"clone", "accesses"} :
            LoadNext(o, [NotAsked EXCEPT !.request = request, !.since = recorded,
                                         !.plain = (stats = recorded)])
      BY <2>1 DEF Ask
    <3> DEFINE a == [NotAsked EXCEPT !.request = request, !.since = recorded,
                                     !.plain = (stats = recorded)]
    <3>2. /\ a.request = request /\ a.done = 0 /\ a.since = recorded
          /\ a.plain => stats = recorded
      BY DEF NotAsked
    <3>3. a \in Calls
      <4>1. Zeros \in [CounterNames -> Nat] /\ 0 \in 0 .. Len(Order)
        BY Orders DEF Zeros
      <4> QED BY <1>1, <4>1 DEF Calls, NotAsked
    <3> HIDE DEF a
    <3>4. a.done < Len(Read(a.request)) /\ a.request # "none"
      BY <3>2, Reads2or4
    <3>5. CallInv(a, stats, recorded)
      <4>1. \A c \in CounterNames : a.since[c] <= recorded[c]
        BY <1>1, <3>2
      <4>2. 1 .. a.done = {}
        BY <3>2
      <4> QED BY <3>2, <4>1, <4>2 DEF CallInv
    <3> QED BY <3>1, <3>3, <3>4, <3>5 DEF a
  <2>2. CASE Load(o)
    <3>1. observer[o] \in Calls
      BY <1>1
    <3>2. /\ observer[o].request # "none"
          /\ observer[o].done < Len(Read(observer[o].request))
      BY <2>2 DEF Load, Asking
    <3>3. CallInv(observer[o], stats, recorded)
      BY <3>2 DEF ObserverInv
    <3> QED BY <2>2, <3>1, <3>2, <3>3 DEF Load
  <2> QED BY <2>1, <2>2 DEF Observe
<1>3. /\ observer' \in [Observers -> Calls]
      /\ \A p \in Observers : p # o => observer'[p] = observer[p]
      /\ observer'[o].done \in 1 .. Len(Read(observer'[o].request))
      /\ CallInv(observer'[o], stats', recorded')
  BY <1>2, LoadKeepsCall
<1>4. UNCHANGED <<indexed, freq, stats, reader, writer, resetter, recorded>>
  BY <1>2 DEF LoadNext
<1>5. TypeOK'
  BY <1>3, <1>4 DEF TypeOK, Calls
<1>6. FreqInv' /\ ResetInv'
  BY <1>4 DEF FreqInv, ResetInv
<1>7. ObserverInv'
  <2> SUFFICES ASSUME NEW p \in Observers, observer'[p].request # "none"
               PROVE  /\ observer'[p].done \in 1 .. Len(Read(observer'[p].request))
                      /\ CallInv(observer'[p], stats', recorded')
    BY DEF ObserverInv
  <2>1. CASE p = o
    BY <1>3, <2>1
  <2>2. CASE p # o
    <3>1. observer'[p] = observer[p] /\ stats' = stats /\ recorded' = recorded
      BY <1>3, <1>4, <2>2
    <3> QED BY <3>1 DEF ObserverInv
  <2> QED BY <2>1, <2>2
<1> QED BY <1>5, <1>6, <1>7

(* One store of a reset ends what the loading calls could say of the         *)
(* counters, and starts what the reset can say of this one.                  *)
LEMMA ZeroKeeps ==
    ASSUME IInv, NEW z \in Resetters, Zero(z)
    PROVE  IInv'
<1> USE DEF IInv
<1> DEFINE x == resetter[z]
           i == x.done + 1
           c == Order[i]
           since == IF x.done = 0 THEN recorded ELSE x.since
           Resets == [done : 0 .. Len(Order), since : [CounterNames -> Nat]]
<1>1. /\ observer \in [Observers -> Calls] /\ resetter \in [Resetters -> Resets]
      /\ stats \in [CounterNames -> Nat] /\ recorded \in [CounterNames -> Nat]
  BY DEF TypeOK, Calls
<1>2. UNCHANGED <<indexed, freq, reader, writer, recorded>>
  BY DEF Zero
<1>3. /\ x \in Resets /\ x.done \in 0 .. 4 /\ x.done # 4 /\ i \in 1 .. 4 /\ c \in CounterNames
      /\ since \in [CounterNames -> Nat] /\ i = x.done + 1 /\ c = Order[i]
  <2>1. x \in Resets /\ x.done \in 0 .. 4 /\ x.since \in [CounterNames -> Nat]
    BY <1>1, Orders
  <2>2. x.done # 4
    BY Orders DEF Zero, HasReset
  <2>3. i \in 1 .. 4
    BY <2>1, <2>2
  <2>4. since \in [CounterNames -> Nat]
    BY <1>1, <2>1
  <2> QED BY <2>1, <2>2, <2>3, <2>4, Orders
<1>4. /\ stats' = [stats EXCEPT ![c] = 0]
      /\ resetter' = [resetter EXCEPT ![z].done = i, ![z].since = since]
      /\ observer' = [o \in Observers |->
              IF Asking(o) THEN [observer[o] EXCEPT !.plain = FALSE] ELSE observer[o]]
  BY Orders DEF Zero
<1> HIDE DEF i, c, since
<1>5. /\ stats' \in [CounterNames -> Nat] /\ stats'[c] = 0
      /\ \A d \in CounterNames : d # c => stats'[d] = stats[d]
  BY <1>1, <1>3, <1>4
<1>6. /\ resetter' \in [Resetters -> Resets]
      /\ resetter'[z].done = i /\ resetter'[z].since = since
      /\ \A y \in Resetters : y # z => resetter'[y] = resetter[y]
  <2>1. i \in 0 .. Len(Order)
    BY <1>3, Orders
  <2> QED BY <1>1, <1>3, <1>4, <2>1
<1>7. ASSUME NEW o \in Observers
      PROVE  /\ observer'[o] \in Calls
             /\ observer'[o].request = observer[o].request
             /\ observer'[o].done = observer[o].done
             /\ Asking(o) => /\ ~observer'[o].plain
                             /\ observer'[o].got = observer[o].got
                             /\ observer'[o].first = observer[o].first
             /\ ~Asking(o) => observer'[o] = observer[o]
  <2>1. observer[o] \in Calls
    BY <1>1
  <2>2. CASE Asking(o)
    <3>1. observer'[o] = [observer[o] EXCEPT !.plain = FALSE]
      BY <1>4, <2>2
    <3> QED BY <2>1, <2>2, <3>1 DEF Calls
  <2>3. CASE ~Asking(o)
    BY <1>4, <2>1, <2>3
  <2> QED BY <2>2, <2>3
<1>8. observer' \in [Observers -> Calls]
  BY <1>4, <1>7
<1>9. TypeOK'
  BY <1>2, <1>5, <1>6, <1>8 DEF TypeOK, Calls
<1>10. FreqInv'
  BY <1>2 DEF FreqInv
<1>11. ObserverInv'
  <2> SUFFICES ASSUME NEW o \in Observers, observer'[o].request # "none"
               PROVE  /\ observer'[o].done \in 1 .. Len(Read(observer'[o].request))
                      /\ CallInv(observer'[o], stats', recorded')
    BY DEF ObserverInv
  <2>1. /\ observer[o].request # "none"
        /\ observer[o].done \in 1 .. Len(Read(observer[o].request))
        /\ CallInv(observer[o], stats, recorded)
    BY <1>7 DEF ObserverInv
  <2>2. CASE Asking(o)
    BY <1>7, <2>1, <2>2 DEF CallInv
  <2>3. CASE ~Asking(o)
    <3>1. observer'[o] = observer[o] /\ ~(observer[o].done < Len(Read(observer[o].request)))
      BY <1>7, <2>1, <2>3 DEF Asking
    <3> QED BY <1>2, <2>1, <3>1 DEF CallInv
  <2> QED BY <2>2, <2>3
<1>12. ResetInv'
  <2> SUFFICES ASSUME NEW y \in Resetters
               PROVE  /\ resetter'[y].done > 0 =>
                            \A d \in CounterNames : resetter'[y].since[d] <= recorded[d]
                      /\ \A j \in 1 .. resetter'[y].done :
                            stats'[Order[j]] <= recorded[Order[j]] - resetter'[y].since[Order[j]]
    BY <1>2 DEF ResetInv
  <2>1. /\ resetter[y].done > 0 =>
              \A d \in CounterNames : resetter[y].since[d] <= recorded[d]
        /\ \A j \in 1 .. resetter[y].done :
              stats[Order[j]] <= recorded[Order[j]] - resetter[y].since[Order[j]]
    BY DEF ResetInv
  <2>2. /\ resetter[y].done \in 0 .. 4 /\ resetter[y].since \in [CounterNames -> Nat]
        /\ \A j \in 1 .. resetter[y].done : Order[j] \in CounterNames /\ j <= resetter[y].done
    BY <1>1, Orders
  <2>3. \A d \in CounterNames : since[d] <= recorded[d]
    BY <1>1, <1>3, <2>1 DEF since, ResetInv
  <2>4. \A d \in CounterNames : recorded[d] \in Nat /\ stats[d] \in Nat
    BY <1>1
  <2>5. CASE y # z
    <3>1. resetter'[y] = resetter[y]
      BY <1>6, <2>5
    <3>2. ASSUME NEW j \in 1 .. resetter[y].done
          PROVE  stats'[Order[j]] <= recorded[Order[j]] - resetter[y].since[Order[j]]
      <4>1. Order[j] \in CounterNames /\ resetter[y].done > 0
        BY <2>2
      <4>2. CASE Order[j] = c
        BY <1>5, <2>1, <2>2, <2>4, <4>1, <4>2
      <4>3. CASE Order[j] # c
        BY <1>5, <2>1, <4>1, <4>3
      <4> QED BY <4>2, <4>3
    <3> QED BY <2>1, <3>1, <3>2
  <2>6. CASE y = z
    <3>1. ASSUME NEW j \in 1 .. i
          PROVE  stats'[Order[j]] <= recorded[Order[j]] - since[Order[j]]
      <4>1. CASE j = i
        <5>1. since[c] <= recorded[c] /\ since[c] \in Nat /\ recorded[c] \in Nat
          BY <1>3, <2>3, <2>4
        <5> QED BY <1>3, <1>5, <4>1, <5>1
      <4>2. CASE j # i
        <5>1. j \in 1 .. x.done /\ x.done # 0 /\ j \in 1 .. 4
          BY <1>3, <4>2
        <5>2. Order[j] # c /\ Order[j] \in CounterNames
          BY <1>3, <4>2, <5>1, Orders
        <5>3. since = x.since
          BY <5>1 DEF since
        <5> QED BY <1>5, <2>1, <2>6, <5>1, <5>2, <5>3
      <4> QED BY <4>1, <4>2
    <3> QED BY <1>6, <2>3, <2>6, <3>1
  <2> QED BY <2>5, <2>6
<1> QED BY <1>9, <1>10, <1>11, <1>12

-----------------------------------------------------------------------------
(* The theorems about the invariants.                                        *)

LEMMA StepKeeps == IInv /\ [Next]_vars => IInv'
<1> SUFFICES ASSUME IInv, [Next]_vars PROVE IInv'
  OBVIOUS
<1>1. CASE Write
  BY <1>1, WriteKeepsFreq, CounterSteps, RecordKeepsCounters DEF IInv
<1>2. ASSUME NEW r \in Readers, Get(r) PROVE IInv'
  BY <1>2, GetKeepsFreq, CounterSteps, RecordKeepsCounters DEF IInv
<1>3. ASSUME NEW o \in Observers, Observe(o) PROVE IInv'
  BY <1>3, ObserveKeeps
<1>4. ASSUME NEW z \in Resetters, Zero(z) PROVE IInv'
  BY <1>4, ZeroKeeps
<1>5. CASE UNCHANGED vars
  <2> USE <1>5 DEF vars, IInv
  <2>1. TypeOK' /\ FreqInv'
    BY DEF TypeOK, FreqInv
  <2>2. ObserverInv' /\ ResetInv'
    BY RecordKeepsCounters
  <2> QED BY <2>1, <2>2
<1> QED BY <1>1, <1>2, <1>3, <1>4, <1>5 DEF Next

THEOREM Invariant == Spec => []IInv
<1> QED BY InitHolds, StepKeeps, PTL DEF Spec

(* The frequency of an entry never leaves 0 .. MAX_FREQ, whatever exchanges  *)
(* are lost and repeated (entry.rs 80-123), and every other variable keeps   *)
(* its type.                                                                 *)
THEOREM TypeCorrect == Spec => []TypeOK
<1>1. IInv => TypeOK
  BY DEF IInv
<1> QED BY <1>1, Invariant, PTL

(* hit_ratio divides what it loaded first by a total that contains it, so a  *)
(* reset or any accesses between its loads leave it in [0, 1] (stats.rs 119).*)
THEOREM RatioStaysInRange == Spec => []RatioInRange
<1>1. IInv => RatioInRange
  <2> SUFFICES ASSUME IInv, NEW o \in Observers, Answered(o), observer[o].request = "accesses"
               PROVE  observer[o].first <= observer[o].got["hits"] + observer[o].got["misses"]
    BY DEF RatioInRange
  <2>1. observer[o] \in Calls
    BY DEF IInv, TypeOK, Calls
  <2>2. observer[o].got["hits"] \in Nat /\ observer[o].got["misses"] \in Nat
    BY <2>1 DEF Calls, CounterNames
  <2>3. observer[o].first = observer[o].got["hits"]
    <3>1. observer[o].done \in 1 .. Len(Read("accesses")) /\ CallInv(observer[o], stats, recorded)
      BY DEF IInv, ObserverInv
    <3>2. observer[o].done > 0
      BY <3>1, Reads2or4
    <3> QED BY <3>1, <3>2 DEF CallInv
  <2> QED BY <2>2, <2>3
<1> QED BY <1>1, Invariant, PTL

(* However many calls record meanwhile, every number of an answer (a clone   *)
(* of the statistics, total_accesses) was current at some moment of the call *)
(* unless a reset came in between (stats.rs 177-189).                        *)
THEOREM AnswersStayCurrent == Spec => []AnswersAreCurrent
<1>1. IInv => AnswersAreCurrent
  <2> SUFFICES ASSUME IInv, NEW o \in Observers, Answered(o), observer[o].plain,
                      NEW i \in DOMAIN Read(observer[o].request)
               PROVE  LET c == Read(observer[o].request)[i]
                      IN  /\ observer[o].since[c] <= observer[o].got[c]
                          /\ observer[o].got[c] <= recorded[c]
    BY DEF AnswersAreCurrent
  <2> DEFINE a == observer[o]
  <2>1. a \in Calls
    BY DEF IInv, TypeOK, Calls
  <2>2. a.request \in {"clone", "accesses"}
    BY <2>1 DEF Calls, Answered
  <2>3. a.done \in 1 .. Len(Read(a.request)) /\ CallInv(a, stats, recorded)
    BY <2>2 DEF IInv, ObserverInv
  <2>4. ~(a.done < Len(Read(a.request)))
    BY DEF Answered, Asking
  <2>5. i \in 1 .. Len(Read(a.request)) /\ Read(a.request)[i] = Order[i]
        /\ Len(Read(a.request)) \in Nat
    BY <2>2, Reads2or4
  <2>6. i \in 1 .. a.done
    BY <2>3, <2>4, <2>5
  <2> QED BY <2>3, <2>5, <2>6 DEF CallInv
<1> QED BY <1>1, Invariant, PTL

(* After a reset no counter shows anything recorded before the reset's first *)
(* store, however many resets and accesses overlap (stats.rs 168-173).       *)
THEOREM ResetsForget == Spec => []ResetForgets
<1>1. IInv => ResetForgets
  <2> SUFFICES ASSUME IInv, NEW z \in Resetters, HasReset(z), NEW c \in CounterNames
               PROVE  stats[c] <= recorded[c] - resetter[z].since[c]
    BY DEF ResetForgets
  <2>1. resetter[z].done = 4
    BY Orders DEF HasReset
  <2>2. PICK i \in 1 .. 4 : c = Order[i]
    BY Orders
  <2> QED BY <2>1, <2>2 DEF IInv, ResetInv
<1> QED BY <1>1, Invariant, PTL

-----------------------------------------------------------------------------
(* HitPath implements HitPromise.                                            *)

(* The mapping, under the names of HitPromise.                               *)
place == CASE writer.at = "hotSmall" -> "fromSmall"
           [] writer.at \in {"hotMain", "swap"} -> "fromMain"
           [] writer.at = "unindexed" -> "gone"
           [] OTHER -> writer.at

counted == [c \in CounterNames |-> recorded[c] + Due(c)]

(* A reader that goes from one section to another is due for a counter where *)
(* it was not, or no longer; that of the others does not change.             *)
LEMMA Dues ==
    ASSUME TypeOK, TypeOK', NEW r \in Readers,
           \A q \in Readers : q # r => reader'[q] = reader[q],
           NEW section \in ReaderSections
    PROVE  /\ Cardinality(At(section)) \in Nat /\ Cardinality(At(section)') \in Nat
           /\ Cardinality(At(section)') = Cardinality(At(section))
                + (IF reader'[r].at = section THEN 1 ELSE 0)
                - (IF reader[r].at = section THEN 1 ELSE 0)
<1> DEFINE others == {q \in Readers : q # r /\ reader[q].at = section}
<1>1. IsFiniteSet(others) /\ Cardinality(others) \in Nat
  BY ReadersAssumption, FS_Subset, FS_CardinalityType
<1>2. r \notin others
  OBVIOUS
<1>3. At(section) = IF reader[r].at = section THEN others \cup {r} ELSE others
  BY DEF At
<1>4. At(section)' = IF reader'[r].at = section THEN others \cup {r} ELSE others
  BY DEF At
<1> HIDE DEF others
<1>5. Cardinality(others \cup {r}) = Cardinality(others) + 1
  BY <1>1, <1>2, FS_AddElement
<1> QED BY <1>1, <1>3, <1>4, <1>5

Dued(c) == recorded[c] + Due(c)
Still == \A c \in CounterNames : Dued(c)' = Dued(c)
OneMore(d) == \A c \in CounterNames : Dued(c)' = Dued(c) + (IF c = d THEN 1 ELSE 0)

LEMMA CountedSteps ==
    /\ Still => counted' = counted
    /\ \A d \in CounterNames : OneMore(d) /\ (\A c \in CounterNames : Dued(c) \in Nat)
          => counted' = [counted EXCEPT ![d] = @ + 1]
<1>1. /\ counted = [c \in CounterNames |-> Dued(c)]
      /\ counted' = [c \in CounterNames |-> Dued(c)']
  BY DEF counted, Dued
<1> QED BY <1>1 DEF Still, OneMore

(* A step that does to the mapping what an action of HitPromise does to its  *)
(* variables is a step of HitPromise.                                        *)
Stay == place' = place /\ freq' = freq
Go(from, to) == place = from /\ place' = to

LEMMA PromiseSteps ==
    ASSUME
        \/ /\ place # "gone" /\ place' = place /\ counted' = [counted EXCEPT !["hits"] = @ + 1]
           /\ freq' = IF freq < MaxFreq THEN freq + 1 ELSE freq
        \/ place = "gone" /\ Stay /\ counted' = [counted EXCEPT !["misses"] = @ + 1]
        \/ Go("gone", "published") /\ freq' = 0 /\ counted' = [counted EXCEPT !["insertions"] = @ + 1]
        \/ Go("doomed", "gone") /\ freq' = 0 /\ counted' = [counted EXCEPT !["evictions"] = @ + 1]
        \/ /\ UNCHANGED <<freq, counted>>
           /\ \/ Go("published", "small") \/ Go("published", "main") \/ Go("small", "fromSmall")
              \/ Go("main", "fromMain") \/ Go("main", "doomed")
        \/ /\ UNCHANGED <<freq, counted>>
           /\ freq = 0 /\ (Go("fromSmall", "doomed") \/ Go("fromMain", "doomed"))
        \/ /\ counted' = counted /\ freq > 0
           /\ \/ Go("fromSmall", "main") /\ freq' = 0
              \/ Go("fromMain", "main") /\ freq' = freq - 1
        \/ Stay /\ counted' = counted
    PROVE  [Promise!PNext]_(Promise!pvars)
<1>1. CASE /\ place # "gone" /\ place' = place /\ counted' = [counted EXCEPT !["hits"] = @ + 1]
           /\ freq' = IF freq < MaxFreq THEN freq + 1 ELSE freq
  <2>1. Promise!Hit
    BY <1>1, Zenon DEF Promise!Hit, Promise!Counted, place, counted
  <2> QED BY <2>1 DEF Promise!PNext
<1>2. CASE place = "gone" /\ Stay /\ counted' = [counted EXCEPT !["misses"] = @ + 1]
  <2>1. Promise!Miss
    BY <1>2, Zenon DEF Promise!Miss, Promise!Counted, place, counted, Stay
  <2> QED BY <2>1 DEF Promise!PNext
<1>3. CASE Go("gone", "published") /\ freq' = 0 /\ counted' = [counted EXCEPT !["insertions"] = @ + 1]
  <2>1. Promise!Insert
    BY <1>3, Zenon DEF Promise!Insert, Promise!Counted, place, counted, Go
  <2> QED BY <2>1 DEF Promise!PNext
<1>4. CASE Go("doomed", "gone") /\ freq' = 0 /\ counted' = [counted EXCEPT !["evictions"] = @ + 1]
  <2>1. Promise!Evict
    BY <1>4, Zenon DEF Promise!Evict, Promise!Counted, place, counted, Go
  <2> QED BY <2>1 DEF Promise!PNext
<1>5. CASE /\ UNCHANGED <<freq, counted>>
           /\ \/ Go("published", "small") \/ Go("published", "main") \/ Go("small", "fromSmall")
              \/ Go("main", "fromMain") \/ Go("main", "doomed")
  <2>1. UNCHANGED counted /\ UNCHANGED freq
    BY <1>5
  <2>2. CASE Go("published", "small") \/ Go("published", "main")
    <3>1. place = "published" /\ place' \in {"small", "main"}
      BY <2>2 DEF Go
    <3>2. Promise!Queue
      BY <2>1, <3>1, Zenon DEF Promise!Queue, place, counted
    <3> QED BY <3>2 DEF Promise!PNext
  <2>3. CASE Go("small", "fromSmall") \/ Go("main", "fromMain") \/ Go("main", "doomed")
    <3>1. Promise!Pop
      BY <2>1, <2>3, Zenon DEF Promise!Pop, place, counted, Go
    <3> QED BY <3>1 DEF Promise!PNext
  <2> QED BY <1>5, <2>2, <2>3
<1>6. CASE /\ UNCHANGED <<freq, counted>>
           /\ freq = 0 /\ (Go("fromSmall", "doomed") \/ Go("fromMain", "doomed"))
  <2>1. /\ UNCHANGED counted /\ UNCHANGED freq /\ freq = 0
        /\ place \in {"fromSmall", "fromMain"} /\ place' = "doomed"
    BY <1>6 DEF Go
  <2>2. Promise!JudgeCold
    BY <2>1, Zenon DEF Promise!JudgeCold, place, counted
  <2> QED BY <2>2 DEF Promise!PNext
<1>7. CASE /\ counted' = counted /\ freq > 0
           /\ \/ Go("fromSmall", "main") /\ freq' = 0
              \/ Go("fromMain", "main") /\ freq' = freq - 1
  <2>1. /\ UNCHANGED counted /\ freq > 0 /\ place \in {"fromSmall", "fromMain"} /\ place' = "main"
        /\ freq' = IF place = "fromSmall" THEN 0 ELSE freq - 1
    BY <1>7 DEF Go
  <2>2. Promise!JudgeHot
    BY <2>1, Zenon DEF Promise!JudgeHot, place, counted
  <2> QED BY <2>2 DEF Promise!PNext
<1>8. CASE Stay /\ counted' = counted
  BY <1>8, Zenon DEF Stay, Promise!pvars, place, counted
<1> QED BY <1>1, <1>2, <1>3, <1>4, <1>5, <1>6, <1>7, <1>8

(* What is due, counter by counter.                                          *)
LEMMA DueValues ==
    /\ Due("hits") = Cardinality(At("hit")) /\ Due("misses") = Cardinality(At("miss"))
    /\ Due("insertions") = IF writer.at = "published" THEN 1 ELSE 0
    /\ Due("evictions") = IF writer.at = "unindexed" THEN 1 ELSE 0
BY DEF Due

LEMMA DueType ==
    ASSUME TypeOK
    PROVE  /\ \A c \in CounterNames : Due(c) \in Nat /\ recorded[c] \in Nat /\ Dued(c) \in Nat
           /\ \A c \in CounterNames : c = "hits" \/ c = "misses" \/ c = "insertions" \/ c = "evictions"
           /\ \A c \in {"hits", "misses", "insertions", "evictions"} : c \in CounterNames
<1>1. \A section : Cardinality(At(section)) \in Nat
  BY ReadersAssumption, FS_Subset, FS_CardinalityType DEF At
<1>2. \A c \in CounterNames : Due(c) \in Nat
  BY <1>1, DueValues DEF CounterNames
<1>3. \A c \in CounterNames : recorded[c] \in Nat
  BY DEF TypeOK
<1> QED BY <1>2, <1>3 DEF CounterNames, Dued

(* A step of get: the exchange is the hit, the look-up in vain the miss, and *)
(* what is then recorded has counted before.                                 *)
LEMMA GetRefines ==
    ASSUME IInv, TypeOK', NEW r \in Readers, Get(r)
    PROVE  [Promise!PNext]_(Promise!pvars)
<1> USE DEF IInv
<1>1. writer' = writer /\ place' = place
  BY DEF Get, Enter, LoadFreq, SwapFreq, SwapAgain, RecordHit, RecordMiss, place
<1>2. ASSUME NEW from, NEW to \in ReaderSections, NEW f \in 0 .. MaxFreq, Reads(r, from, to, f)
      PROVE  /\ Due("hits")' = Due("hits") + (IF to = "hit" THEN 1 ELSE 0)
                                           - (IF from = "hit" THEN 1 ELSE 0)
             /\ Due("misses")' = Due("misses") + (IF to = "miss" THEN 1 ELSE 0)
                                               - (IF from = "miss" THEN 1 ELSE 0)
             /\ Due("insertions")' = Due("insertions")
             /\ Due("evictions")' = Due("evictions")
  <2>1. reader[r].at = from /\ reader'[r].at = to /\ \A q \in Readers : q # r => reader'[q] = reader[q]
    BY <1>2, ReaderMoves
  <2>2. "hit" \in ReaderSections /\ "miss" \in ReaderSections
    BY DEF ReaderSections
  <2>3. /\ Cardinality(At("hit")') = Cardinality(At("hit")) + (IF to = "hit" THEN 1 ELSE 0)
                                        - (IF from = "hit" THEN 1 ELSE 0)
        /\ Cardinality(At("miss")') = Cardinality(At("miss")) + (IF to = "miss" THEN 1 ELSE 0)
                                         - (IF from = "miss" THEN 1 ELSE 0)
    BY <2>1, <2>2, Dues
  <2> QED BY <1>1, <2>3 DEF Due
<1>3. \A c \in CounterNames : c = "hits" \/ c = "misses" \/ c = "insertions" \/ c = "evictions"
  BY DueType
<1>4. /\ \A c \in CounterNames : Dued(c) \in Nat /\ recorded[c] \in Nat /\ Due(c) \in Nat
      /\ "hits" \in CounterNames /\ "misses" \in CounterNames
  BY DueType
<1>5. {"idle", "load", "swap", "hit", "miss"} = ReaderSections /\ 0 \in 0 .. MaxFreq
      /\ freq \in 0 .. MaxFreq /\ MaxFreq \in Nat
  BY FreqAssumption DEF ReaderSections, TypeOK
<1>6. ASSUME NEW from \in {"idle", "load", "swap"}, NEW to \in {"load", "swap"},
             NEW f \in 0 .. MaxFreq, Reads(r, from, to, f), UNCHANGED <<recorded, freq>>
      PROVE  [Promise!PNext]_(Promise!pvars)
  <2>1. Still
    BY <1>2, <1>3, <1>4, <1>5, <1>6 DEF Still, Dued
  <2> QED BY <1>1, <1>6, <2>1, CountedSteps, PromiseSteps DEF Stay
<1>7. ASSUME NEW from \in {"load", "swap"}, Reads(r, from, "hit", 0), UNCHANGED recorded,
             freq' = IF freq < MaxFreq THEN freq + 1 ELSE freq
      PROVE  [Promise!PNext]_(Promise!pvars)
  <2>1. OneMore("hits")
    BY <1>2, <1>3, <1>4, <1>5, <1>7 DEF OneMore, Dued
  <2>2. place # "gone"
    <3>1. writer.at \notin {"gone", "unindexed"}
      BY <1>7 DEF Reads, FreqInv
    <3> QED BY <3>1 DEF place
  <2> QED BY <1>1, <1>4, <1>7, <2>1, <2>2, CountedSteps, PromiseSteps
<1>8. ASSUME NEW from \in {"load", "swap"}, AfterLoad(r, from, freq), UNCHANGED <<freq, recorded>>
      PROVE  [Promise!PNext]_(Promise!pvars)
  <2>1. CASE freq < MaxFreq
    BY <1>5, <1>6, <1>8, <2>1 DEF AfterLoad
  <2>2. CASE ~(freq < MaxFreq)
    BY <1>7, <1>8, <2>2 DEF AfterLoad
  <2> QED BY <2>1, <2>2
<1>9. CASE Enter(r)
  <2>1. CASE indexed
    BY <1>5, <1>6, <1>9, <2>1 DEF Enter
  <2>2. CASE ~indexed
    <3>1. Reads(r, "idle", "miss", 0) /\ UNCHANGED <<freq, recorded>>
      BY <1>9, <2>2 DEF Enter
    <3>2. OneMore("misses")
      BY <1>2, <1>3, <1>4, <1>5, <3>1 DEF OneMore, Dued
    <3>3. place = "gone"
      BY <2>2 DEF FreqInv, place
    <3> QED BY <1>1, <1>4, <3>1, <3>2, <3>3, CountedSteps, PromiseSteps DEF Stay
  <2> QED BY <2>1, <2>2
<1>10. CASE LoadFreq(r) \/ SwapAgain(r)
  BY <1>8, <1>10 DEF LoadFreq, SwapAgain
<1>11. CASE SwapFreq(r)
  <2>1. freq < MaxFreq
    BY <1>11 DEF SwapFreq, Reads, FreqInv
  <2> QED BY <1>7, <1>11, <2>1 DEF SwapFreq
<1>12. CASE RecordHit(r) \/ RecordMiss(r)
  <2>1. UNCHANGED freq
    BY <1>12 DEF RecordHit, RecordMiss
  <2>2. ASSUME NEW d \in {"hits", "misses"}, Record(d),
               \A c \in CounterNames : Due(c)' = Due(c) - (IF c = d THEN 1 ELSE 0)
        PROVE  Still
    <3>1. \A c \in CounterNames : recorded'[c] = recorded[c] + (IF c = d THEN 1 ELSE 0)
      BY <2>2 DEF TypeOK, Record
    <3>2. ASSUME NEW c \in CounterNames PROVE recorded'[c] + Due(c)' = recorded[c] + Due(c)
      BY <1>4, <2>2, <3>1
    <3> QED BY <3>2 DEF Still, Dued
  <2>3. CASE RecordHit(r)
    <3>1. Reads(r, "hit", "idle", 0) /\ Record("hits")
      BY <2>3 DEF RecordHit
    <3>2. /\ Due("hits")' = Due("hits") - 1 /\ Due("misses")' = Due("misses")
          /\ Due("insertions")' = Due("insertions") /\ Due("evictions")' = Due("evictions")
      BY <1>2, <1>4, <1>5, <3>1, DueType
    <3>3. \A c \in CounterNames : Due(c)' = Due(c) - (IF c = "hits" THEN 1 ELSE 0)
      BY <1>3, <1>4, <3>2
    <3>4. Still
      BY <2>2, <3>1, <3>3
    <3> QED BY <1>1, <2>1, <3>4, CountedSteps, PromiseSteps DEF Stay
  <2>4. CASE RecordMiss(r)
    <3>1. Reads(r, "miss", "idle", 0) /\ Record("misses")
      BY <2>4 DEF RecordMiss
    <3>2. /\ Due("misses")' = Due("misses") - 1 /\ Due("hits")' = Due("hits")
          /\ Due("insertions")' = Due("insertions") /\ Due("evictions")' = Due("evictions")
      BY <1>2, <1>4, <1>5, <3>1, DueType
    <3>3. \A c \in CounterNames : Due(c)' = Due(c) - (IF c = "misses" THEN 1 ELSE 0)
      BY <1>3, <1>4, <3>2
    <3>4. Still
      BY <2>2, <3>1, <3>3
    <3> QED BY <1>1, <2>1, <3>4, CountedSteps, PromiseSteps DEF Stay
  <2> QED BY <1>12, <2>3, <2>4
<1> QED BY <1>9, <1>10, <1>11, <1>12 DEF Get

(* A step of the writer: the entry is inserted with its publication, judged  *)
(* when its frequency is written or found to be 0, and evicted from the      *)
(* index; counting either comes later.                                       *)
LEMMA WriteRefines ==
    ASSUME IInv, Write
    PROVE  [Promise!PNext]_(Promise!pvars)
<1> USE DEF IInv
<1>1. reader' = reader
  BY DEF Write, Publish, RecordInsertion, Pop, FindCold, FindHot, ResetFreq,
         LoadToDecrement, SwapDown, SwapDownAgain, Unindex, RecordEviction
<1>2. Due("hits")' = Due("hits") /\ Due("misses")' = Due("misses")
  BY <1>1 DEF Due, At
<1>3. /\ Due("insertions")' = IF writer'.at = "published" THEN 1 ELSE 0
      /\ Due("evictions")' = IF writer'.at = "unindexed" THEN 1 ELSE 0
      /\ Due("insertions") = IF writer.at = "published" THEN 1 ELSE 0
      /\ Due("evictions") = IF writer.at = "unindexed" THEN 1 ELSE 0
  BY DEF Due
<1>4. \A c \in CounterNames : c = "hits" \/ c = "misses" \/ c = "insertions" \/ c = "evictions"
  BY DueType
<1>5. /\ \A c \in CounterNames : Dued(c) \in Nat /\ recorded[c] \in Nat /\ Due(c) \in Nat
      /\ "insertions" \in CounterNames /\ "evictions" \in CounterNames
  BY DueType
<1>6. \A d \in CounterNames : Record(d) => \A c \in CounterNames :
         recorded'[c] = recorded[c] + (IF c = d THEN 1 ELSE 0)
  BY DEF TypeOK, Record
<1>7. freq \in Nat
  BY FreqAssumption DEF TypeOK
<1>8. CASE Publish
  <2>1. OneMore("insertions")
    BY <1>2, <1>3, <1>4, <1>5, <1>8 DEF Publish, Writes, OneMore, Dued
  <2>2. Go("gone", "published") /\ freq' = 0
    BY <1>8 DEF Publish, Writes, Go, place
  <2> QED BY <1>5, <2>1, <2>2, CountedSteps, PromiseSteps
<1>9. CASE Unindex
  <2>1. OneMore("evictions")
    BY <1>2, <1>3, <1>4, <1>5, <1>9 DEF Unindex, Writes, OneMore, Dued
  <2>2. Go("doomed", "gone") /\ freq' = 0
    BY <1>9 DEF Unindex, Writes, Go, place
  <2> QED BY <1>5, <2>1, <2>2, CountedSteps, PromiseSteps
<1>10. CASE RecordInsertion
  <2>1. Still
    BY <1>2, <1>3, <1>4, <1>5, <1>6, <1>10 DEF RecordInsertion, Writes, Still, Dued
  <2>2. (Go("published", "small") \/ Go("published", "main")) /\ UNCHANGED freq
    BY <1>10 DEF RecordInsertion, Writes, Go, place
  <2> QED BY <2>1, <2>2, CountedSteps, PromiseSteps
<1>11. CASE RecordEviction
  <2>1. Still
    BY <1>2, <1>3, <1>4, <1>5, <1>6, <1>11 DEF RecordEviction, Writes, Still, Dued
  <2>2. Stay
    BY <1>11 DEF RecordEviction, Writes, Stay, place
  <2> QED BY <2>1, <2>2, CountedSteps, PromiseSteps
<1>12. CASE Pop \/ FindCold \/ FindHot \/ ResetFreq \/ LoadToDecrement \/ SwapDown \/ SwapDownAgain
  <2>1. Still
    <3>1. /\ UNCHANGED recorded
          /\ writer.at \notin {"published", "unindexed"} /\ writer'.at \notin {"published", "unindexed"}
      BY <1>12 DEF Pop, FindCold, FindHot, ResetFreq, LoadToDecrement, SwapDown, SwapDownAgain, Writes
    <3> QED BY <1>2, <1>3, <1>4, <1>5, <3>1 DEF Still, Dued
  <2>2. CASE Pop
    <3>1. /\ UNCHANGED freq
          /\ Go("small", "fromSmall") \/ Go("main", "fromMain") \/ Go("main", "doomed")
      BY <2>2 DEF Pop, Writes, Go, place
    <3> QED BY <2>1, <3>1, CountedSteps, PromiseSteps
  <2>3. CASE FindCold
    <3>1. UNCHANGED freq /\ freq = 0 /\ (Go("fromSmall", "doomed") \/ Go("fromMain", "doomed"))
      BY <2>3 DEF FindCold, Writes, Go, place
    <3> QED BY <2>1, <3>1, CountedSteps, PromiseSteps
  <2>4. CASE FindHot \/ LoadToDecrement \/ SwapDownAgain
    <3>1. Stay
      BY <2>4 DEF FindHot, LoadToDecrement, SwapDownAgain, Writes, Stay, place
    <3> QED BY <2>1, <3>1, CountedSteps, PromiseSteps
  <2>5. CASE ResetFreq
    <3>1. freq > 0 /\ Go("fromSmall", "main") /\ freq' = 0
      BY <2>5 DEF ResetFreq, Writes, Go, place, FreqInv, Hot
    <3> QED BY <2>1, <3>1, CountedSteps, PromiseSteps
  <2>6. CASE SwapDown
    <3>1. freq > 0 /\ Go("fromMain", "main")
      BY <2>6 DEF SwapDown, Writes, Go, place, FreqInv, Hot
    <3>2. freq' = freq - 1
      BY <1>7, <2>6, <3>1 DEF SwapDown
    <3> QED BY <2>1, <3>1, <3>2, CountedSteps, PromiseSteps
  <2> QED BY <1>12, <2>2, <2>3, <2>4, <2>5, <2>6
<1> QED BY <1>8, <1>9, <1>10, <1>11, <1>12 DEF Write

(* No hit is lost or counted twice, and an eviction judges an entry as if in *)
(* one step, for any number of readers: what S3Fifo takes for granted of     *)
(* increment_freq, decrement_freq and reset_freq (entry.rs 80-150).          *)
THEOREM HitsAreAtomic == Spec => ImplementsPromise
<1>1. Init => Promise!PInit
  <2> SUFFICES ASSUME Init PROVE Promise!PInit
    OBVIOUS
  <2>1. \A section \in {"hit", "miss"} : At(section) = {}
    BY DEF Init, At
  <2>2. Due("hits") = 0 /\ Due("misses") = 0 /\ Due("insertions") = 0 /\ Due("evictions") = 0
    BY <2>1, FS_EmptySet, DueValues DEF Init
  <2>3. counted = [c \in CounterNames |-> 0]
    BY <2>2 DEF counted, Init, Zeros, CounterNames
  <2>4. place = "gone" /\ freq = 0
    BY DEF Init, place
  <2> QED BY <2>3, <2>4, Zenon DEF Promise!PInit, Promise!CounterNames, CounterNames, place, counted
<1>2. IInv /\ IInv' /\ [Next]_vars => [Promise!PNext]_(Promise!pvars)
  <2> SUFFICES ASSUME IInv, IInv', [Next]_vars
               PROVE  [Promise!PNext]_(Promise!pvars)
    OBVIOUS
  <2>1. CASE Write
    BY <2>1, WriteRefines
  <2>2. ASSUME NEW r \in Readers, Get(r) PROVE [Promise!PNext]_(Promise!pvars)
    BY <2>2, GetRefines DEF IInv
  <2>3. CASE UNCHANGED <<freq, reader, writer, recorded>>
    <3>1. Stay
      BY <2>3 DEF Stay, place
    <3>2. counted' = counted
      BY <2>3 DEF counted, Due, At
    <3> QED BY <3>1, <3>2, PromiseSteps
  <2>4. ASSUME NEW o \in Observers, Observe(o) PROVE UNCHANGED <<freq, reader, writer, recorded>>
    BY <2>4 DEF Observe, Ask, Load, LoadNext
  <2>5. ASSUME NEW z \in Resetters, Zero(z) PROVE UNCHANGED <<freq, reader, writer, recorded>>
    BY <2>5 DEF Zero
  <2> QED BY <2>1, <2>2, <2>3, <2>4, <2>5 DEF Next, vars
<1> QED BY <1>1, <1>2, Invariant, PTL DEF Spec, ImplementsPromise, Promise!PSpec

=============================================================================
