---------------------------- MODULE QueueProofs ----------------------------
(*****************************************************************************)
(* Queues, for every element type, length and capacity: what the operations  *)
(* the caches are built from do to the elements of a sequence, and that the  *)
(* ghost queue of src/cache/s3fifo.rs is sound after each of its own.  The   *)
(* induction theorems of the library take a predicate as a parameter; here   *)
(* the induction is over a set, which needs no such parameter.               *)
(*****************************************************************************)
EXTENDS GhostQueue, FiniteSetTheorems, SequenceTheorems, TLAPS

(* A nonempty set of naturals has a least element.                           *)
LEMMA LeastElement ==
    ASSUME NEW T \in SUBSET Nat, T # {}
    PROVE  \E n \in T : \A m \in T : n <= m
<1> DEFINE R == {ss \in Nat \X Nat : ss[1] < ss[2]}
<1>1. IsWellFoundedOn(R, Nat)
    BY NatLessThanWellFounded DEF OpToRel
<1>2. PICK n \in T : \A m \in T : ~ (<<m, n>> \in R)
    BY <1>1, WFMin
<1>3. ASSUME NEW m \in T PROVE n <= m
  <2>1. m \in Nat /\ n \in Nat
     OBVIOUS
  <2>2. <<m, n>> \in Nat \X Nat
     BY <2>1
  <2>3. ~(m < n)
     BY <1>2, <2>2
  <2> HIDE DEF R
  <2> QED BY <2>1, <2>3
<1> QED BY <1>3

(* Induction over the naturals with a set in place of a predicate.           *)
LEMMA Induction ==
    ASSUME NEW S, 0 \in S, \A n \in Nat : n \in S => n + 1 \in S
    PROVE  Nat \subseteq S
<1> SUFFICES ASSUME Nat \ S # {} PROVE FALSE OBVIOUS
<1>1. PICK n \in Nat \ S : \A m \in Nat \ S : n <= m
    BY LeastElement
<1>2. n # 0 /\ n - 1 \in Nat /\ n - 1 \notin Nat \ S
    BY <1>1
<1> QED BY <1>2

(* The value of Retain is the last of the deques that retain's walk over s   *)
(* leaves behind, one for each element looked at.                            *)
LEMMA RetainSteps ==
    ASSUME NEW A, NEW s \in Seq(A), NEW Gone
    PROVE  \E f :
             /\ f[0] = <<>>
             /\ \A i \in 1 .. Len(s) :
                   f[i] = IF s[i] \in Gone THEN f[i - 1] ELSE Append(f[i - 1], s[i])
             /\ Retain(s, Gone) = f[Len(s)]
<1> DEFINE Next(x, i) == IF s[i] \in Gone THEN x ELSE Append(x, s[i])
           Good(n, f) == f = [i \in 0 .. n |-> IF i = 0 THEN <<>> ELSE Next(f[i - 1], i)]
           S == {n \in Nat : \E f : Good(n, f)}
<1>1. 0 \in S
  <2> HIDE DEF Next
  <2> DEFINE z == [i \in 0 .. 0 |-> <<>>]
  <2>1. \A i \in 0 .. 0 : i = 0
     OBVIOUS
  <2>2. Good(0, z)
     BY <2>1
  <2> QED BY <2>2
<1>2. ASSUME NEW n \in Nat, n \in S PROVE n + 1 \in S
  <2> HIDE DEF Next
  <2>1. PICK f : Good(n, f)
     BY <1>2
  <2> DEFINE g == [i \in 0 .. n + 1 |-> IF i <= n THEN f[i] ELSE Next(f[n], i)]
  <2>2. ASSUME NEW i \in 0 .. n + 1
        PROVE g[i] = IF i = 0 THEN <<>> ELSE Next(g[i - 1], i)
    <3>1. CASE i = 0
        BY <2>1, <3>1
    <3>2. CASE i \in 1 .. n
        BY <2>1, <3>2
    <3>3. CASE i = n + 1
        BY <3>3
    <3> QED BY <3>1, <3>2, <3>3
  <2>3. Good(n + 1, g)
     BY <2>2
  <2> HIDE DEF Good, g
  <2> QED BY <2>3
<1>3. Nat \subseteq S
  <2> HIDE DEF S
  <2> QED BY <1>1, <1>2, Induction
<1> DEFINE k == CHOOSE f : Good(Len(s), f)
<1>4. Len(s) \in Nat
  OBVIOUS
<1>5. \E f : Good(Len(s), f)
  BY <1>3, <1>4
<1>6. Good(Len(s), k)
  <2> HIDE DEF Good
  <2> QED BY <1>5
<1>7. Retain(s, Gone) = k[Len(s)]
  BY DEF Retain
<1> HIDE DEF k
<1>8. \A i \in 0 .. Len(s) : k[i] = IF i = 0 THEN <<>> ELSE Next(k[i - 1], i)
  <2> HIDE DEF Next
  <2> QED BY <1>6
<1>9. 0 \in 0 .. Len(s) /\ \A i \in 1 .. Len(s) : i \in 0 .. Len(s) /\ i # 0
  BY <1>4
<1>10. k[0] = <<>>
  BY <1>8, <1>9
<1>11. \A i \in 1 .. Len(s) :
         k[i] = IF s[i] \in Gone THEN k[i - 1] ELSE Append(k[i - 1], s[i])
  BY <1>8, <1>9
<1> QED BY <1>7, <1>10, <1>11

(* Pushing adds one element, and repeats none if it was not there.           *)
LEMMA AppendKeeps ==
    ASSUME NEW A, NEW s \in Seq(A), NEW x \in A
    PROVE  /\ Append(s, x) \in Seq(A)
           /\ Range(Append(s, x)) = Range(s) \cup {x}
           /\ IsInjective(s) /\ x \notin Range(s) => IsInjective(Append(s, x))
<1> DEFINE r == Append(s, x)
<1>1. /\ r \in Seq(A) /\ Len(s) \in Nat /\ DOMAIN s = 1 .. Len(s)
      /\ DOMAIN r = 1 .. Len(s) + 1 /\ r[Len(s) + 1] = x
      /\ \A i \in 1 .. Len(s) : r[i] = s[i]
  OBVIOUS
<1> HIDE DEF r
<1>2. Range(r) = Range(s) \cup {x}
  BY <1>1 DEF Range
<1>3. ASSUME IsInjective(s), x \notin Range(s) PROVE IsInjective(r)
  <2> SUFFICES ASSUME NEW a \in DOMAIN r, NEW b \in DOMAIN r, r[a] = r[b] PROVE a = b
    BY DEF IsInjective
  <2>1. \A i \in 1 .. Len(s) : s[i] # x
    BY <1>1, <1>3 DEF Range
  <2>2. CASE a \in 1 .. Len(s) /\ b \in 1 .. Len(s)
    BY <1>1, <1>3, <2>2 DEF IsInjective
  <2>3. CASE a = Len(s) + 1 \/ b = Len(s) + 1
    BY <1>1, <2>1, <2>3
  <2> QED BY <1>1, <2>2, <2>3
<1> QED BY <1>1, <1>2, <1>3 DEF r

(* Popping takes the front element away, wholly if none was repeated.        *)
LEMMA TailKeeps ==
    ASSUME NEW A, NEW s \in Seq(A), s # <<>>
    PROVE  /\ Tail(s) \in Seq(A) /\ Head(s) \in A
           /\ Len(Tail(s)) = Len(s) - 1
           /\ Head(s) \in Range(s)
           /\ Range(Tail(s)) \subseteq Range(s)
           /\ IsInjective(s) => IsInjective(Tail(s)) /\ Head(s) \notin Range(Tail(s))
<1> DEFINE r == Tail(s)
<1>1. /\ r \in Seq(A) /\ Len(s) \in Nat \ {0} /\ DOMAIN s = 1 .. Len(s)
      /\ Len(r) = Len(s) - 1 /\ DOMAIN r = 1 .. Len(s) - 1
      /\ \A i \in 1 .. Len(s) - 1 : r[i] = s[i + 1]
      /\ Head(s) = s[1] /\ s[1] \in A
  OBVIOUS
<1> HIDE DEF r
<1>2. 1 \in DOMAIN s /\ \A i \in DOMAIN r : i + 1 \in DOMAIN s /\ i + 1 # 1
  BY <1>1
<1>3. Head(s) \in Range(s) /\ Range(r) \subseteq Range(s)
  BY <1>1, <1>2 DEF Range
<1>4. ASSUME IsInjective(s) PROVE IsInjective(r) /\ Head(s) \notin Range(r)
  <2>1. ASSUME NEW a \in DOMAIN r, NEW b \in DOMAIN r, r[a] = r[b] PROVE a = b
    <3>1. a + 1 = b + 1
      BY <1>1, <1>2, <1>4, <2>1 DEF IsInjective
    <3> QED BY <1>1, <3>1
  <2>2. ASSUME NEW a \in DOMAIN r PROVE r[a] # s[1]
    BY <1>1, <1>2, <1>4, <2>2 DEF IsInjective
  <2> QED BY <1>1, <2>1, <2>2 DEF IsInjective, Range
<1> QED BY <1>1, <1>3, <1>4 DEF r

(* What two queues hold together, and when no element is in them twice.      *)
LEMMA ConcatKeeps ==
    ASSUME NEW A, NEW s \in Seq(A), NEW r \in Seq(A)
    PROVE  /\ Range(s \o r) = Range(s) \cup Range(r)
           /\ IsInjective(s) /\ IsInjective(r) /\ Range(s) \cap Range(r) = {}
                 => IsInjective(s \o r)
<1> DEFINE c == s \o r
<1>1. /\ Len(s) \in Nat /\ Len(r) \in Nat /\ DOMAIN s = 1 .. Len(s) /\ DOMAIN r = 1 .. Len(r)
      /\ DOMAIN c = 1 .. Len(s) + Len(r)
      /\ \A i \in 1 .. Len(s) : c[i] = s[i]
      /\ \A i \in Len(s) + 1 .. Len(s) + Len(r) : c[i] = r[i - Len(s)]
  OBVIOUS
<1> HIDE DEF c
<1>2. \A i \in DOMAIN c : \/ i \in DOMAIN s /\ c[i] = s[i]
                          \/ i - Len(s) \in DOMAIN r /\ c[i] = r[i - Len(s)]
  BY <1>1
<1>3. \A i \in DOMAIN r : i + Len(s) \in DOMAIN c /\ c[i + Len(s)] = r[i]
  BY <1>1
<1>4. Range(c) = Range(s) \cup Range(r)
  BY <1>1, <1>2, <1>3 DEF Range
<1>5. ASSUME IsInjective(s), IsInjective(r), Range(s) \cap Range(r) = {},
             NEW a \in DOMAIN c, NEW b \in DOMAIN c, c[a] = c[b]
      PROVE  a = b
  <2>1. \A i \in DOMAIN s, j \in DOMAIN r : s[i] # r[j]
    BY <1>5 DEF Range
  <2>2. CASE a \in DOMAIN s /\ c[a] = s[a] /\ b \in DOMAIN s /\ c[b] = s[b]
    BY <1>5, <2>2 DEF IsInjective
  <2>3. CASE /\ a - Len(s) \in DOMAIN r /\ c[a] = r[a - Len(s)]
             /\ b - Len(s) \in DOMAIN r /\ c[b] = r[b - Len(s)]
    <3>1. a - Len(s) = b - Len(s)
      BY <1>5, <2>3 DEF IsInjective
    <3> QED BY <1>1, <3>1
  <2> QED BY <1>2, <1>5, <2>1, <2>2, <2>3
<1> QED BY <1>4, <1>5 DEF c, IsInjective

(* retain takes out exactly the elements asked for and repeats none: what    *)
(* remove_from_queue and the two ghost queues' remove rely on.               *)
LEMMA RetainKeeps ==
    ASSUME NEW A, NEW s \in Seq(A), NEW Gone
    PROVE  /\ Retain(s, Gone) \in Seq(A)
           /\ Len(Retain(s, Gone)) <= Len(s)
           /\ Range(Retain(s, Gone)) = Range(s) \ Gone
           /\ IsInjective(s) => IsInjective(Retain(s, Gone))
<1>1. PICK f :
        /\ f[0] = <<>>
        /\ \A i \in 1 .. Len(s) :
              f[i] = IF s[i] \in Gone THEN f[i - 1] ELSE Append(f[i - 1], s[i])
        /\ Retain(s, Gone) = f[Len(s)]
  BY RetainSteps
<1> DEFINE Before(i) == {s[j] : j \in 1 .. i}
    Kept(i) ==
        /\ f[i] \in Seq(A)
        /\ Len(f[i]) <= i
        /\ Range(f[i]) = Before(i) \ Gone
        /\ IsInjective(s) => IsInjective(f[i])
    S == {i \in Nat : i <= Len(s) => Kept(i)}
<1>2. 0 \in S
  <2>1. Before(0) = {} /\ f[0] = <<>>
    <3>1. 1 .. 0 = {}
      OBVIOUS
    <3> QED BY <1>1, <3>1
  <2>2. Range(<<>>) = {} /\ IsInjective(<<>>) /\ <<>> \in Seq(A) /\ Len(<<>>) = 0
    BY DEF Range, IsInjective
  <2> HIDE DEF Before
  <2>3. Kept(0)
    BY <2>1, <2>2
  <2> QED BY <2>3
<1>3. ASSUME NEW i \in Nat, i \in S PROVE i + 1 \in S
  <2> SUFFICES ASSUME i + 1 <= Len(s) PROVE Kept(i + 1)
    OBVIOUS
  <2> HIDE DEF Before
  <2>1. Kept(i) /\ Len(s) \in Nat /\ Len(f[i]) \in Nat
    BY <1>3
  <2>2. i + 1 \in 1 .. Len(s) /\ (i + 1) - 1 = i
    OBVIOUS
  <2>3. s[i + 1] \in A
    BY <2>2
  <2>4. Before(i + 1) = Before(i) \cup {s[i + 1]}
    BY DEF Before
  <2>5. CASE s[i + 1] \in Gone
    <3>1. f[i + 1] = f[i]
      BY <1>1, <2>2, <2>5
    <3> QED BY <2>1, <2>4, <2>5, <3>1
  <2>6. CASE s[i + 1] \notin Gone
    <3>1. f[i + 1] = Append(f[(i + 1) - 1], s[i + 1])
      BY <1>1, <2>2, <2>6
    <3>2. f[i + 1] = Append(f[i], s[i + 1])
      BY <2>2, <3>1
    <3>3. Len(f[i + 1]) = Len(f[i]) + 1
      BY <2>1, <2>3, <3>2
    <3>4. ASSUME IsInjective(s) PROVE s[i + 1] \notin Before(i)
      <4>1. \A j \in 1 .. i : j \in DOMAIN s /\ i + 1 \in DOMAIN s /\ j # i + 1
        OBVIOUS
      <4> QED BY <3>4, <4>1 DEF IsInjective, Before
    <3> QED BY <2>1, <2>3, <2>4, <2>6, <3>2, <3>3, <3>4, AppendKeeps
  <2> QED BY <2>5, <2>6
<1>4. Nat \subseteq S
  <2> HIDE DEF S
  <2> QED BY <1>2, <1>3, Induction
<1>5. Len(s) \in Nat /\ DOMAIN s = 1 .. Len(s)
  OBVIOUS
<1>6. Kept(Len(s))
  <2> HIDE DEF Kept
  <2> QED BY <1>4, <1>5
<1>7. Range(s) = Before(Len(s))
  BY <1>5 DEF Range
<1> HIDE DEF Before
<1> QED BY <1>1, <1>6, <1>7

(* Dropping the n oldest elements leaves the others, each still once.        *)
LEMMA SubSeqKeeps ==
    ASSUME NEW A, NEW s \in Seq(A), NEW n \in 0 .. Len(s)
    PROVE  /\ SubSeq(s, n + 1, Len(s)) \in Seq(A)
           /\ Len(SubSeq(s, n + 1, Len(s))) = Len(s) - n
           /\ IsInjective(s) =>
                /\ IsInjective(SubSeq(s, n + 1, Len(s)))
                /\ \A x : x \in Range(SubSeq(s, n + 1, Len(s)))
                          <=> x \in Range(s) /\ \A i \in 1 .. n : s[i] # x
<1> DEFINE r == SubSeq(s, n + 1, Len(s))
<1>1. /\ Len(s) \in Nat /\ DOMAIN s = 1 .. Len(s)
      /\ \A i \in 1 .. Len(s) : s[i] \in A
  OBVIOUS
<1>2. /\ r \in Seq(A) /\ Len(r) = IF n + 1 <= Len(s) THEN Len(s) - (n + 1) + 1 ELSE 0
      /\ \A i \in 1 .. Len(s) - (n + 1) + 1 : r[i] = s[(n + 1) + i - 1]
  <2>1. \A i \in n + 1 .. Len(s) : s[i] \in A
    BY <1>1
  <2> QED BY <1>1, <2>1, SubSeqProperties
<1> HIDE DEF r
<1>3. DOMAIN r = 1 .. Len(r)
  BY <1>2
<1>4. Len(r) = Len(s) - n
  <2>1. n \in Nat /\ n <= Len(s)
    BY <1>1
  <2>2. CASE n + 1 <= Len(s)
    <3>1. Len(r) = Len(s) - (n + 1) + 1
      BY <1>2, <2>2
    <3>2. Len(s) - (n + 1) + 1 = Len(s) - n
      BY <1>1, <2>1
    <3> QED BY <3>1, <3>2
  <2>3. CASE n = Len(s)
    <3>1. ~(n + 1 <= Len(s)) /\ Len(s) - n = 0
      BY <2>1, <2>3
    <3> QED BY <1>2, <3>1
  <2>4. n + 1 <= Len(s) \/ n = Len(s)
    <3>1. Len(s) \in Nat
      OBVIOUS
    <3> QED BY <2>1, <3>1
  <2> QED BY <2>2, <2>3, <2>4
<1>5. \A i \in DOMAIN r : n + i \in DOMAIN s /\ r[i] = s[n + i]
  <2> SUFFICES ASSUME NEW i \in DOMAIN r PROVE n + i \in DOMAIN s /\ r[i] = s[n + i]
    OBVIOUS
  <2>1. i \in 1 .. Len(s) - n /\ Len(s) - (n + 1) + 1 = Len(s) - n /\ (n + 1) + i - 1 = n + i
    BY <1>1, <1>3, <1>4
  <2>2. n + i \in DOMAIN s
    BY <1>1, <2>1
  <2>3. r[i] = s[(n + 1) + i - 1]
    BY <1>2, <2>1
  <2> QED BY <2>1, <2>2, <2>3
<1>6. ASSUME IsInjective(s) PROVE IsInjective(r)
  <2> SUFFICES ASSUME NEW a \in DOMAIN r, NEW b \in DOMAIN r, r[a] = r[b] PROVE a = b
    BY DEF IsInjective
  <2>1. n + a = n + b
    BY <1>5, <1>6 DEF IsInjective
  <2> QED BY <1>1, <1>3, <1>4, <2>1
<1>7. ASSUME IsInjective(s), NEW x
      PROVE  x \in Range(r) <=> x \in Range(s) /\ \A i \in 1 .. n : s[i] # x
  <2>1. ASSUME x \in Range(r) PROVE x \in Range(s) /\ \A i \in 1 .. n : s[i] # x
    <3>1. PICK a \in DOMAIN r : x = r[a]
      BY <2>1 DEF Range
    <3>2. n + a \in DOMAIN s /\ x = s[n + a]
      BY <1>5, <3>1
    <3>3. ASSUME NEW i \in 1 .. n PROVE i \in DOMAIN s /\ i # n + a
      BY <1>1, <1>3, <1>4
    <3> QED BY <1>7, <3>2, <3>3 DEF Range, IsInjective
  <2>2. ASSUME x \in Range(s), \A i \in 1 .. n : s[i] # x PROVE x \in Range(r)
    <3>1. PICK a \in DOMAIN s : x = s[a]
      BY <2>2 DEF Range
    <3>2. a \notin 1 .. n
      BY <2>2, <3>1
    <3>3. a - n \in DOMAIN r /\ n + (a - n) = a
      BY <1>1, <1>3, <1>4, <3>1, <3>2
    <3>4. r[a - n] = x
      BY <1>5, <3>1, <3>3
    <3> QED BY <3>3, <3>4 DEF Range
  <2> QED BY <2>1, <2>2
<1> QED BY <1>2, <1>4, <1>6, <1>7 DEF r

(* Taking the element at i out closes the gap: what unlinking a node does to *)
(* the order of the list.                                                    *)
LEMMA RemoveAtKeeps ==
    ASSUME NEW A, NEW s \in Seq(A), NEW i \in 1 .. Len(s)
    PROVE  /\ RemoveAt(s, i) \in Seq(A)
           /\ Len(RemoveAt(s, i)) = Len(s) - 1
           /\ \A j \in 1 .. Len(s) - 1 :
                 RemoveAt(s, i)[j] = IF j < i THEN s[j] ELSE s[j + 1]
           /\ IsInjective(s) =>
                /\ IsInjective(RemoveAt(s, i))
                /\ Range(RemoveAt(s, i)) = Range(s) \ {s[i]}
<1> DEFINE a == SubSeq(s, 1, i - 1)
           b == SubSeq(s, i + 1, Len(s))
           r == RemoveAt(s, i)
<1>1. /\ Len(s) \in Nat /\ DOMAIN s = 1 .. Len(s) /\ i \in Nat /\ 1 <= i /\ i <= Len(s)
      /\ \A j \in 1 .. Len(s) : s[j] \in A
  OBVIOUS
<1>2. a \in Seq(A) /\ Len(a) = i - 1 /\ \A j \in 1 .. i - 1 : a[j] = s[j]
  <2>1. \A j \in 1 .. i - 1 : s[j] \in A /\ 1 + j - 1 = j
    BY <1>1
  <2>2. 1 \in Int /\ i - 1 \in Int /\ (i - 1) - 1 + 1 = i - 1
    BY <1>1
  <2>3. /\ a \in Seq(A) /\ Len(a) = IF 1 <= i - 1 THEN (i - 1) - 1 + 1 ELSE 0
        /\ \A j \in 1 .. (i - 1) - 1 + 1 : a[j] = s[1 + j - 1]
    BY <2>1, <2>2, SubSeqProperties
  <2>4. Len(a) = i - 1
    BY <1>1, <2>3
  <2> QED BY <2>1, <2>2, <2>3, <2>4
<1>3. b \in Seq(A) /\ Len(b) = Len(s) - i /\ \A j \in 1 .. Len(s) - i : b[j] = s[i + j]
  <2>1. \A j \in i + 1 .. Len(s) : s[j] \in A
    BY <1>1
  <2>2. i + 1 \in Int /\ Len(s) \in Int /\ Len(s) - (i + 1) + 1 = Len(s) - i
        /\ \A j \in 1 .. Len(s) - i : (i + 1) + j - 1 = i + j
    BY <1>1
  <2>3. /\ b \in Seq(A) /\ Len(b) = IF i + 1 <= Len(s) THEN Len(s) - (i + 1) + 1 ELSE 0
        /\ \A j \in 1 .. Len(s) - (i + 1) + 1 : b[j] = s[(i + 1) + j - 1]
    BY <2>1, <2>2, SubSeqProperties
  <2>4. Len(b) = Len(s) - i
    BY <1>1, <2>3
  <2> QED BY <2>2, <2>3, <2>4
<1>4. r = a \o b
  BY DEF RemoveAt
<1> HIDE DEF a, b, r
<1>5. /\ r \in Seq(A) /\ Len(r) = Len(a) + Len(b)
      /\ \A j \in 1 .. Len(a) + Len(b) : r[j] = IF j <= Len(a) THEN a[j] ELSE b[j - Len(a)]
  BY <1>2, <1>3, <1>4, ConcatProperties
<1>6. Len(r) = Len(s) - 1 /\ DOMAIN r = 1 .. Len(s) - 1
  BY <1>1, <1>2, <1>3, <1>5
<1>7. ASSUME NEW j \in 1 .. Len(s) - 1
      PROVE  r[j] = IF j < i THEN s[j] ELSE s[j + 1]
  <2>1. j \in 1 .. Len(a) + Len(b)
    BY <1>1, <1>2, <1>3
  <2>2. CASE j < i
    <3>1. j \in 1 .. i - 1 /\ j <= Len(a)
      BY <1>1, <1>2, <2>2
    <3> QED BY <1>2, <1>5, <2>1, <2>2, <3>1
  <2>3. CASE ~(j < i)
    <3>1. j - Len(a) \in 1 .. Len(s) - i /\ ~(j <= Len(a)) /\ i + (j - Len(a)) = j + 1
      BY <1>1, <1>2, <2>3
    <3> QED BY <1>3, <1>5, <2>1, <2>3, <3>1
  <2> QED BY <2>2, <2>3
<1>8. ASSUME IsInjective(s) PROVE IsInjective(r) /\ Range(r) = Range(s) \ {s[i]}
  <2> DEFINE From(j) == IF j < i THEN j ELSE j + 1
  <2>1. \A j \in DOMAIN r : From(j) \in DOMAIN s /\ From(j) # i /\ r[j] = s[From(j)]
    BY <1>1, <1>6, <1>7
  <2>2. \A j, k \in DOMAIN r : From(j) = From(k) => j = k
    BY <1>1, <1>6
  <2>3. ASSUME NEW j \in DOMAIN s, j # i PROVE \E k \in DOMAIN r : From(k) = j
    <3>1. CASE j < i
      BY <1>1, <1>6, <3>1
    <3>2. CASE j > i
      <4>1. j - 1 \in DOMAIN r /\ From(j - 1) = j
        BY <1>1, <1>6, <3>2
      <4> QED BY <4>1
    <3> QED BY <1>1, <2>3, <3>1, <3>2
  <2> HIDE DEF From
  <2>4. i \in DOMAIN s
    BY <1>1
  <2> QED BY <1>8, <2>1, <2>2, <2>3, <2>4 DEF IsInjective, Range
<1> QED BY <1>5, <1>6, <1>7, <1>8 DEF r

(* A queue that repeats no element is as long as its elements are many.      *)
LEMMA RangeCounts ==
    ASSUME NEW A, NEW s \in Seq(A), IsInjective(s)
    PROVE  IsFiniteSet(Range(s)) /\ Cardinality(Range(s)) = Len(s)
<1>1. Len(s) \in Nat /\ DOMAIN s = 1 .. Len(s)
  OBVIOUS
<1>2. s \in Bijection(1 .. Len(s), Range(s))
  BY <1>1 DEF Bijection, Injection, Surjection, IsInjective, Range
<1>3. ExistsBijection(1 .. Len(s), Range(s))
  BY <1>2 DEF ExistsBijection
<1> QED BY <1>1, <1>3, FS_CountingElements, FS_Interval, FS_Bijection

-----------------------------------------------------------------------------
(* Doubly-linked lists and the order they keep.                              *)

(* The list l, with head, tail and for each node prev, toward the head, and  *)
(* next, links the nodes of q from the tail to the head; none is no node.    *)
Follows(l, q, none) ==
    /\ IsInjective(q)
    /\ IF q = <<>> THEN l.head = none /\ l.tail = none
       ELSE l.tail = q[1] /\ l.head = q[Len(q)]
    /\ \A i \in 1 .. Len(q) :
        /\ l.prev[q[i]] = IF i = Len(q) THEN none ELSE q[i + 1]
        /\ l.next[q[i]] = IF i = 1 THEN none ELSE q[i - 1]

(* The neighbours of a place in a sequence of length n.                    *)
LEMMA Neighbours ==
    ASSUME NEW n \in Nat
    PROVE  /\ n # 0 => 1 \in 1 .. n /\ n \in 1 .. n
           /\ \A i \in 1 .. n : /\ i # n => i + 1 \in 1 .. n
                                /\ i # 1 => i - 1 \in 1 .. n
                                /\ i \in 1 .. n + 1 /\ i # n + 1 /\ n # 0
           /\ \A i \in 1 .. n + 1 : i = n + 1 \/ i \in 1 .. n
           /\ (n + 1) - 1 = n /\ n + 1 # 0 /\ n + 1 \in 1 .. n + 1
           /\ n + 1 = 1 <=> n = 0
  OBVIOUS

(* The one place of an element.                                            *)
LEMMA OnePlace ==
    ASSUME NEW A, NEW s \in Seq(A), IsInjective(s), NEW i \in 1 .. Len(s)
    PROVE  (CHOOSE j \in DOMAIN s : s[j] = s[i]) = i
<1>1. DOMAIN s = 1 .. Len(s)
  OBVIOUS
<1>2. \A j \in DOMAIN s : s[j] = s[i] => j = i
  BY <1>1 DEF IsInjective
<1> QED BY <1>1, <1>2

LEMMA FirstRemoved ==
    ASSUME NEW A, NEW s \in Seq(A), 1 \in 1 .. Len(s)
    PROVE  RemoveAt(s, 1) = Tail(s)
<1>1. /\ RemoveAt(s, 1) \in Seq(A) /\ Len(RemoveAt(s, 1)) = Len(s) - 1
      /\ \A j \in 1 .. Len(s) - 1 : RemoveAt(s, 1)[j] = IF j < 1 THEN s[j] ELSE s[j + 1]
  BY RemoveAtKeeps
<1>2. s # <<>> /\ Tail(s) \in Seq(A) /\ Len(Tail(s)) = Len(s) - 1
  OBVIOUS
<1>3. \A j \in 1 .. Len(s) - 1 : Tail(s)[j] = s[j + 1] /\ ~(j < 1)
  BY <1>2
<1> QED BY <1>1, <1>2, <1>3, SeqEqual

(* What the pointers of a list say of the nodes of its sequence.           *)
LEMMA FollowsFacts ==
    ASSUME NEW A, NEW none, none \notin A, NEW q \in Seq(A), NEW l, Follows(l, q, none)
    PROVE  /\ Len(q) \in Nat /\ DOMAIN q = 1 .. Len(q)
           /\ \A i \in 1 .. Len(q) : q[i] \in A /\ q[i] \in Range(q) /\ q[i] # none
           /\ \A i, j \in 1 .. Len(q) : q[i] = q[j] => i = j
           /\ \A i \in 1 .. Len(q) :
                /\ (l.prev[q[i]] = none) <=> (i = Len(q))
                /\ (l.next[q[i]] = none) <=> (i = 1)
           /\ (l.head = none) <=> (q = <<>>)
           /\ (l.tail = none) <=> (q = <<>>)
           /\ q = <<>> <=> Len(q) = 0
           /\ \A i \in 1 .. Len(q) :
                /\ i # Len(q) => i + 1 \in 1 .. Len(q)
                /\ i # 1 => i - 1 \in 1 .. Len(q)
<1>1. Len(q) \in Nat /\ DOMAIN q = 1 .. Len(q) /\ (q = <<>> <=> Len(q) = 0)
  OBVIOUS
<1>2. \A i \in 1 .. Len(q) : q[i] \in A
  OBVIOUS
<1>3. \A i \in 1 .. Len(q) : q[i] \in Range(q)
  BY <1>1 DEF Range
<1>4. \A i \in 1 .. Len(q) : q[i] # none
  BY <1>2
<1>5. \A i, j \in 1 .. Len(q) : q[i] = q[j] => i = j
  BY <1>1 DEF Follows, IsInjective
<1>6. \A i \in 1 .. Len(q) :
        /\ i # Len(q) => i + 1 \in 1 .. Len(q)
        /\ i # 1 => i - 1 \in 1 .. Len(q)
  BY <1>1, Neighbours
<1>7. ASSUME NEW i \in 1 .. Len(q)
      PROVE  /\ (l.prev[q[i]] = none) <=> (i = Len(q))
             /\ (l.next[q[i]] = none) <=> (i = 1)
  <2>1. /\ l.prev[q[i]] = IF i = Len(q) THEN none ELSE q[i + 1]
        /\ l.next[q[i]] = IF i = 1 THEN none ELSE q[i - 1]
    BY DEF Follows
  <2> QED BY <1>4, <1>6, <2>1
<1>8. ((l.head = none) <=> (q = <<>>)) /\ ((l.tail = none) <=> (q = <<>>))
  <2>1. IF q = <<>> THEN l.head = none /\ l.tail = none
        ELSE l.tail = q[1] /\ l.head = q[Len(q)]
    BY DEF Follows
  <2>2. q # <<>> => 1 \in 1 .. Len(q) /\ Len(q) \in 1 .. Len(q)
    BY <1>1, Neighbours
  <2> QED BY <1>4, <2>1, <2>2
<1> QED
  BY <1>1, <1>2, <1>3, <1>4, <1>5, <1>6, <1>7, <1>8

(* A node linked at the head is the last in the order.                       *)
LEMMA FollowsAtHead ==
    ASSUME NEW A, NEW none, none \notin A, NEW q \in Seq(A), NEW l, Follows(l, q, none),
           NEW n \in A, n \notin Range(q), NEW m,
           m.head = n, m.tail = IF l.tail = none THEN n ELSE l.tail,
           \A x \in A : /\ m.prev[x] = IF x = l.head THEN n
                                       ELSE IF x = n THEN none ELSE l.prev[x]
                        /\ m.next[x] = IF x = n THEN l.head ELSE l.next[x]
    PROVE  Follows(m, Append(q, n), none)
<1> DEFINE r == Append(q, n)
<1>2. /\ m.head = n
      /\ m.tail = IF l.tail = none THEN n ELSE l.tail
      /\ \A x \in A : /\ m.prev[x] = IF x = l.head THEN n
                                     ELSE IF x = n THEN none ELSE l.prev[x]
                      /\ m.next[x] = IF x = n THEN l.head ELSE l.next[x]
  OBVIOUS
<1>3. /\ Len(q) \in Nat /\ DOMAIN q = 1 .. Len(q)
      /\ \A i \in 1 .. Len(q) : q[i] \in A /\ q[i] # none /\ q[i] # n
      /\ \A i, j \in 1 .. Len(q) : q[i] = q[j] => i = j
      /\ q = <<>> <=> Len(q) = 0
      /\ \A i \in 1 .. Len(q) : /\ i # Len(q) => i + 1 \in 1 .. Len(q)
                                /\ i # 1 => i - 1 \in 1 .. Len(q)
  BY FollowsFacts
<1>4. q \in Seq(A) /\ IsInjective(q) /\ n # none
  BY DEF Follows
<1>5. r \in Seq(A) /\ IsInjective(r)
  BY <1>4, AppendKeeps
<1>6. /\ Len(r) = Len(q) + 1 /\ r[Len(q) + 1] = n
      /\ \A i \in 1 .. Len(q) : r[i] = q[i]
  BY <1>4
<1>7. IF q = <<>> THEN l.head = none /\ l.tail = none
      ELSE l.tail = q[1] /\ l.head = q[Len(q)]
  BY DEF Follows
<1>8. \A i \in 1 .. Len(q) :
        /\ l.prev[q[i]] = IF i = Len(q) THEN none ELSE q[i + 1]
        /\ l.next[q[i]] = IF i = 1 THEN none ELSE q[i - 1]
  BY DEF Follows
<1> HIDE DEF r
<1>9. m.tail = r[1] /\ m.head = r[Len(r)] /\ r # <<>>
  <2>1. CASE q = <<>>
    BY <1>2, <1>3, <1>4, <1>6, <1>7, <2>1
  <2>2. CASE q # <<>>
    <3>1. 1 \in 1 .. Len(q) /\ Len(q) \in 1 .. Len(q)
      BY <1>3, <2>2, Neighbours
    <3>2. r[1] = q[1] /\ l.tail = q[1]
      BY <1>6, <1>7, <2>2, <3>1
    <3>3. l.tail # none
      BY <1>3, <3>1, <3>2
    <3>4. Len(r) # 0
      <4>1. Len(q) + 1 # 0
        BY <1>3, Neighbours
      <4> QED BY ONLY <1>6, <4>1
    <3> QED BY <1>2, <1>6, <3>2, <3>3, <3>4
  <2> QED BY <2>1, <2>2
<1>10. ASSUME NEW i \in 1 .. Len(r)
       PROVE  /\ m.prev[r[i]] = IF i = Len(r) THEN none ELSE r[i + 1]
              /\ m.next[r[i]] = IF i = 1 THEN none ELSE r[i - 1]
  <2>1. CASE i = Len(q) + 1
    <3>1. r[i] = n /\ n # l.head
      <4>1. q # <<>> => q[Len(q)] # n
        BY <1>3, Neighbours
      <4> QED BY <1>4, <1>6, <1>7, <2>1, <4>1
    <3>2. m.prev[n] = none /\ m.next[n] = l.head
      BY <1>2, <3>1
    <3>3. l.head = IF i = 1 THEN none ELSE r[i - 1]
      <4>1. i = 1 <=> q = <<>>
        BY <1>3, <2>1, Neighbours
      <4>2. q # <<>> => r[i - 1] = q[Len(q)]
        BY <1>3, <1>6, <2>1, Neighbours
      <4> QED BY <1>7, <4>1, <4>2
    <3> QED BY <1>6, <2>1, <3>1, <3>2, <3>3
  <2>2. CASE i \in 1 .. Len(q)
    <3>1. r[i] = q[i] /\ q[i] \in A /\ q[i] # n /\ q # <<>> /\ l.head = q[Len(q)]
      <4>1. Len(q) # 0
        BY <1>3, <2>2, Neighbours
      <4> QED BY <1>3, <1>6, <1>7, <2>2, <4>1
    <3>2. i # Len(r) /\ Len(q) \in 1 .. Len(q)
      <4>1. Len(q) # 0
        BY <1>3, <2>2, Neighbours
      <4>2. i # Len(q) + 1 /\ Len(q) \in 1 .. Len(q)
        BY <1>3, <2>2, <4>1, Neighbours
      <4> QED BY <1>6, <4>2
    <3>3. m.next[r[i]] = IF i = 1 THEN none ELSE r[i - 1]
      <4>1. m.next[q[i]] = IF i = 1 THEN none ELSE q[i - 1]
        BY <1>2, <1>8, <2>2, <3>1
      <4>2. i # 1 => r[i - 1] = q[i - 1]
        BY <1>3, <1>6, <2>2
      <4> QED BY <3>1, <4>1, <4>2
    <3>4. CASE i = Len(q)
      BY <1>2, <1>6, <3>1, <3>2, <3>3, <3>4
    <3>5. CASE i # Len(q)
      <4>1. q[i] # l.head
        BY <1>3, <2>2, <3>1, <3>2, <3>5
      <4>1a. r[i + 1] = q[i + 1]
        BY <1>3, <1>6, <2>2, <3>5
      <4>2. m.prev[q[i]] = q[i + 1]
        BY <1>2, <1>8, <2>2, <3>1, <3>5, <4>1
      <4> QED BY <3>1, <3>2, <3>3, <4>1a, <4>2
    <3> QED BY <3>4, <3>5
  <2> QED BY <1>3, <1>6, <2>1, <2>2, Neighbours
<1>11. Follows(m, r, none)
  BY <1>5, <1>9, <1>10 DEF Follows
<1> QED BY <1>11 DEF r

(* Unlinking a node closes the gap, wherever in the list it was.             *)
LEMMA FollowsUnlinked ==
    ASSUME NEW A, NEW none, none \notin A, NEW q \in Seq(A), NEW l, Follows(l, q, none),
           NEW i \in 1 .. Len(q), NEW n, n = q[i], NEW m,
           m.head = IF l.prev[n] = none THEN l.next[n] ELSE l.head,
           m.tail = IF l.next[n] = none THEN l.prev[n] ELSE l.tail,
           \A y \in A : y # n =>
              /\ m.prev[y] = IF y = l.next[n] THEN l.prev[n] ELSE l.prev[y]
              /\ m.next[y] = IF y = l.prev[n] THEN l.next[n] ELSE l.next[y]
    PROVE  Follows(m, RemoveAt(q, i), none)
<1> DEFINE r == RemoveAt(q, i)
           N == Len(q)
<1>1. N \in Nat /\ i \in 1 .. N /\ N - 1 \in Nat
  BY FollowsFacts
<1>2. /\ \A j \in 1 .. N : q[j] \in A /\ q[j] # none
      /\ \A j, k \in 1 .. N : q[j] = q[k] => j = k
  BY FollowsFacts
<1>3. \A j \in 1 .. N :
        /\ l.prev[q[j]] = IF j = N THEN none ELSE q[j + 1]
        /\ l.next[q[j]] = IF j = 1 THEN none ELSE q[j - 1]
  BY DEF Follows
<1>4. l.tail = q[1] /\ l.head = q[N]
  <2>1. q # <<>>
    OBVIOUS
  <2> QED BY <2>1 DEF Follows
<1>5. n \in A /\ n # none
  BY <1>1, <1>2
<1> DEFINE p == l.prev[n]
           x == l.next[n]
<1>7. p = (IF i = N THEN none ELSE q[i + 1]) /\ x = (IF i = 1 THEN none ELSE q[i - 1])
  BY <1>1, <1>3
<1>8. /\ (p = none) <=> (i = N)
      /\ (x = none) <=> (i = 1)
  BY <1>1, FollowsFacts
<1>9. /\ m.head = IF p = none THEN x ELSE l.head
      /\ m.tail = IF x = none THEN p ELSE l.tail
      /\ \A y \in A : y # n =>
            /\ m.prev[y] = IF y = x THEN p ELSE l.prev[y]
            /\ m.next[y] = IF y = p THEN x ELSE l.next[y]
  OBVIOUS
<1>10. /\ r \in Seq(A) /\ IsInjective(r) /\ Len(r) = N - 1
       /\ \A j \in 1 .. N - 1 : r[j] = IF j < i THEN q[j] ELSE q[j + 1]
  BY RemoveAtKeeps DEF Follows
<1> HIDE DEF r, p, x, N
<1>11. IF r = <<>> THEN m.head = none /\ m.tail = none
       ELSE m.tail = r[1] /\ m.head = r[Len(r)]
  <2>1. CASE N = 1
    <3>1. i = N /\ i = 1 /\ r = <<>>
      BY <1>1, <1>10, <2>1
    <3> QED BY <1>8, <1>9, <3>1
  <2>2. CASE N # 1
    <3>1. r # <<>> /\ 1 \in 1 .. N - 1 /\ N - 1 \in 1 .. N - 1
      BY <1>1, <1>10, <2>2
    <3>2. m.tail = r[1]
      BY <1>1, <1>4, <1>7, <1>8, <1>9, <1>10, <2>2, <3>1
    <3>3. m.head = r[N - 1]
      BY <1>1, <1>4, <1>7, <1>8, <1>9, <1>10, <2>2, <3>1
    <3> QED BY <1>10, <3>1, <3>2, <3>3
  <2> QED BY <2>1, <2>2
<1>12. ASSUME NEW j \in 1 .. N - 1
       PROVE  m.prev[r[j]] = IF j = N - 1 THEN none ELSE r[j + 1]
  <2>1. CASE j < i /\ j # i - 1
    <3>1. j \in 1 .. N /\ i - 1 \in 1 .. N /\ j # N /\ j # N - 1 /\ j # i
          /\ j + 1 \in 1 .. N - 1 /\ j + 1 < i
      BY <1>1, <2>1
    <3>2. r[j] = q[j] /\ r[j + 1] = q[j + 1]
      BY <1>10, <2>1, <3>1
    <3>3. q[j] # n /\ q[j] # x
      BY <1>1, <1>2, <1>7, <2>1, <3>1
    <3>4. m.prev[q[j]] = q[j + 1]
      BY <1>2, <1>3, <1>9, <3>1, <3>3
    <3> QED BY <3>1, <3>2, <3>4
  <2>2. CASE j = i - 1
    <3>1. j \in 1 .. N /\ i # 1 /\ j # i /\ j < i /\ (i = N <=> j = N - 1)
          /\ (j # N - 1 => j + 1 \in 1 .. N - 1 /\ ~(j + 1 < i) /\ (j + 1) + 1 = i + 1)
      BY <1>1, <2>2
    <3>2. r[j] = q[j] /\ (j # N - 1 => r[j + 1] = q[i + 1])
      BY <1>10, <3>1
    <3>3. q[j] # n /\ q[j] = x
      BY <1>1, <1>2, <1>7, <2>2, <3>1
    <3>4. m.prev[q[j]] = p
      BY <1>2, <1>9, <3>1, <3>3
    <3> QED BY <1>7, <3>1, <3>2, <3>4
  <2>3. CASE ~(j < i)
    <3>1. j + 1 \in 1 .. N /\ (i # 1 => i - 1 \in 1 .. N) /\ j + 1 # i - 1 /\ j + 1 # i
          /\ (j + 1 = N <=> j = N - 1)
          /\ (j # N - 1 => j + 1 \in 1 .. N - 1 /\ ~(j + 1 < i))
      BY <1>1, <2>3
    <3>2. r[j] = q[j + 1] /\ (j # N - 1 => r[j + 1] = q[(j + 1) + 1])
      BY <1>10, <2>3, <3>1
    <3>3. q[j + 1] # n /\ q[j + 1] # x
      BY <1>1, <1>2, <1>7, <3>1
    <3>4. m.prev[q[j + 1]] = IF j + 1 = N THEN none ELSE q[(j + 1) + 1]
      BY <1>2, <1>3, <1>9, <3>1, <3>3
    <3> QED BY <3>1, <3>2, <3>4
  <2> QED BY <2>1, <2>2, <2>3
<1>13. ASSUME NEW j \in 1 .. N - 1
       PROVE  m.next[r[j]] = IF j = 1 THEN none ELSE r[j - 1]
  <2>1. CASE j < i
    <3>1. j \in 1 .. N /\ (i # N => i + 1 \in 1 .. N) /\ j # i + 1 /\ j # i
          /\ (j # 1 => j - 1 \in 1 .. N - 1 /\ j - 1 < i)
      BY <1>1, <2>1
    <3>2. r[j] = q[j] /\ (j # 1 => r[j - 1] = q[j - 1])
      BY <1>10, <2>1, <3>1
    <3>3. q[j] # n /\ q[j] # p
      BY <1>1, <1>2, <1>7, <3>1
    <3>4. m.next[q[j]] = IF j = 1 THEN none ELSE q[j - 1]
      BY <1>2, <1>3, <1>9, <3>1, <3>3
    <3> QED BY <3>2, <3>4
  <2>2. CASE j = i
    <3>1. i # N /\ i + 1 \in 1 .. N /\ i + 1 # i /\ ~(j < i)
          /\ (j # 1 => j - 1 \in 1 .. N - 1 /\ j - 1 < i)
      BY <1>1, <2>2
    <3>2. r[j] = q[i + 1] /\ (j # 1 => r[j - 1] = q[i - 1])
      BY <1>10, <2>2, <3>1
    <3>3. q[i + 1] # n /\ q[i + 1] = p
      BY <1>1, <1>2, <1>7, <3>1
    <3>4. m.next[q[i + 1]] = x
      BY <1>2, <1>9, <3>1, <3>3
    <3> QED BY <1>7, <2>2, <3>2, <3>4
  <2>3. CASE j > i
    <3>1. j + 1 \in 1 .. N /\ (i # N => i + 1 \in 1 .. N) /\ j + 1 # i + 1 /\ j + 1 # i
          /\ j # 1 /\ j + 1 # 1 /\ j - 1 \in 1 .. N - 1 /\ ~(j - 1 < i) /\ ~(j < i)
          /\ (j + 1) - 1 = j /\ (j - 1) + 1 = j
      BY <1>1, <2>3
    <3>2. r[j] = q[j + 1] /\ r[j - 1] = q[j]
      <4>1. r[j - 1] = q[(j - 1) + 1]
        BY <1>10, <3>1
      <4> QED BY <1>10, <3>1, <4>1
    <3>3. q[j + 1] # n /\ q[j + 1] # p
      BY <1>1, <1>2, <1>7, <3>1
    <3>4. m.next[q[j + 1]] = q[j]
      <4>1. l.next[q[j + 1]] = q[(j + 1) - 1]
        BY <1>3, <3>1
      <4> QED BY <1>2, <1>9, <3>1, <3>3, <4>1
    <3> QED BY <3>1, <3>2, <3>4
  <2>4. i \in Int /\ j \in Int
    BY <1>1
  <2> QED BY <2>1, <2>2, <2>3, <2>4
<1>14. Follows(m, r, none)
  <2> HIDE <1>1
  <2> QED BY <1>10, <1>11, <1>12, <1>13 DEF Follows
<1> QED BY <1>14 DEF r

(* Following prev from the tail visits the order of the list; that is the    *)
(* only function that does.                                                  *)
LEMMA FollowsOnly ==
    ASSUME NEW A, NEW none, none \notin A, NEW q \in Seq(A), NEW l, Follows(l, q, none),
           NEW t, t = l.tail, NEW p, p = l.prev
    PROVE  \A f : f = [i \in 1 .. Len(q) |->
                          IF i = 1 THEN t
                          ELSE IF f[i - 1] = none THEN none ELSE p[f[i - 1]]]
                  <=> f = q
<1> DEFINE N == Len(q)
           Step(f, i) == IF i = 1 THEN t
                         ELSE IF f[i - 1] = none THEN none ELSE p[f[i - 1]]
           Good(f) == f = [i \in 1 .. N |-> Step(f, i)]
<1>1. /\ N \in Nat /\ DOMAIN q = 1 .. N
      /\ \A i \in 1 .. N : q[i] \in A /\ q[i] # none
      /\ \A i \in 1 .. N : i # 1 => i - 1 \in 1 .. N /\ i - 1 # N /\ (i - 1) + 1 = i
  <2>1. N \in Nat /\ DOMAIN q = 1 .. N /\ \A i \in 1 .. N : q[i] \in A /\ q[i] # none
    BY FollowsFacts
  <2> QED BY <2>1
<1>2. ASSUME NEW i \in 1 .. N
      PROVE  q[i] = IF i = 1 THEN t ELSE p[q[i - 1]]
  <2>1. CASE i = 1
    <3>1. q # <<>>
      BY <1>1, <2>1
    <3> QED BY <2>1, <3>1 DEF Follows
  <2>2. CASE i # 1
    <3>1. p[q[i - 1]] = q[(i - 1) + 1]
      BY <1>1, <2>2 DEF Follows
    <3> QED BY <1>1, <2>2, <3>1
  <2> QED BY <2>1, <2>2
<1> HIDE DEF N
<1>4. Good(q)
  <2>1. \A i \in 1 .. N : q[i] = Step(q, i)
    BY <1>1, <1>2
  <2>2. q = [i \in 1 .. N |-> q[i]]
    BY <1>1 DEF Follows
  <2> HIDE DEF Step
  <2> QED BY <2>1, <2>2
<1> SUFFICES ASSUME NEW k, Good(k) PROVE k = q
  BY <1>4 DEF N
<1> DEFINE S == {i \in Nat : i \in 1 .. N => k[i] = q[i]}
<1>6. \A i \in 1 .. N : k[i] = Step(k, i)
  <2> HIDE DEF Step
  <2> QED OBVIOUS
<1>7. 0 \in S
  BY <1>1
<1>8. ASSUME NEW i \in Nat, i \in S PROVE i + 1 \in S
  <2> SUFFICES ASSUME i + 1 \in 1 .. N PROVE k[i + 1] = q[i + 1]
    OBVIOUS
  <2>1. k[i + 1] = Step(k, i + 1)
    BY <1>6
  <2>2. CASE i + 1 = 1
    BY <1>2, <2>1, <2>2
  <2>3. CASE i + 1 # 1
    <3>1. i \in 1 .. N /\ (i + 1) - 1 = i
      BY <1>1, <2>3
    <3>2. k[i] = q[i]
      BY <1>8, <3>1
    <3>3. k[i + 1] = p[q[i]]
      BY <1>1, <2>1, <2>3, <3>1, <3>2
    <3> QED BY <1>2, <2>3, <3>1, <3>3
  <2> QED BY <2>2, <2>3
<1>9. \A i \in 1 .. N : k[i] = q[i]
  <2>1. Nat \subseteq S
    <3> HIDE DEF S
    <3> QED BY <1>7, <1>8, Induction
  <2>2. 1 .. N \subseteq Nat
    BY <1>1
  <2> QED BY <2>1, <2>2
<1>10. k = [i \in 1 .. N |-> k[i]] /\ q = [i \in 1 .. N |-> q[i]]
  <2>1. k = [i \in 1 .. N |-> Step(k, i)]
    OBVIOUS
  <2> HIDE DEF Step
  <2> QED BY <1>1, <1>6, <2>1 DEF Follows
<1> QED BY <1>9, <1>10

(* The keys of a list's nodes, in its order: the order changes as the list    *)
(* does, wherever the keys are kept.                                         *)
Named(q, f, ks) == Len(ks) = Len(q) /\ \A i \in 1 .. Len(q) : ks[i] = f[q[i]]

LEMMA NamedOnly ==
    ASSUME NEW A, NEW q \in Seq(A), NEW B, NEW f,
           NEW ks \in Seq(B), Named(q, f, ks), NEW ls \in Seq(B), Named(q, f, ls)
    PROVE  ks = ls
<1>1. Len(q) \in Nat /\ Len(ks) = Len(ls) /\ \A i \in 1 .. Len(ks) : ks[i] = ls[i]
  BY DEF Named
<1> QED BY <1>1, SeqEqual

LEMMA NamedAppend ==
    ASSUME NEW A, NEW q \in Seq(A), NEW B, NEW f, NEW ks \in Seq(B), Named(q, f, ks),
           NEW n \in A, NEW k \in B, NEW g, g[n] = k, \A m \in Range(q) : g[m] = f[m]
    PROVE  Append(ks, k) \in Seq(B) /\ Named(Append(q, n), g, Append(ks, k))
<1> DEFINE N == Len(q)
           r == Append(q, n)
           t == Append(ks, k)
<1>1. N \in Nat /\ DOMAIN q = 1 .. N /\ Len(ks) = N /\ \A i \in 1 .. N : ks[i] = f[q[i]]
  BY DEF Named
<1>2. Len(r) = N + 1 /\ r[N + 1] = n /\ \A i \in 1 .. N : r[i] = q[i]
  OBVIOUS
<1>3. t \in Seq(B) /\ Len(t) = N + 1 /\ t[N + 1] = k /\ \A i \in 1 .. N : t[i] = ks[i]
  BY <1>1
<1> HIDE DEF N, r, t
<1>4. \A i \in 1 .. N : q[i] \in Range(q)
  BY <1>1 DEF Range
<1>5. \A i \in 1 .. N + 1 : t[i] = g[r[i]]
  BY <1>1, <1>2, <1>3, <1>4
<1>6. Named(r, g, t)
  BY <1>2, <1>3, <1>5 DEF Named
<1> QED BY <1>3, <1>6 DEF r, t

LEMMA NamedRemoveAt ==
    ASSUME NEW A, NEW q \in Seq(A), NEW B, NEW f, NEW ks \in Seq(B), Named(q, f, ks),
           NEW i \in 1 .. Len(q), NEW g, \A m \in Range(RemoveAt(q, i)) : g[m] = f[m]
    PROVE  RemoveAt(ks, i) \in Seq(B) /\ Named(RemoveAt(q, i), g, RemoveAt(ks, i))
<1> DEFINE N == Len(q)
           r == RemoveAt(q, i)
           t == RemoveAt(ks, i)
<1>1. N \in Nat /\ i \in 1 .. N /\ Len(ks) = N /\ \A j \in 1 .. N : ks[j] = f[q[j]]
  BY DEF Named
<1>2. /\ r \in Seq(A) /\ Len(r) = N - 1
      /\ \A j \in 1 .. N - 1 : r[j] = IF j < i THEN q[j] ELSE q[j + 1]
  BY RemoveAtKeeps
<1>3. /\ t \in Seq(B) /\ Len(t) = N - 1
      /\ \A j \in 1 .. N - 1 : t[j] = IF j < i THEN ks[j] ELSE ks[j + 1]
  BY <1>1, RemoveAtKeeps
<1>4. DOMAIN r = 1 .. N - 1 /\ N - 1 \in Int
  BY <1>1, <1>2
<1>5. ASSUME NEW j \in 1 .. N - 1 PROVE t[j] = g[r[j]]
  <2> DEFINE from == IF j < i THEN j ELSE j + 1
  <2>1. from \in 1 .. N /\ r[j] = q[from] /\ t[j] = ks[from]
    BY <1>1, <1>2, <1>3
  <2>2. g[r[j]] = f[r[j]]
    BY <1>4 DEF Range
  <2> HIDE DEF from, r, t, N
  <2> QED BY <1>1, <2>1, <2>2
<1> HIDE DEF r, t, N
<1>6. Named(r, g, t)
  BY <1>2, <1>3, <1>5 DEF Named
<1> QED BY <1>3, <1>6 DEF r, t

-----------------------------------------------------------------------------
(* The ghost queue.                                                          *)

(* What is dropped before a push is what is too much, and no more than there *)
(* is.                                                                       *)
LEMMA OverfullRange ==
    ASSUME NEW A, NEW g, g.queue \in Seq(A), NEW capacity \in Nat
    PROVE  /\ Overfull(g, capacity) \in 0 .. Len(g.queue)
           /\ capacity = 0 => Overfull(g, capacity) = Len(g.queue)
           /\ capacity > 0 => Len(g.queue) - Overfull(g, capacity) <= capacity - 1
<1>1. Len(g.queue) \in Nat
  OBVIOUS
<1> QED BY <1>1 DEF Overfull

(* A new ghost queue and a cleared one are sound.                            *)
LEMMA GhostStartsSound ==
    ASSUME NEW capacity \in Nat, NEW A
    PROVE  NoGhosts.queue \in Seq(A) /\ NoGhosts.keys = {} /\ GhostSound(NoGhosts, capacity)
BY DEF NoGhosts, GhostSound, Range, IsInjective

(* GhostQueue::insert keeps set and queue the same keys, each once, within   *)
(* the capacity, whatever the key and the capacity.                          *)
LEMMA GhostInsertSound ==
    ASSUME NEW A, NEW g, NEW k \in A, NEW capacity \in Nat,
           g.queue \in Seq(A), g.keys \in SUBSET A, GhostSound(g, capacity)
    PROVE  LET r == GhostInsert(g, k, capacity)
           IN  r.queue \in Seq(A) /\ r.keys \in SUBSET A /\ GhostSound(r, capacity)
<1>1. CASE GhostContains(g, k)
  BY <1>1 DEF GhostInsert
<1>2. CASE ~GhostContains(g, k)
  <2> DEFINE n == Overfull(g, capacity)
             rest == SubSeq(g.queue, n + 1, Len(g.queue))
             dropped == {g.queue[i] : i \in 1 .. n}
             r == GhostInsert(g, k, capacity)
  <2>1. /\ n \in 0 .. Len(g.queue) /\ Len(g.queue) \in Nat
        /\ capacity = 0 => n = Len(g.queue)
        /\ capacity > 0 => Len(g.queue) - n <= capacity - 1
    BY OverfullRange
  <2>2. r.keys = (g.keys \ dropped) \cup {k} /\ r.queue = Append(rest, k)
    BY <1>2 DEF GhostInsert
  <2>3. /\ g.keys = Range(g.queue) /\ IsInjective(g.queue) /\ k \notin g.keys
    BY <1>2 DEF GhostSound, GhostContains
  <2> HIDE DEF n, r
  <2>4. /\ rest \in Seq(A) /\ Len(rest) = Len(g.queue) - n /\ IsInjective(rest)
        /\ \A x : x \in Range(rest) <=>
                  x \in Range(g.queue) /\ \A i \in 1 .. n : g.queue[i] # x
    BY <2>1, <2>3, SubSeqKeeps
  <2>4a. Range(rest) = Range(g.queue) \ dropped
    BY <2>4
  <2> HIDE DEF rest, dropped
  <2>5. k \notin Range(rest)
    BY <2>3, <2>4a
  <2>6. /\ r.queue \in Seq(A) /\ IsInjective(r.queue) /\ Range(r.queue) = Range(rest) \cup {k}
    BY <2>2, <2>4, <2>5, AppendKeeps
  <2>7. Len(r.queue) = Len(rest) + 1
    BY <2>2, <2>4
  <2>8. r.keys = Range(r.queue) /\ r.keys \in SUBSET A
    BY <2>2, <2>3, <2>4a, <2>6
  <2>9. Len(r.queue) <= IF capacity = 0 THEN 1 ELSE capacity
    BY <2>1, <2>4, <2>7
  <2>10. GhostSound(r, capacity)
    BY <2>6, <2>8, <2>9 DEF GhostSound
  <2> QED BY <2>6, <2>8, <2>10 DEF r
<1> QED BY <1>1, <1>2

(* GhostQueue::remove takes a key out of both, and keeps the rest as it was. *)
LEMMA GhostRemoveSound ==
    ASSUME NEW A, NEW g, NEW k, NEW capacity \in Nat,
           g.queue \in Seq(A), g.keys \in SUBSET A, GhostSound(g, capacity)
    PROVE  LET r == GhostRemove(g, k)
           IN  r.queue \in Seq(A) /\ r.keys \in SUBSET A /\ GhostSound(r, capacity)
<1>1. CASE ~GhostContains(g, k)
  BY <1>1 DEF GhostRemove
<1>2. CASE GhostContains(g, k)
  <2> DEFINE r == GhostRemove(g, k)
  <2>1. r.keys = g.keys \ {k} /\ r.queue = Retain(g.queue, {k})
    BY <1>2 DEF GhostRemove
  <2> HIDE DEF r
  <2>2. /\ g.keys = Range(g.queue) /\ IsInjective(g.queue)
        /\ Len(g.queue) <= IF capacity = 0 THEN 1 ELSE capacity
    BY DEF GhostSound
  <2>3. /\ r.queue \in Seq(A) /\ Len(r.queue) <= Len(g.queue)
        /\ Range(r.queue) = Range(g.queue) \ {k} /\ IsInjective(r.queue)
    BY <2>1, <2>2, RetainKeeps
  <2>4. Len(r.queue) \in Nat /\ Len(g.queue) \in Nat
    BY <2>3
  <2>5. r.keys \in SUBSET A /\ r.keys = Range(r.queue)
    BY <2>1, <2>2, <2>3
  <2>6. Len(r.queue) <= IF capacity = 0 THEN 1 ELSE capacity
    BY <2>2, <2>3, <2>4
  <2>7. GhostSound(r, capacity)
    BY <2>3, <2>5, <2>6 DEF GhostSound
  <2> QED BY <2>3, <2>5, <2>7 DEF r
<1> QED BY <1>1, <1>2
=============================================================================
