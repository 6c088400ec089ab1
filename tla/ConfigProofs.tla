---------------------------- MODULE ConfigProofs ----------------------------
(*****************************************************************************)
(* What CacheConfig guarantees the caches, for every capacity and every f64  *)
(* ratio.                                                                    *)
(*****************************************************************************)
EXTENDS ConfigBuilder, CacheConfig, TLAPS

(* A positive number, times a positive fraction below one and rounded up, is *)
(* at least one and at most the number.                                      *)
LEMMA CeilInRange ==
    ASSUME NEW n \in Nat, n # 0, NEW p \in Nat, p # 0, NEW d \in Nat, p < d
    PROVE  (n * p + d - 1) \div d \in 1 .. n
<1> DEFINE x == n * p
           q == (x + d - 1) \div d
<1>1. x \in Nat /\ x >= 1 /\ x <= n * d
  OBVIOUS
<1>2. q \in Int /\ d * q <= x + d - 1 /\ x + d - 1 < d * (q + 1)
  <2> HIDE DEF x
  <2> QED BY <1>1
<1>3. q >= 1
  <2> HIDE DEF x, q
  <2>1. d * (q + 1) > d
    BY <1>1, <1>2
  <2>2. q + 1 > 1
    BY <1>2, <2>1
  <2> QED BY <1>2, <2>2
<1>4. q <= n
  <2> HIDE DEF x, q
  <2>1. d * q < d * n + d
    BY <1>1, <1>2
  <2>2. d * (n + 1) = d * n + d
    OBVIOUS
  <2>3. d * q < d * (n + 1)
    BY <2>1, <2>2
  <2>4. q < n + 1
    BY <1>2, <2>3
  <2> QED BY <1>2, <2>4
<1> QED BY <1>2, <1>3, <1>4

(* A ratio that is accepted and is a number is what S3Fifo assumes of its    *)
(* constants (config.rs 121-127): a fraction in (0, 1).                      *)
THEOREM AcceptedRatio ==
    ASSUME NEW x \in Floats, ~RatioRefused(x), x # NaN
    PROVE  x.num \in Nat \ {0} /\ x.num < x.den
<1>1. x.num \in Int /\ x.den \in Nat
  BY DEF Floats
<1>2. ~(x.num <= 0 * x.den) /\ ~(x.num >= 1 * x.den)
  BY DEF RatioRefused, AtMost, AtLeast
<1> QED BY <1>1, <1>2

(* A valid configuration with such a ratio divides the capacity between the  *)
(* two queues (config.rs 253-263), and leaves the small one at least one     *)
(* entry.                                                                    *)
THEOREM CapacitiesAddUp ==
    ASSUME UsizeMax \in Nat, NEW c \in Configs, validate(c), c.small_queue_ratio # NaN
    PROVE  /\ small_capacity(c) \in 1 .. c.capacity
           /\ small_capacity(c) + main_capacity(c) = c.capacity
<1> DEFINE n == c.capacity
           p == c.small_queue_ratio.num
           d == c.small_queue_ratio.den
<1>1. /\ n \in Nat /\ n # 0 /\ n <= UsizeMax /\ c.small_queue_ratio \in Floats
      /\ ~RatioRefused(c.small_queue_ratio)
  BY DEF Configs, validate
<1>2. p \in Nat /\ p # 0 /\ d \in Nat /\ p < d
  BY <1>1, AcceptedRatio DEF Floats
<1> HIDE DEF n, p, d
<1>3. (n * p + d - 1) \div d \in 1 .. n
  BY <1>1, <1>2, CeilInRange
<1>4. small_capacity(c) = (n * p + d - 1) \div d
  <2> DEFINE up == (n * p + d - 1) \div d
  <2>1. up \in 1 .. n
    BY <1>3
  <2>2. small_capacity(c) = IF c.small_queue_ratio = NaN \/ p <= 0 \/ n = 0 THEN 0
                            ELSE IF d = 0 THEN UsizeMax
                            ELSE IF up > UsizeMax THEN UsizeMax ELSE up
    BY DEF small_capacity, CeilOfProduct, n, p, d
  <2> HIDE DEF up
  <2> QED BY <1>1, <1>2, <2>1, <2>2 DEF up
<1>5. small_capacity(c) \in 1 .. c.capacity
  BY <1>3, <1>4 DEF n
<1> QED BY <1>1, <1>5 DEF main_capacity, n

(* Neither with_small_queue_ratio nor validate refuses NaN (config.rs 122    *)
(* and 202): both comparisons are false; the small queue then has capacity 0 *)
(* and the main queue all of it.                                             *)
THEOREM NaNIsAccepted ==
    ASSUME UsizeMax \in Nat, NEW c \in Configs, validate(c)
    PROVE  LET c2 == [c EXCEPT !.small_queue_ratio = NaN]
           IN  /\ with_small_queue_ratio(c, NaN) = Ok(c2)
               /\ validate(c2)
               /\ small_capacity(c2) = 0 /\ main_capacity(c2) = c.capacity
<1> DEFINE c2 == [c EXCEPT !.small_queue_ratio = NaN]
<1>1. ~RatioRefused(NaN)
  BY DEF RatioRefused, AtMost, AtLeast
<1>2. with_small_queue_ratio(c, NaN) = Ok(c2)
  BY <1>1 DEF with_small_queue_ratio
<1>3. c2.small_queue_ratio = NaN /\ c2.capacity = c.capacity /\ c2.max_frequency = c.max_frequency
  BY DEF Configs
<1> HIDE DEF c2
<1>4. validate(c2)
  BY <1>1, <1>3 DEF validate
<1>5. small_capacity(c2) = 0
  BY <1>3 DEF small_capacity, CeilOfProduct
<1>6. c.capacity \in Nat
  BY DEF Configs
<1>7. main_capacity(c2) = c.capacity
  BY <1>3, <1>5, <1>6 DEF main_capacity
<1> QED BY <1>2, <1>4, <1>5, <1>7 DEF c2

(* Nothing a setter accepts makes a valid configuration invalid (config.rs   *)
(* 121-185), and new makes one unless the capacity is zero: build fails for  *)
(* nothing else.                                                             *)
THEOREM SettersKeepValid ==
    ASSUME NEW c \in Configs, validate(c), NEW x \in Floats, NEW n, NEW b
    PROVE  /\ n # 0 => validate(new(n))
           /\ with_small_queue_ratio(c, x).ok => validate(with_small_queue_ratio(c, x).result)
           /\ validate(with_ghost_queue_multiplier(c, x))
           /\ with_max_frequency(c, n).ok => validate(with_max_frequency(c, n).result)
           /\ validate(with_stats(c, b))
           /\ validate(with_initial_capacity(c, n))
<1>1. c.capacity # 0 /\ ~RatioRefused(c.small_queue_ratio) /\ c.max_frequency # 0
  BY DEF validate
<1>2. with_small_queue_ratio(c, x).ok => validate(with_small_queue_ratio(c, x).result)
  <2> DEFINE c2 == [c EXCEPT !.small_queue_ratio = x]
  <2>1. c2.small_queue_ratio = x /\ c2.capacity = c.capacity /\ c2.max_frequency = c.max_frequency
    BY DEF Configs
  <2>2. with_small_queue_ratio(c, x) = IF RatioRefused(x) THEN Err ELSE Ok(c2)
    BY DEF with_small_queue_ratio
  <2> HIDE DEF c2
  <2> QED BY <1>1, <2>1, <2>2 DEF validate, Ok, Err
<1>3. with_max_frequency(c, n).ok => validate(with_max_frequency(c, n).result)
  <2> DEFINE c2 == [c EXCEPT !.max_frequency = n]
  <2>1. c2.max_frequency = n /\ c2.capacity = c.capacity
        /\ c2.small_queue_ratio = c.small_queue_ratio
    BY DEF Configs
  <2>2. with_max_frequency(c, n) = IF n = 0 THEN Err ELSE Ok(c2)
    BY DEF with_max_frequency
  <2> HIDE DEF c2
  <2> QED BY <1>1, <2>1, <2>2 DEF validate, Ok, Err
<1>4. validate(with_ghost_queue_multiplier(c, x))
  BY <1>1 DEF validate, with_ghost_queue_multiplier, Configs
<1>5. validate(with_stats(c, b))
  BY <1>1 DEF validate, with_stats, Configs
<1>6. validate(with_initial_capacity(c, n))
  BY <1>1 DEF validate, with_initial_capacity, Configs
<1>7. n # 0 => validate(new(n))
  BY DEF validate, new, RatioRefused, AtMost, AtLeast
<1> QED BY <1>2, <1>3, <1>4, <1>5, <1>6, <1>7

(* The capacities S3Fifo is checked with are those with_config takes from a  *)
(* configuration (s3fifo.rs 206-227).                                        *)
THEOREM ModelCapacities ==
    ASSUME UsizeMax \in Nat, NEW c \in Configs, c.capacity = Capacity,
           c.small_queue_ratio = [num |-> RatioNum, den |-> RatioDen]
    PROVE  s3fifo_with_config(c) =
             [capacity |-> Capacity, small |-> small_queue_capacity,
              main |-> main_queue_capacity, ghost |-> main_queue_capacity]
<1>1. Capacity \in Nat /\ Capacity <= UsizeMax /\ RatioNum \in Nat \ {0} /\ RatioDen \in Nat
      /\ RatioNum < RatioDen
  BY ConfigAssumption DEF Configs
<1>2. c.small_queue_ratio # NaN /\ c.small_queue_ratio.num = RatioNum
      /\ c.small_queue_ratio.den = RatioDen
  BY <1>1 DEF NaN
<1>3. small_capacity(c) = small_queue_capacity
  <2>1. small_capacity(c) = IF RatioNum <= 0 \/ Capacity = 0 THEN 0
                            ELSE IF RatioDen = 0 THEN UsizeMax
                            ELSE IF small_queue_capacity > UsizeMax THEN UsizeMax
                            ELSE small_queue_capacity
    BY <1>2 DEF small_capacity, CeilOfProduct, small_queue_capacity
  <2>2. CASE Capacity # 0
    <3>1. small_queue_capacity \in 1 .. Capacity
      BY <1>1, <2>2, CeilInRange DEF small_queue_capacity
    <3> QED BY <1>1, <2>1, <2>2, <3>1
  <2>3. CASE Capacity = 0
    <3>1. small_queue_capacity = (RatioDen - 1) \div RatioDen
      BY <1>1, <2>3 DEF small_queue_capacity
    <3>2. (RatioDen - 1) \div RatioDen = 0
      BY <1>1
    <3> QED BY <2>1, <2>3, <3>1, <3>2
  <2> QED BY <2>2, <2>3
<1>4. main_capacity(c) = main_queue_capacity
  BY <1>3 DEF main_capacity, main_queue_capacity
<1> QED BY <1>3, <1>4 DEF s3fifo_with_config
=============================================================================
