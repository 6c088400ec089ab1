--------------------------- MODULE ConfigBuilder ---------------------------
(***************************************************************************)
(* CacheConfig (src/config.rs) as its callers meet it: the setters that    *)
(* may refuse, validate, the derived capacities and the builders.  A       *)
(* configuration is a record.  An f64 is a fraction; a denominator 0 makes *)
(* it infinite, and 0 / 0 is the NaN, which no comparison holds of.        *)
(*                                                                         *)
(* The f64 product that is rounded up is itself rounded to the nearest     *)
(* f64, so that for some ratios the capacity of the small queue is one     *)
(* higher than here.                                                       *)
(***************************************************************************)
EXTENDS Integers

CONSTANTS UsizeMax, None

Floats == [num : Int, den : Nat]
NaN == [num |-> 0, den |-> 0]

AtMost(x, n) == x # NaN /\ x.num <= n * x.den
AtLeast(x, n) == x # NaN /\ x.num >= n * x.den

(* (n as f64 * x).ceil() as usize: the cast saturates, and takes NaN to 0. *)
CeilOfProduct(n, x) ==
    IF x = NaN \/ x.num <= 0 \/ n = 0 THEN 0
    ELSE IF x.den = 0 THEN UsizeMax
    ELSE LET up == (n * x.num + x.den - 1) \div x.den
         IN  IF up > UsizeMax THEN UsizeMax ELSE up

-----------------------------------------------------------------------------
new(capacity) ==
    [capacity               |-> capacity,
     small_queue_ratio      |-> [num |-> 1, den |-> 10],
     ghost_queue_multiplier |-> [num |-> 1, den |-> 1],
     max_frequency          |-> 3,
     enable_stats           |-> TRUE,
     initial_capacity       |-> None]

Configs ==
    [capacity               : 0 .. UsizeMax,
     small_queue_ratio      : Floats,
     ghost_queue_multiplier : Floats,
     max_frequency          : 0 .. 255,
     enable_stats           : BOOLEAN,
     initial_capacity       : (0 .. UsizeMax) \cup {None}]

Ok(result) == [ok |-> TRUE, result |-> result]
Err == [ok |-> FALSE]

RatioRefused(ratio) == AtMost(ratio, 0) \/ AtLeast(ratio, 1)

with_small_queue_ratio(c, ratio) ==
    IF RatioRefused(ratio) THEN Err ELSE Ok([c EXCEPT !.small_queue_ratio = ratio])

with_ghost_queue_multiplier(c, multiplier) ==
    [c EXCEPT !.ghost_queue_multiplier = multiplier]

with_max_frequency(c, max) ==
    IF max = 0 THEN Err ELSE Ok([c EXCEPT !.max_frequency = max])

with_stats(c, enable) == [c EXCEPT !.enable_stats = enable]

with_initial_capacity(c, hint) == [c EXCEPT !.initial_capacity = hint]

validate(c) ==
    c.capacity # 0 /\ ~RatioRefused(c.small_queue_ratio) /\ c.max_frequency # 0

-----------------------------------------------------------------------------
small_capacity(c) == CeilOfProduct(c.capacity, c.small_queue_ratio)

main_capacity(c) ==
    IF small_capacity(c) > c.capacity THEN 0 ELSE c.capacity - small_capacity(c)

ghost_capacity(c) == CeilOfProduct(main_capacity(c), c.ghost_queue_multiplier)

initial_capacity_hint(c) ==
    IF c.initial_capacity = None THEN c.capacity ELSE c.initial_capacity

(* What the caches take from a configuration.  with_config asks nothing of *)
(* it, and S3-FIFO gives its ghost queue the main queue's capacity.        *)
s3fifo_with_config(c) ==
    [capacity |-> c.capacity, small |-> small_capacity(c),
     main |-> main_capacity(c), ghost |-> main_capacity(c)]
sieve_with_config(c) ==
    [capacity |-> c.capacity, reserved |-> initial_capacity_hint(c)]

build_s3fifo(c) == IF validate(c) THEN Ok(s3fifo_with_config(c)) ELSE Err
build_sieve(c) == IF validate(c) THEN Ok(sieve_with_config(c)) ELSE Err
=============================================================================
