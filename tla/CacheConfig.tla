---------------------------- MODULE CacheConfig ----------------------------
(***************************************************************************)
(* The capacities CacheConfig (src/config.rs) derives for S3-FIFO.  The    *)
(* f64 ratio of the small queue is the fraction RatioNum / RatioDen.  For  *)
(* the default, 0.1, the f64 product rounds to the exact ceiling; for some *)
(* other ratios it comes out one higher, which is the ceiling for a        *)
(* slightly larger fraction.                                               *)
(***************************************************************************)
EXTENDS Integers

CONSTANTS Capacity, RatioNum, RatioDen

ASSUME ConfigAssumption ==
    /\ Capacity \in Nat
    /\ RatioNum \in Nat \ {0} /\ RatioDen \in Nat /\ RatioNum < RatioDen

small_queue_capacity == (Capacity * RatioNum + RatioDen - 1) \div RatioDen

main_queue_capacity ==
    IF small_queue_capacity > Capacity THEN 0 ELSE Capacity - small_queue_capacity
=============================================================================
