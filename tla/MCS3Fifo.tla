------------------------------ MODULE MCS3Fifo ------------------------------
(* Small instances of S3Fifo for TLC.                                      *)
EXTENDS S3Fifo, TLC

(* The choice of a new entry orders the entries: they are not symmetric.   *)
Symmetry == Permutations(Keys) \cup Permutations(Threads)
=============================================================================
