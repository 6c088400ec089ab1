------------------------------ MODULE MCSieve ------------------------------
(* Small instances of Sieve for TLC.                                       *)
EXTENDS SieveRefinement, TLC

(* Keys, values and addresses are interchangeable: nothing compares them.  *)
Symmetry == Permutations(Keys) \cup Permutations(Values) \cup Permutations(Nodes)
=============================================================================
