------------------------------- MODULE MCLru -------------------------------
(* Small instances of Lru for TLC.                                         *)
EXTENDS Lru, TLC

(* Keys, values and addresses are interchangeable: nothing compares them.  *)
Symmetry == Permutations(Keys) \cup Permutations(Values) \cup Permutations(Nodes)
=============================================================================
