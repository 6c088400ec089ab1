---------------------------- MODULE MCTraitCalls ----------------------------
(* A small instance of TraitCalls for TLC.                                  *)
EXTENDS TraitCalls, TLC

Symmetry == Permutations(Keys) \cup Permutations(Values) \cup Permutations(Threads)
=============================================================================
