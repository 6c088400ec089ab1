------------------------------ MODULE MCHitPath ------------------------------
(* A small instance of HitPath for TLC.                                     *)
EXTENDS HitPath, TLC

Symmetry == Permutations(Readers)
=============================================================================
