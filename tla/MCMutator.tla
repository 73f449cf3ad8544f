----------------------------- MODULE MCMutator -----------------------------
(* Instances of Mutator for TLC.                                           *)
EXTENDS Mutator, TLC

Symmetry == Permutations(Objects)
=============================================================================
