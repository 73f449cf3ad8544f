----------------------------- MODULE MCUpvalues -----------------------------
EXTENDS Upvalues, TLC

(* Closures but Main and upvalues are interchangeable.                      *)
Symmetry == Permutations(Closures \ {Main}) \cup Permutations(Upvalues)
=============================================================================
