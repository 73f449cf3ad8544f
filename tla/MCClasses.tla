------------------------------ MODULE MCClasses -----------------------------
(* Three classes in two variables, an initializer and a method.             *)
EXTENDS Classes, TLC

CONSTANTS A, B, init, talk

Symmetry == Permutations({A, B})
=============================================================================
