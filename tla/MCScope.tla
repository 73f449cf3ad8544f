------------------------------ MODULE MCScope ------------------------------
(* Scope for TLC: few names, small arrays, functions three deep.              *)
EXTENDS Scope

OneName == {"a"}
=============================================================================
