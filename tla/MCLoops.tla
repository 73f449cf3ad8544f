------------------------------ MODULE MCLoops ------------------------------
(* Programs of a few statements, each with all its ways to run.            *)
EXTENDS Loops
=============================================================================
