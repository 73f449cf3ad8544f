------------------------------ MODULE MCInterp ------------------------------
(* A class with an initializer and a method, a subclass that inherits the     *)
(* one and overrides the other, and a function of one argument.             *)
EXTENDS Interp, TLC

CONSTANTS A, B, fun, init, talk, shout, initName, talkName

MCArity == (Main :> 0) @@ (fun :> 1) @@ (init :> 1) @@ (talk :> 0) @@ (shout :> 0)

MCMethods ==
    (A :> (initName :> init) @@ (talkName :> talk))
    @@ (B :> (initName :> init) @@ (talkName :> shout))

MCAncestors == (A :> {}) @@ (B :> {A})
=============================================================================
