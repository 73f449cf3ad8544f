------------------------------- MODULE Cells --------------------------------
(***************************************************************************)
(* What a program is promised about its local variables: every declaration  *)
(* makes a variable of its own, a closure shares the variables it captured   *)
(* with the function that declared them and with other closures, and they    *)
(* last as long as a closure can name them, whoever has returned meanwhile. *)
(***************************************************************************)
EXTENDS Naturals, Sequences, Functions

CONSTANTS Values, Closures, Main, Variables

VARIABLES
    store,      \* the value of every variable that can be named
    scope,      \* the variables of the calls in progress, innermost last
    calls,      \* of each call: its closure, and where its variables begin
    captured,   \* the variables each closure captured
    building    \* the closure being made, or Main

Kept == UNION {Range(captured[c]) : c \in Closures}
Live == Range(scope) \cup Kept

Running == calls[Len(calls)].closure
Base == calls[Len(calls)].slots

Visible ==
    {scope[i] : i \in Base .. Len(scope)} \cup Range(captured[Running])

(* The variables that can still be named keep their values but for those     *)
(* that changed gives a new one.                                           *)
Update(changed) ==
    store' = [x \in Live' |->
                IF x \in DOMAIN changed THEN changed[x] ELSE store[x]]

Unchanged == Update(<<>>)

Set(x, v) == Update([y \in {x} |-> v])

Init ==
    /\ store = <<>>
    /\ scope = <<>>
    /\ calls = <<>>
    /\ captured = [c \in Closures |-> <<>>]
    /\ building = Main

Start(x, v) ==
    /\ calls = <<>>
    /\ scope' = Append(scope, x)
    /\ calls' = <<[closure |-> Main, slots |-> Len(scope')]>>
    /\ UNCHANGED <<captured, building>>
    /\ Set(x, v)

Declare(x, v) ==
    /\ scope' = Append(scope, x)
    /\ UNCHANGED <<calls, captured, building>>
    /\ Set(x, v)

Drop ==
    /\ scope' = SubSeq(scope, 1, Len(scope) - 1)
    /\ UNCHANGED <<calls, captured, building>>
    /\ Unchanged

Read(x, y) == y \in Visible /\ Declare(x, store[y])

Write(y) ==
    /\ y \in Visible
    /\ UNCHANGED <<scope, calls, captured, building>>
    /\ Set(y, store[scope[Len(scope)]])

Make(c, x, v) ==
    /\ scope' = Append(scope, x)
    /\ building' = c
    /\ UNCHANGED <<calls, captured>>
    /\ Set(x, v)

Capture(y) ==
    /\ building # Main
    /\ y \in Visible
    /\ captured' = [captured EXCEPT ![building] = Append(@, y)]
    /\ UNCHANGED <<scope, calls, building>>
    /\ Unchanged

Made ==
    /\ building' = Main
    /\ UNCHANGED <<store, scope, calls, captured>>

Enter(c, n) ==
    /\ calls' = Append(calls, [closure |-> c, slots |-> n])
    /\ UNCHANGED <<store, scope, captured, building>>

(* The variables of the call go, but for those a closure captured; a new     *)
(* temporary takes the result.                                             *)
Leave(x) ==
    /\ x \notin Range(SubSeq(scope, 1, Base - 1)) \cup Kept
    /\ calls' = SubSeq(calls, 1, Len(calls) - 1)
    /\ scope' = IF Len(calls) = 1 THEN SubSeq(scope, 1, Len(scope) - 2)
                ELSE Append(SubSeq(scope, 1, Base - 1), x)
    /\ UNCHANGED <<captured, building>>
    /\ IF Len(calls) = 1 THEN Unchanged ELSE Set(x, store[scope[Len(scope)]])

Abandon ==
    /\ scope' = <<>>
    /\ calls' = <<>>
    /\ UNCHANGED <<captured, building>>
    /\ Unchanged

Step ==
    \/ \E x \in Variables \ Live :
          \/ \E v \in Values :
                Declare(x, v) \/ \E c \in Closures \ {Main} : Make(c, x, v)
          \/ \E y \in Visible : Read(x, y)
    \/ \E x \in Variables : Leave(x)
    \/ Drop
    \/ \E y \in Visible : Write(y) \/ Capture(y)
    \/ Made
    \/ \E c \in Closures, n \in 1 .. Len(scope) : Enter(c, n)

Next ==
    \/ \E x \in Variables \ Live, v \in Values : Start(x, v)
    \/ calls # <<>> /\ Step
    \/ Abandon

Spec == Init /\ [][Next]_<<store, scope, calls, captured, building>>
=============================================================================
