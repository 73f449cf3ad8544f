------------------------------- MODULE Calls --------------------------------
(***************************************************************************)
(* What a call is promised: operands of its own, that no other call reads or *)
(* changes; it is given the called value, or the receiver, and arguments,    *)
(* and gives its caller one value in their place.  A line of the REPL or a   *)
(* script ends well, or in an error that leaves nothing behind.             *)
(***************************************************************************)
EXTENDS Naturals, Sequences

CONSTANTS Values, Closures, Main, Arity

VARIABLES
    calls,      \* the calls in progress, the running one last
    mode,       \* "idle" between lines
    code        \* what vm_interpret last returned: "ok" or "error"

Last(s) == s[Len(s)]
ButLast(s, n) == SubSeq(s, 1, Len(s) - n)
Ending(s, n) == SubSeq(s, Len(s) - n + 1, Len(s))

Init ==
    /\ calls = <<>>
    /\ mode = "idle"
    /\ code = "ok"

Start ==
    /\ mode = "idle"
    /\ \E v \in Values : calls' = <<[closure |-> Main, operands |-> <<v>>]>>
    /\ mode' = "running"
    /\ UNCHANGED code

(* What the running call makes of its operands.  Slot 0 it cannot change.    *)
Computes(old, new) ==
    \* the last n are used up, and a value may take their place
    \/ \E n \in 0 .. Len(old) - 1 :
          ButLast(old, n) \in {new, ButLast(new, 1)}
    \* an assignment to a local variable
    \/ \E i \in 2 .. Len(old) : new = [old EXCEPT ![i] = new[i]]

(* The callee takes the called value or a receiver in its place, and n        *)
(* arguments, from the caller.  A call to super has the superclass on top.   *)
Enters(old, rest, f, new) ==
    /\ Len(new) = Arity[f] + 1
    /\ rest # <<>>
    /\ \/ /\ rest = ButLast(old, Len(new))
          /\ Tail(new) = Ending(old, Arity[f])
       \/ /\ rest = ButLast(old, Len(new) + 1)
          /\ new = Ending(ButLast(old, 1), Len(new))

(* Calls other than the top ones are never touched.                         *)
Step ==
    LET old == calls
        new == calls'
        n == Len(old)
    IN  /\ mode = "running"
        /\ UNCHANGED <<mode, code>>
        /\ \/ /\ Len(new) = n
              /\ ButLast(new, 1) = ButLast(old, 1)
              /\ Last(new).closure = Last(old).closure
              /\ Computes(Last(old).operands, Last(new).operands)
           \/ /\ Len(new) = n + 1
              /\ ButLast(new, 2) = ButLast(old, 1)
              /\ new[n].closure = old[n].closure
              /\ Enters(old[n].operands, new[n].operands,
                        new[n + 1].closure, new[n + 1].operands)
           \/ /\ Len(new) = n - 1 /\ n > 1
              /\ new = [ButLast(old, 1) EXCEPT
                          ![n - 1].operands = Append(@, Last(old[n].operands))]

Stop(c) ==
    /\ calls' = <<>>
    /\ mode' = "idle"
    /\ code' = c

End == Len(calls) = 1 /\ Len(calls[1].operands) = 2 /\ Stop("ok")

Next == Start \/ (calls # <<>> /\ (Step \/ End)) \/ Stop("error")

Spec == Init /\ [][Next]_<<calls, mode, code>>
=============================================================================
