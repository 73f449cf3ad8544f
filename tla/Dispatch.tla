------------------------------ MODULE Dispatch ------------------------------
(***************************************************************************)
(* What single inheritance promises.  A class has the methods its own body   *)
(* declares, and a line: itself, its superclass, the superclass of that, and *)
(* so on.  A message runs the method of the first class of the receiver's    *)
(* line that declares one, and a message to super looks from the class after *)
(* the one whose method is speaking, whatever the receiver is.              *)
(***************************************************************************)
EXTENDS Naturals, Sequences

CONSTANT Names

VARIABLES
    own,        \* the names each class declares, classes in order of creation
    line,       \* the line of each class
    calls,      \* class of the receiver and method of the calls in progress
    bound       \* class of the receiver and method of the bound methods held

vars == <<own, line, calls, bound>>

(* The method that a message n finds on line l.                             *)
Provides(l, n) == \E i \in DOMAIN l : n \in own[l[i]]
First(l, n, i) == n \in own[l[i]] /\ \A j \in 1 .. i - 1 : n \notin own[l[j]]
Resolve(l, n) == [home |-> l[CHOOSE i \in DOMAIN l : First(l, n, i)], name |-> n]

(* The line of the classes above h.                                         *)
Above(h) == Tail(line[h])

Init ==
    /\ own = <<>>
    /\ line = <<>>
    /\ calls = <<>>
    /\ bound = {}

Declare ==
    /\ own' = Append(own, {})
    /\ line' = Append(line, <<Len(own) + 1>>)
    /\ UNCHANGED calls

(* Only the class declared last gets a superclass and methods.              *)
Extend(s) ==
    LET c == Len(own)
    IN  /\ s \in 1 .. c - 1
        /\ own[c] = {} /\ line[c] = <<c>>
        /\ line' = [line EXCEPT ![c] = <<c>> \o line[s]]
        /\ UNCHANGED <<own, calls>>

Method(n) ==
    /\ own # <<>>
    /\ own' = [own EXCEPT ![Len(own)] = @ \cup {n}]
    /\ UNCHANGED <<line, calls>>

Run(c, m) == calls' = Append(calls, [class |-> c, method |-> m])

Send(c, n) ==
    /\ Provides(line[c], n)
    /\ Run(c, Resolve(line[c], n))
    /\ UNCHANGED <<own, line>>

Speaker == calls[Len(calls)]

SendSuper(n) ==
    /\ Provides(Above(Speaker.method.home), n)
    /\ Run(Speaker.class, Resolve(Above(Speaker.method.home), n))
    /\ UNCHANGED <<own, line>>

SendBound ==
    /\ \E b \in bound : calls' = Append(calls, b)
    /\ UNCHANGED <<own, line>>

Return ==
    /\ calls' = SubSeq(calls, 1, Len(calls) - 1)
    /\ UNCHANGED <<own, line>>

Stop == calls' = <<>> /\ UNCHANGED <<own, line>>

(* Bound methods may be dropped in any step.                                *)
Keep == bound' \subseteq bound

BindSuper(n) ==
    /\ Provides(Above(Speaker.method.home), n)
    /\ bound' \subseteq
          bound \cup {[class |-> Speaker.class,
                       method |-> Resolve(Above(Speaker.method.home), n)]}
    /\ UNCHANGED <<own, line, calls>>

Next ==
    \/ Keep /\ UNCHANGED <<own, line, calls>>
    \/ Keep /\ (Stop \/ SendBound \/ Declare)
    \/ Keep /\ calls # <<>> /\ (Return \/ \E n \in Names : SendSuper(n))
    \/ Keep /\ \E n \in Names : Method(n) \/ \E c \in 1 .. Len(own) : Send(c, n)
    \/ Keep /\ \E s \in 1 .. Len(own) : Extend(s)
    \/ calls # <<>> /\ \E n \in Names : BindSuper(n)

Spec == Init /\ [][Next]_vars
=============================================================================
