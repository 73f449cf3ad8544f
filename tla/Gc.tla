--------------------------------- MODULE Gc ---------------------------------
(***************************************************************************)
(* What the garbage collector promises the rest of the program: a collection *)
(* is one step, it keeps exactly the objects that can be reached from the    *)
(* roots and from the constants just compiled, and it changes none of them. *)
(***************************************************************************)
EXTENDS Reach

CONSTANT Objects

VARIABLES
    heap,       \* the objects that exist
    refs,       \* the objects each of them refers to
    roots,      \* the objects the program can name
    pinned      \* objects kept until the end of the next collection

Accessible == Reachable(refs, roots)

Init ==
    /\ heap = {}
    /\ refs = [o \in Objects |-> {}]
    /\ roots = {}
    /\ pinned = {}

New(o, kids) ==
    /\ o \notin heap
    /\ heap' = heap \cup {o}
    /\ refs' = [refs EXCEPT ![o] = kids]
    /\ roots' = roots \cup {o}
    /\ UNCHANGED pinned

Root(o) == roots' = roots \cup {o} /\ UNCHANGED <<heap, refs, pinned>>

Unroot(o) == roots' = roots \ {o} /\ UNCHANGED <<heap, refs, pinned>>

Store(o, p) ==
    /\ refs' = [refs EXCEPT ![o] = @ \cup {p}]
    /\ UNCHANGED <<heap, roots, pinned>>

Erase(o, p) ==
    /\ refs' = [refs EXCEPT ![o] = @ \ {p}]
    /\ UNCHANGED <<heap, roots, pinned>>

Pin(o) == pinned' = pinned \cup {o} /\ UNCHANGED <<heap, refs, roots>>

Collect ==
    LET kept == Reachable(refs, roots \cup pinned)
    IN  /\ heap' = kept
        /\ refs' = [o \in Objects |-> IF o \in kept THEN refs[o] ELSE {}]
        /\ pinned' = {}
        /\ UNCHANGED roots

Next ==
    LET here == Accessible
    IN  \/ \E o \in Objects \ heap, kids \in SUBSET here : New(o, kids)
        \/ \E o \in here : Root(o) \/ Pin(o)
        \/ \E o \in roots : Unroot(o)
        \/ \E o \in here, p \in here : Store(o, p) \/ Erase(o, p)
        \/ Collect

Spec == Init /\ [][Next]_<<heap, refs, roots, pinned>>
=============================================================================
