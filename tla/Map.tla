-------------------------------- MODULE Map --------------------------------
(***************************************************************************)
(* What a `struct table` promises its callers (vm.c, memory.c, object.c): a *)
(* finite map.  A key that is not equal to itself -- NaN, and every object  *)
(* that is not a string, value.c value_equal -- is accepted by table_set    *)
(* and is never seen again.                                                *)
(*                                                                         *)
(* The map answers when it answers at all: a call that never returns leaves *)
(* no reply, so the module states partial correctness.                     *)
(***************************************************************************)
EXTENDS Integers

CONSTANTS
    Keys,           \* the values that can be keys
    Irreflexive,    \* those of them that value_equal never equates to anything
    Values,
    Nil

VARIABLES
    map,            \* the bindings a caller can observe
    reply           \* the last call that returned, and its answer

Operations == {"init", "set", "get", "delete", "find", "free"}

Reply(op, ok, v) == [op |-> op, ok |-> ok, value |-> v]

Init ==
    /\ map = [k \in {} |-> Nil]
    /\ reply = Reply("init", TRUE, Nil)

(* Store a binding; the answer says whether the key is new.                *)
Put(k, v) ==
    /\ map' = IF k \in Irreflexive
              THEN map
              ELSE [x \in DOMAIN map \cup {k} |-> IF x = k THEN v ELSE map[x]]
    /\ reply' = Reply("set", k \notin DOMAIN map, Nil)

Get(k) ==
    /\ reply' = IF k \in DOMAIN map THEN Reply("get", TRUE, map[k])
                                    ELSE Reply("get", FALSE, Nil)
    /\ UNCHANGED map

Remove(k) ==
    /\ map' = [x \in DOMAIN map \ {k} |-> map[x]]
    /\ reply' = Reply("delete", k \in DOMAIN map, Nil)

(* A lookup by content may miss a string that is present; it never invents  *)
(* one.                                                                    *)
Find(k) ==
    /\ \E found \in {FALSE, (k \in DOMAIN map)} : reply' = Reply("find", found, Nil)
    /\ UNCHANGED map

Clear ==
    /\ map' = [k \in {} |-> Nil]
    /\ reply' = Reply("free", TRUE, Nil)

Next ==
    \/ \E k \in Keys, v \in Values : Put(k, v)
    \/ \E k \in Keys : Get(k) \/ Remove(k) \/ Find(k)
    \/ Clear

Spec == Init /\ [][Next]_<<map, reply>>
=============================================================================
