------------------------------- MODULE Reach -------------------------------
(* What can be reached from a set of nodes of a graph, given as a function    *)
(* from each node to the nodes it refers to.                               *)

Closed(T, next) == \A x \in T : next[x] \subseteq T

(* The least closed set that contains S: the nodes in every such set.       *)
Reachable(next, S) ==
    {o \in DOMAIN next :
        \A T \in SUBSET DOMAIN next : S \subseteq T /\ Closed(T, next) => o \in T}
=============================================================================
