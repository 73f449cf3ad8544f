----------------------------- MODULE Collector -----------------------------
(***************************************************************************)
(* memory.c: the mark-and-sweep collector, one step per object it works on, *)
(* and the rest of the program as far as it changes what the collector sees *)
(* -- objects made and linked, references and roots made and dropped, the   *)
(* constants the compiler marks.  The program runs between collections only *)
(* (gc_collect is a call inside reallocate) and reaches objects through the  *)
(* roots; objects that only a C variable holds are the subject of Mutator.  *)
(***************************************************************************)
EXTENDS Reach, Naturals, FiniteSets

CONSTANTS
    Objects,        \* addresses of objects
    MaxKids         \* bound: references an object may hold

VARIABLES
    objects,        \* the list gc_objects; no property depends on its order
    raw,            \* allocated by object_allocate, not yet on the list
    refs,           \* what gc_blacken_object marks of each object
    roots,          \* stack, frames, open upvalues, globals, compilers
    strings,        \* the keys of vm->strings
    marked,         \* object->marked
    gray,           \* the gray stack; an object is pushed when it is marked
    phase,          \* "program", or how far gc_collect has come
    rest            \* the part of gc_objects the sweep has not walked

vars == <<objects, raw, refs, roots, strings, marked, gray, phase, rest>>

program == <<objects, raw, refs, roots>>

Accessible == Reachable(refs, roots \cup strings)

-----------------------------------------------------------------------------
(* The program, between collections.                                       *)

Init ==
    /\ objects = {}
    /\ raw = {}
    /\ refs = [o \in Objects |-> {}]
    /\ roots = {}
    /\ strings = {}
    /\ marked = {}
    /\ gray = {}
    /\ phase = "program"
    /\ rest = {}

Allocate(o) ==
    /\ phase = "program"
    /\ o \notin objects \cup raw
    /\ raw' = raw \cup {o}
    /\ marked' = marked \ {o}
    /\ UNCHANGED <<objects, refs, roots, strings, gray, phase, rest>>

(* The end of each object_..._new: the fields are set, the object is put on  *)
(* the list, and the caller stores it where a root reaches it.             *)
Link(o, kids) ==
    /\ phase = "program"
    /\ o \in raw
    /\ Cardinality(kids) <= MaxKids
    /\ raw' = raw \ {o}
    /\ objects' = objects \cup {o}
    /\ refs' = [refs EXCEPT ![o] = kids]
    /\ roots' = roots \cup {o}
    /\ UNCHANGED <<strings, marked, gray, phase, rest>>

Root(o) ==
    /\ phase = "program"
    /\ roots' = roots \cup {o}
    /\ UNCHANGED <<objects, raw, refs, strings, marked, gray, phase, rest>>

Unroot(o) ==
    /\ phase = "program"
    /\ roots' = roots \ {o}
    /\ UNCHANGED <<objects, raw, refs, strings, marked, gray, phase, rest>>

Store(o, p) ==
    /\ phase = "program"
    /\ Cardinality(refs[o] \cup {p}) <= MaxKids
    /\ refs' = [refs EXCEPT ![o] = @ \cup {p}]
    /\ UNCHANGED <<objects, raw, roots, strings, marked, gray, phase, rest>>

Erase(o, p) ==
    /\ phase = "program"
    /\ refs' = [refs EXCEPT ![o] = @ \ {p}]
    /\ UNCHANGED <<objects, raw, roots, strings, marked, gray, phase, rest>>

Intern(o) ==
    /\ phase = "program"
    /\ strings' = strings \cup {o}
    /\ UNCHANGED <<objects, raw, refs, roots, marked, gray, phase, rest>>

(* gc_mark_object on each member of a set: those not marked yet become       *)
(* marked and go onto the gray stack.                                      *)
Mark(set) ==
    /\ marked' = marked \cup set
    /\ gray' = gray \cup (set \ marked)

(* Fault: the constant is marked and not put on the gray stack.             *)
PinMarksOnly(o) ==
    /\ phase = "program"
    /\ marked' = marked \cup {o}
    /\ UNCHANGED <<objects, raw, refs, roots, strings, gray, phase, rest>>

(* make_constant marks the constant although no collection is under way.    *)
Pin(o) ==
    /\ phase = "program"
    /\ Mark({o})
    /\ UNCHANGED <<objects, raw, refs, roots, strings, phase, rest>>

-----------------------------------------------------------------------------
(* gc_collect.                                                             *)

(* Fault: the interned strings are not marked.                             *)
MarkRootsWeakStrings ==
    /\ phase = "program"
    /\ Mark(roots)
    /\ phase' = "trace"
    /\ UNCHANGED <<program, strings, rest>>

MarkRoots ==
    /\ phase = "program"
    /\ Mark(roots \cup strings)
    /\ phase' = "trace"
    /\ UNCHANGED <<program, strings, rest>>

(* Fault: the top of the gray stack is read and not popped.                 *)
BlackenPeek(o) ==
    /\ phase = "trace"
    /\ o \in gray
    /\ marked' = marked \cup refs[o]
    /\ gray' = gray \cup (refs[o] \ marked)
    /\ UNCHANGED <<program, strings, phase, rest>>

(* One turn of gc_trace_references: the object leaves the gray stack before *)
(* its references are marked.                                              *)
Blacken(o) ==
    /\ phase = "trace"
    /\ o \in gray
    /\ marked' = marked \cup refs[o]
    /\ gray' = (gray \ {o}) \cup (refs[o] \ marked)
    /\ UNCHANGED <<program, strings, phase, rest>>

RemoveWhite ==
    /\ phase = "trace"
    /\ gray = {}
    /\ strings' = strings \cap marked
    /\ phase' = "sweep"
    /\ rest' = objects
    /\ UNCHANGED <<program, marked, gray>>

Keep(o) ==
    /\ phase = "sweep"
    /\ o \in rest \cap marked
    /\ marked' = marked \ {o}
    /\ rest' = rest \ {o}
    /\ UNCHANGED <<program, strings, gray, phase>>

(* Fault: the mark is not looked at.                                       *)
FreeUntested(o) ==
    /\ phase = "sweep"
    /\ o \in rest
    /\ objects' = objects \ {o}
    /\ refs' = [refs EXCEPT ![o] = {}]
    /\ rest' = rest \ {o}
    /\ UNCHANGED <<raw, roots, strings, marked, gray, phase>>

(* Fault: the walk goes on from the object just freed.                     *)
FreeThenWalk(o) ==
    /\ phase = "sweep"
    /\ o \in rest \ marked
    /\ objects' = objects \ {o}
    /\ refs' = [refs EXCEPT ![o] = {}]
    /\ UNCHANGED <<raw, roots, strings, marked, gray, phase, rest>>

Free(o) ==
    /\ phase = "sweep"
    /\ o \in rest \ marked
    /\ objects' = objects \ {o}
    /\ refs' = [refs EXCEPT ![o] = {}]
    /\ rest' = rest \ {o}
    /\ UNCHANGED <<raw, roots, strings, marked, gray, phase>>

EndCollect ==
    /\ phase = "sweep"
    /\ rest = {}
    /\ phase' = "program"
    /\ UNCHANGED <<program, strings, marked, gray, rest>>

-----------------------------------------------------------------------------
ProgramStep ==
  /\ phase = "program"
  /\ \/ \E o \in Objects : Allocate(o)
     \/ \E o \in raw, kids \in SUBSET Accessible : Link(o, kids)
     \/ \E o \in Accessible : Root(o) \/ Intern(o) \/ Pin(o)
     \/ \E o \in roots : Unroot(o)
     \/ \E o \in Accessible, p \in Accessible : Store(o, p) \/ Erase(o, p)

CollectorStep ==
    \/ \E o \in gray : Blacken(o)
    \/ RemoveWhite
    \/ \E o \in rest : Keep(o) \/ Free(o)
    \/ EndCollect

Next == ProgramStep \/ MarkRoots \/ CollectorStep

Spec == Init /\ [][Next]_vars

(* gc_collect is a call: once it has begun nothing else runs until it        *)
(* returns.                                                                *)
FairSpec == Spec /\ WF_vars(CollectorStep)

-----------------------------------------------------------------------------
(* Properties.                                                             *)

TypeOK ==
    /\ objects \subseteq Objects
    /\ raw \subseteq Objects \ objects
    /\ refs \in [Objects -> SUBSET Objects]
    /\ roots \subseteq Objects
    /\ strings \subseteq Objects
    /\ marked \subseteq Objects
    /\ gray \subseteq Objects
    /\ phase \in {"program", "trace", "sweep"}
    /\ rest \subseteq objects

(* Whatever a root or an interned string leads to is still there, in the     *)
(* middle of a sweep as well: no object the program can use was freed.      *)
NothingDangles == Accessible \subseteq objects

(* Everything marked and off the gray stack has only marked references, so  *)
(* that an empty gray stack means the marked set is closed.                *)
BlackIsDone ==
    phase = "trace" =>
        /\ gray \subseteq marked
        /\ \A o \in marked \ gray : refs[o] \subseteq marked

(* Between collections the marked objects are those on the gray stack.  A    *)
(* mark left over without its place on the stack would make the next         *)
(* collection skip the object's references and free them.                  *)
MarksAwaitTracing == phase = "program" => marked = gray

(* An object may lose its mark in the sweep only once, and what the sweep    *)
(* has still to walk holds all that is marked.                             *)
SweepClearsMarks == phase = "sweep" => gray = {} /\ marked \subseteq rest

(* The strings are roots, so gc_table_remove_white finds no white string:    *)
(* an interned string is never given up.                                   *)
InternedForEver == [][strings \subseteq strings']_vars

(* Every collection comes to an end.                                       *)
CollectionEnds == phase # "program" ~> phase = "program"

(* The objects that exist for the program: in a collection, those that will *)
(* have survived it.                                                       *)
Survivors ==
    CASE phase = "program" -> objects
      [] phase = "trace" -> Reachable(refs, marked)
      [] phase = "sweep" -> objects \ (rest \ marked)

KeptRefs ==
    LET kept == Survivors IN [o \in Objects |-> IF o \in kept THEN refs[o] ELSE {}]

Abstract == INSTANCE Gc WITH
    heap <- Survivors,
    refs <- KeptRefs,
    roots <- roots \cup strings,
    pinned <- IF phase = "program" THEN gray ELSE {}

(* A collection frees exactly what neither the roots nor the constants      *)
(* marked since the last one lead to.                                      *)
ImplementsGc == Abstract!Spec
=============================================================================
