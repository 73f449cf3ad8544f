-------------------------- MODULE CollectorProofs --------------------------
(***************************************************************************)
(* Collector for every set of objects: marking from the roots computes what  *)
(* can be reached, the sweep frees the rest and nothing else, and so a       *)
(* collection is the one step that Gc promises.                            *)
(***************************************************************************)
EXTENDS Collector, TLAPS

-----------------------------------------------------------------------------
(* Reachability.                                                           *)

LEMMA ReachInDomain ==
    ASSUME NEW D, NEW next \in [D -> SUBSET D], NEW S
    PROVE  Reachable(next, S) \subseteq D
BY DEF Reachable

LEMMA ReachContains ==
    ASSUME NEW D, NEW next \in [D -> SUBSET D], NEW S \in SUBSET D
    PROVE  S \subseteq Reachable(next, S)
BY DEF Reachable

LEMMA ReachClosed ==
    ASSUME NEW D, NEW next \in [D -> SUBSET D], NEW S
    PROVE  Closed(Reachable(next, S), next)
<1>1. SUFFICES ASSUME NEW x \in Reachable(next, S), NEW y \in next[x]
               PROVE  y \in Reachable(next, S)
  BY DEF Closed
<1>2. x \in D /\ y \in D
  BY DEF Reachable
<1>3. ASSUME NEW T \in SUBSET D, S \subseteq T, Closed(T, next) PROVE y \in T
  <2>1. x \in T
    BY <1>3 DEF Reachable
  <2>2. QED BY <1>3, <2>1 DEF Closed
<1>4. QED BY <1>2, <1>3 DEF Reachable

(* A closed set that holds the start holds all that can be reached.         *)
LEMMA ReachLeast ==
    ASSUME NEW D, NEW next \in [D -> SUBSET D], NEW S,
           NEW T \in SUBSET D, S \subseteq T, Closed(T, next)
    PROVE  Reachable(next, S) \subseteq T
BY DEF Reachable

(* Starting as well from what can be reached reaches nothing more.          *)
LEMMA ReachAbsorbs ==
    ASSUME NEW D, NEW next \in [D -> SUBSET D], NEW S \in SUBSET D,
           NEW X \in SUBSET D, S \subseteq X, X \subseteq Reachable(next, S)
    PROVE  Reachable(next, X) = Reachable(next, S)
<1>1. Reachable(next, X) \subseteq Reachable(next, S)
  BY ReachLeast, ReachClosed, ReachInDomain
<1>2. Reachable(next, S) \subseteq Reachable(next, X)
  BY ReachLeast, ReachClosed, ReachInDomain, ReachContains
<1>3. QED BY <1>1, <1>2

-----------------------------------------------------------------------------
(* The inductive invariant.                                                *)

(* The objects that are, or will have been, left by the sweep.              *)
Unswept == objects \ (rest \ marked)

HeapFacts ==
    /\ \A o \in Objects \ objects : refs[o] = {}
    /\ phase # "sweep" =>
        /\ Closed(objects, refs)
        /\ roots \cup strings \cup marked \subseteq objects
    /\ phase = "trace" => roots \cup strings \subseteq marked
    /\ phase = "sweep" =>
        /\ Closed(Unswept, refs)
        /\ roots \cup strings \subseteq Unswept

CollectorInv ==
    /\ TypeOK
    /\ BlackIsDone
    /\ MarksAwaitTracing
    /\ SweepClearsMarks
    /\ HeapFacts

LEMMA InitInv == Init => CollectorInv
BY DEF Init, CollectorInv, TypeOK, BlackIsDone, MarksAwaitTracing, SweepClearsMarks,
       HeapFacts, Closed

(* While the program runs, all it can name is on the list.                  *)
LEMMA AccessibleIsThere == CollectorInv => NothingDangles
<1> SUFFICES ASSUME CollectorInv PROVE Accessible \subseteq objects
  BY DEF NothingDangles
<1> USE DEF CollectorInv, HeapFacts
<1>1. refs \in [Objects -> SUBSET Objects] /\ objects \subseteq Objects
  BY DEF TypeOK
<1>2. CASE phase # "sweep"
  BY <1>1, <1>2, ReachLeast DEF Accessible
<1>3. CASE phase = "sweep"
  <2>1. Unswept \subseteq objects
    BY DEF Unswept
  <2>2. QED BY <1>1, <1>3, <2>1, ReachLeast DEF Accessible
<1>4. QED BY <1>2, <1>3

(* The steps of the program.                                               *)
LEMMA ProgramInv == CollectorInv /\ ProgramStep => CollectorInv'
<1> SUFFICES ASSUME CollectorInv, ProgramStep PROVE CollectorInv'
  OBVIOUS
<1> USE DEF CollectorInv
<1>1. Accessible \subseteq objects /\ objects \subseteq Objects
  BY AccessibleIsThere DEF NothingDangles, TypeOK
<1>2. ASSUME NEW o \in Objects, Allocate(o) PROVE CollectorInv'
  <2>1. phase = "program" /\ marked \subseteq objects
    BY <1>2 DEF Allocate, HeapFacts
  <2>2. marked' = marked
    BY <1>2, <2>1 DEF Allocate
  <2>3. TypeOK'
    BY <1>2, <2>2 DEF Allocate, TypeOK
  <2>4. BlackIsDone' /\ MarksAwaitTracing' /\ SweepClearsMarks'
    BY <1>2, <2>2 DEF Allocate, BlackIsDone, MarksAwaitTracing, SweepClearsMarks
  <2>5. HeapFacts'
    BY <1>2, <2>1, <2>2 DEF Allocate, HeapFacts
  <2>6. QED BY <2>3, <2>4, <2>5
<1>3. ASSUME NEW o \in raw, NEW kids \in SUBSET Accessible, Link(o, kids) PROVE CollectorInv'
  <2>1. TypeOK'
    BY <1>1, <1>3 DEF Link, TypeOK
  <2>2. BlackIsDone' /\ MarksAwaitTracing' /\ SweepClearsMarks'
    BY <1>3 DEF Link, BlackIsDone, MarksAwaitTracing, SweepClearsMarks
  <2>3. HeapFacts'
    BY <1>1, <1>3 DEF Link, HeapFacts, TypeOK, Closed
  <2>4. QED BY <2>1, <2>2, <2>3
<1>4. ASSUME NEW o \in Accessible, Root(o) \/ Intern(o) PROVE CollectorInv'
  <2>1. TypeOK'
    BY <1>1, <1>4 DEF Root, Intern, TypeOK
  <2>2. BlackIsDone' /\ MarksAwaitTracing' /\ SweepClearsMarks'
    BY <1>4 DEF Root, Intern, BlackIsDone, MarksAwaitTracing, SweepClearsMarks
  <2>3. HeapFacts'
    BY <1>1, <1>4 DEF Root, Intern, HeapFacts
  <2>4. QED BY <2>1, <2>2, <2>3
<1>5. ASSUME NEW o \in Accessible, Pin(o) PROVE CollectorInv'
  <2>1. TypeOK'
    BY <1>1, <1>5 DEF Pin, Mark, TypeOK
  <2>2. BlackIsDone' /\ MarksAwaitTracing' /\ SweepClearsMarks'
    BY <1>5 DEF Pin, Mark, BlackIsDone, MarksAwaitTracing, SweepClearsMarks
  <2>3. HeapFacts'
    BY <1>1, <1>5 DEF Pin, Mark, HeapFacts
  <2>4. QED BY <2>1, <2>2, <2>3
<1>6. ASSUME NEW o \in roots, Unroot(o) PROVE CollectorInv'
  <2>1. TypeOK'
    BY <1>6 DEF Unroot, TypeOK
  <2>2. BlackIsDone' /\ MarksAwaitTracing' /\ SweepClearsMarks'
    BY <1>6 DEF Unroot, BlackIsDone, MarksAwaitTracing, SweepClearsMarks
  <2>3. HeapFacts'
    BY <1>6 DEF Unroot, HeapFacts
  <2>4. QED BY <2>1, <2>2, <2>3
<1>7. ASSUME NEW o \in Accessible, NEW p \in Accessible, Store(o, p) \/ Erase(o, p)
      PROVE  CollectorInv'
  <2>1. TypeOK'
    BY <1>1, <1>7 DEF Store, Erase, TypeOK
  <2>2. BlackIsDone' /\ MarksAwaitTracing' /\ SweepClearsMarks'
    BY <1>7 DEF Store, Erase, BlackIsDone, MarksAwaitTracing, SweepClearsMarks
  <2>3. HeapFacts'
    BY <1>1, <1>7 DEF Store, Erase, HeapFacts, TypeOK, Closed
  <2>4. QED BY <2>1, <2>2, <2>3
<1>8. QED BY <1>2, <1>3, <1>4, <1>5, <1>6, <1>7 DEF ProgramStep

(* The steps of a collection.                                              *)
LEMMA CollectInv == CollectorInv /\ (MarkRoots \/ CollectorStep) => CollectorInv'
<1> SUFFICES ASSUME CollectorInv, MarkRoots \/ CollectorStep PROVE CollectorInv'
  OBVIOUS
<1> USE DEF CollectorInv
<1>1. CASE MarkRoots
  <2>1. TypeOK'
    BY <1>1 DEF MarkRoots, Mark, program, TypeOK
  <2>2. BlackIsDone' /\ MarksAwaitTracing' /\ SweepClearsMarks'
    BY <1>1 DEF MarkRoots, Mark, program, BlackIsDone, MarksAwaitTracing, SweepClearsMarks
  <2>3. HeapFacts'
    BY <1>1 DEF MarkRoots, Mark, program, HeapFacts
  <2>4. QED BY <2>1, <2>2, <2>3
<1>2. ASSUME NEW o \in gray, Blacken(o) PROVE CollectorInv'
  <2>1. o \in marked /\ refs[o] \subseteq objects
    BY <1>2 DEF Blacken, BlackIsDone, HeapFacts, Closed
  <2>2. TypeOK'
    BY <1>2, <2>1 DEF Blacken, program, TypeOK
  <2>3. BlackIsDone' /\ MarksAwaitTracing' /\ SweepClearsMarks'
    BY <1>2, <2>1 DEF Blacken, program, BlackIsDone, MarksAwaitTracing, SweepClearsMarks
  <2>4. HeapFacts'
    BY <1>2, <2>1 DEF Blacken, program, HeapFacts
  <2>5. QED BY <2>2, <2>3, <2>4
<1>3. CASE RemoveWhite
  <2>1. strings' = strings
    BY <1>3 DEF RemoveWhite, HeapFacts
  <2>2. TypeOK'
    BY <1>3, <2>1 DEF RemoveWhite, program, TypeOK
  <2>3. BlackIsDone' /\ MarksAwaitTracing' /\ SweepClearsMarks'
    BY <1>3 DEF RemoveWhite, program, BlackIsDone, MarksAwaitTracing, SweepClearsMarks, HeapFacts
  <2>4. Unswept' = marked
    BY <1>3 DEF RemoveWhite, program, Unswept, HeapFacts
  <2>5. HeapFacts'
    BY <1>3, <2>1, <2>4 DEF RemoveWhite, program, HeapFacts, BlackIsDone, Closed
  <2>6. QED BY <2>2, <2>3, <2>5
<1>4. ASSUME NEW o \in rest, Keep(o) PROVE CollectorInv'
  <2>1. TypeOK'
    BY <1>4 DEF Keep, program, TypeOK
  <2>2. BlackIsDone' /\ MarksAwaitTracing' /\ SweepClearsMarks'
    BY <1>4 DEF Keep, program, BlackIsDone, MarksAwaitTracing, SweepClearsMarks
  <2>3. Unswept' = Unswept
    BY <1>4 DEF Keep, program, Unswept, TypeOK
  <2>4. HeapFacts'
    BY <1>4, <2>3 DEF Keep, program, HeapFacts
  <2>5. QED BY <2>1, <2>2, <2>4
<1>5. ASSUME NEW o \in rest, Free(o) PROVE CollectorInv'
  <2>1. TypeOK'
    BY <1>5 DEF Free, TypeOK
  <2>2. BlackIsDone' /\ MarksAwaitTracing' /\ SweepClearsMarks'
    BY <1>5 DEF Free, BlackIsDone, MarksAwaitTracing, SweepClearsMarks
  <2>3. Unswept' = Unswept /\ o \notin Unswept
    BY <1>5 DEF Free, Unswept, TypeOK
  <2>4. \A x \in Unswept : refs'[x] = refs[x]
    BY <1>5, <2>3 DEF Free, TypeOK, Unswept
  <2>5. HeapFacts'
    BY <1>5, <2>3, <2>4 DEF Free, HeapFacts, Closed, TypeOK
  <2>6. QED BY <2>1, <2>2, <2>5
<1>6. CASE EndCollect
  <2>1. Unswept = objects /\ marked = {}
    BY <1>6 DEF EndCollect, Unswept, SweepClearsMarks
  <2>2. TypeOK'
    BY <1>6 DEF EndCollect, program, TypeOK
  <2>3. BlackIsDone' /\ MarksAwaitTracing' /\ SweepClearsMarks'
    BY <1>6, <2>1 DEF EndCollect, program, BlackIsDone, MarksAwaitTracing, SweepClearsMarks
  <2>4. HeapFacts'
    BY <1>6, <2>1 DEF EndCollect, program, HeapFacts
  <2>5. QED BY <2>2, <2>3, <2>4
<1>7. QED BY <1>1, <1>2, <1>3, <1>4, <1>5, <1>6 DEF CollectorStep

(* The collector's invariant holds for ever.                               *)
THEOREM CollectorInvariant == Spec => []CollectorInv
<1>1. Init => CollectorInv
  BY InitInv
<1>2. CollectorInv /\ [Next]_vars => CollectorInv'
  <2> SUFFICES ASSUME CollectorInv, [Next]_vars PROVE CollectorInv'
    OBVIOUS
  <2>1. CASE Next
    BY <2>1, ProgramInv, CollectInv DEF Next
  <2>2. CASE UNCHANGED vars
    BY <2>2 DEF vars, CollectorInv, TypeOK, BlackIsDone, MarksAwaitTracing,
                SweepClearsMarks, HeapFacts, Unswept
  <2>3. QED BY <2>1, <2>2
<1>3. QED BY <1>1, <1>2, PTL DEF Spec

(* Every variable keeps its type.                                          *)
THEOREM TypeCorrect == Spec => []TypeOK
<1>1. CollectorInv => TypeOK
  BY DEF CollectorInv
<1>2. QED BY <1>1, CollectorInvariant, PTL

(* No object that the program can still reach is ever freed.                *)
THEOREM ReachableIsKept == Spec => []NothingDangles
<1>1. QED BY AccessibleIsThere, CollectorInvariant, PTL

(* Marked and off the gray stack means all references marked.               *)
THEOREM TraceIsThorough == Spec => []BlackIsDone
<1>1. CollectorInv => BlackIsDone
  BY DEF CollectorInv
<1>2. QED BY <1>1, CollectorInvariant, PTL

(* A mark that outlives a collection has its place on the gray stack.       *)
THEOREM MarksAreQueued == Spec => []MarksAwaitTracing
<1>1. CollectorInv => MarksAwaitTracing
  BY DEF CollectorInv
<1>2. QED BY <1>1, CollectorInvariant, PTL

(* The sweep finds every mark that is left, and takes it away.              *)
THEOREM SweepUnmarks == Spec => []SweepClearsMarks
<1>1. CollectorInv => SweepClearsMarks
  BY DEF CollectorInv
<1>2. QED BY <1>1, CollectorInvariant, PTL

(* An interned string is never dropped.                                    *)
THEOREM InternedStay == Spec => InternedForEver
<1>1. CollectorInv /\ [Next]_vars => [strings \subseteq strings']_vars
  <2> SUFFICES ASSUME CollectorInv, [Next]_vars PROVE strings \subseteq strings' \/ UNCHANGED vars
    OBVIOUS
  <2>1. CASE RemoveWhite
    BY <2>1 DEF RemoveWhite, CollectorInv, HeapFacts
  <2>2. CASE ~RemoveWhite
    BY <2>2 DEF Next, ProgramStep, CollectorStep, Allocate, Link, Root, Intern, Pin, Unroot,
                Store, Erase, MarkRoots, Blacken, Keep, Free, EndCollect, vars
  <2>3. QED BY <2>1, <2>2
<1>2. QED BY <1>1, CollectorInvariant, PTL DEF Spec, InternedForEver

-----------------------------------------------------------------------------
(* A collection is one step of Gc: the one that marks the roots.            *)

heapBar == Survivors
rootsBar == roots \cup strings
pinnedBar == IF phase = "program" THEN gray ELSE {}

(* A step of the program is the same step of Gc.                            *)
LEMMA ProgramRefines ==
    CollectorInv /\ ProgramStep => [Abstract!Next]_<<heapBar, KeptRefs, rootsBar, pinnedBar>>
<1> SUFFICES ASSUME CollectorInv, ProgramStep
             PROVE  [Abstract!Next]_<<heapBar, KeptRefs, rootsBar, pinnedBar>>
  OBVIOUS
<1> USE DEF CollectorInv
<1>1. phase = "program" /\ phase' = "program"
  BY DEF ProgramStep, Allocate, Link, Root, Intern, Pin, Unroot, Store, Erase
<1>2. heapBar = objects /\ heapBar' = objects'
  BY <1>1 DEF heapBar, Survivors
<1>3. pinnedBar = gray /\ pinnedBar' = gray'
  BY <1>1 DEF pinnedBar
<1>4. refs \in [Objects -> SUBSET Objects] /\ objects \subseteq Objects
  BY DEF TypeOK
<1>5. KeptRefs = refs
  BY <1>2, <1>4 DEF KeptRefs, heapBar, HeapFacts
<1>6. CollectorInv'
  BY ProgramInv
<1>7. KeptRefs' = refs'
  <2>1. refs' \in [Objects -> SUBSET Objects]
    BY <1>6 DEF TypeOK
  <2>2. \A o \in Objects \ objects' : refs'[o] = {}
    BY <1>6 DEF HeapFacts
  <2>3. QED BY <1>2, <2>1, <2>2 DEF KeptRefs, heapBar
<1>8. Abstract!Accessible = Accessible
  BY <1>5 DEF Abstract!Accessible, Accessible, Abstract!Reachable, Reachable,
              Abstract!Closed, Closed, KeptRefs
<1>9. Accessible \subseteq objects
  BY AccessibleIsThere DEF NothingDangles
<1>10. ASSUME NEW o \in Objects, Allocate(o) PROVE UNCHANGED <<heapBar, KeptRefs, rootsBar, pinnedBar>>
  BY <1>2, <1>3, <1>5, <1>7, <1>10 DEF Allocate, rootsBar
<1>11. ASSUME NEW o \in raw, NEW kids \in SUBSET Accessible, Link(o, kids) PROVE Abstract!Next
  <2>1. o \in Objects /\ o \notin heapBar
    BY <1>2 DEF TypeOK
  <2>2. /\ heapBar' = heapBar \cup {o}
        /\ KeptRefs' = [KeptRefs EXCEPT ![o] = kids]
        /\ rootsBar' = rootsBar \cup {o}
        /\ pinnedBar' = pinnedBar
    BY <1>2, <1>3, <1>5, <1>7, <1>11 DEF Link, rootsBar
  <2>3. Abstract!New(o, kids)
    BY <2>1, <2>2 DEF Abstract!New, heapBar, KeptRefs, rootsBar, pinnedBar
  <2>4. QED BY <1>8, <2>1, <2>3 DEF Abstract!Next, heapBar
<1>12. ASSUME NEW o \in Accessible, Root(o) \/ Intern(o) PROVE Abstract!Next
  <2>1. /\ heapBar' = heapBar /\ KeptRefs' = KeptRefs /\ pinnedBar' = pinnedBar
        /\ rootsBar' = rootsBar \cup {o}
    BY <1>2, <1>3, <1>5, <1>7, <1>12 DEF Root, Intern, rootsBar
  <2>2. Abstract!Root(o)
    BY <2>1 DEF Abstract!Root, heapBar, KeptRefs, rootsBar, pinnedBar
  <2>3. QED BY <1>8, <2>2 DEF Abstract!Next
<1>13. ASSUME NEW o \in Accessible, Pin(o) PROVE Abstract!Next
  <2>1. /\ heapBar' = heapBar /\ KeptRefs' = KeptRefs /\ rootsBar' = rootsBar
        /\ pinnedBar' = pinnedBar \cup {o}
    BY <1>1, <1>2, <1>3, <1>5, <1>7, <1>13 DEF Pin, Mark, rootsBar, MarksAwaitTracing
  <2>2. Abstract!Pin(o)
    BY <2>1 DEF Abstract!Pin, heapBar, KeptRefs, rootsBar, pinnedBar
  <2>3. QED BY <1>8, <2>2 DEF Abstract!Next
<1>14. ASSUME NEW o \in roots, Unroot(o)
       PROVE  [Abstract!Next]_<<heapBar, KeptRefs, rootsBar, pinnedBar>>
  <2>1. heapBar' = heapBar /\ KeptRefs' = KeptRefs /\ pinnedBar' = pinnedBar
    BY <1>2, <1>3, <1>5, <1>7, <1>14 DEF Unroot
  <2>2. CASE o \in strings
    <3>1. rootsBar' = rootsBar
      BY <1>14, <2>2 DEF Unroot, rootsBar
    <3>2. QED BY <2>1, <3>1
  <2>3. CASE o \notin strings
    <3>1. rootsBar' = rootsBar \ {o} /\ o \in rootsBar
      BY <1>14, <2>3 DEF Unroot, rootsBar
    <3>2. Abstract!Unroot(o)
      BY <2>1, <3>1 DEF Abstract!Unroot, heapBar, KeptRefs, rootsBar, pinnedBar
    <3>3. QED BY <3>1, <3>2 DEF Abstract!Next, rootsBar
  <2>4. QED BY <2>2, <2>3
<1>15. ASSUME NEW o \in Accessible, NEW p \in Accessible, Store(o, p) PROVE Abstract!Next
  <2>1. /\ heapBar' = heapBar /\ rootsBar' = rootsBar /\ pinnedBar' = pinnedBar
        /\ KeptRefs' = [KeptRefs EXCEPT ![o] = @ \cup {p}]
    BY <1>2, <1>3, <1>5, <1>7, <1>15 DEF Store, rootsBar
  <2>2. Abstract!Store(o, p)
    BY <2>1 DEF Abstract!Store, heapBar, KeptRefs, rootsBar, pinnedBar
  <2>3. QED BY <1>8, <2>2 DEF Abstract!Next
<1>16. ASSUME NEW o \in Accessible, NEW p \in Accessible, Erase(o, p) PROVE Abstract!Next
  <2>1. /\ heapBar' = heapBar /\ rootsBar' = rootsBar /\ pinnedBar' = pinnedBar
        /\ KeptRefs' = [KeptRefs EXCEPT ![o] = @ \ {p}]
    BY <1>2, <1>3, <1>5, <1>7, <1>16 DEF Erase, rootsBar
  <2>2. Abstract!Erase(o, p)
    BY <2>1 DEF Abstract!Erase, heapBar, KeptRefs, rootsBar, pinnedBar
  <2>3. QED BY <1>8, <2>2 DEF Abstract!Next
<1>17. QED BY <1>10, <1>11, <1>12, <1>13, <1>14, <1>15, <1>16 DEF ProgramStep

(* Marking the roots is the collection; the trace and the sweep only carry  *)
(* out what it has decided.                                                *)
LEMMA CollectRefines ==
    CollectorInv /\ (MarkRoots \/ CollectorStep)
        => [Abstract!Next]_<<heapBar, KeptRefs, rootsBar, pinnedBar>>
<1> SUFFICES ASSUME CollectorInv, MarkRoots \/ CollectorStep
             PROVE  [Abstract!Next]_<<heapBar, KeptRefs, rootsBar, pinnedBar>>
  OBVIOUS
<1> USE DEF CollectorInv
<1>1. refs \in [Objects -> SUBSET Objects] /\ objects \subseteq Objects /\ marked \subseteq Objects
  BY DEF TypeOK
<1>2. CASE MarkRoots
  <2>1. phase = "program" /\ phase' = "trace" /\ refs' = refs
        /\ roots' = roots /\ strings' = strings
    BY <1>2 DEF MarkRoots, program
  <2>2. heapBar = objects /\ pinnedBar = gray /\ pinnedBar' = {} /\ rootsBar' = rootsBar
    BY <2>1 DEF heapBar, Survivors, pinnedBar, rootsBar
  <2>3. KeptRefs = refs
    BY <1>1, <2>2 DEF KeptRefs, heapBar, HeapFacts
  <2>4. marked' = rootsBar \cup gray
    BY <1>2, <2>1 DEF MarkRoots, Mark, MarksAwaitTracing, rootsBar
  <2>5. heapBar' = Reachable(refs, rootsBar \cup gray)
    BY <2>1, <2>4 DEF heapBar, Survivors
  <2>6. KeptRefs' = [o \in Objects |-> IF o \in heapBar' THEN refs[o] ELSE {}]
    BY <2>1 DEF KeptRefs, heapBar
  <2>7. Abstract!Reachable(KeptRefs, rootsBar \cup pinnedBar) = heapBar'
    BY <2>2, <2>3, <2>5 DEF Abstract!Reachable, Reachable, Abstract!Closed, Closed
  <2>8. /\ heapBar' = Abstract!Reachable(KeptRefs, rootsBar \cup pinnedBar)
        /\ KeptRefs' = [o \in Objects |->
                IF o \in Abstract!Reachable(KeptRefs, rootsBar \cup pinnedBar)
                THEN KeptRefs[o] ELSE {}]
        /\ pinnedBar' = {}
        /\ rootsBar' = rootsBar
    BY <2>2, <2>3, <2>6, <2>7
  <2>9. Abstract!Collect
    BY <2>8 DEF Abstract!Collect, heapBar, KeptRefs, rootsBar, pinnedBar
  <2>10. QED BY <2>9 DEF Abstract!Next
<1>3. ASSUME NEW o \in gray, Blacken(o)
      PROVE  UNCHANGED <<heapBar, KeptRefs, rootsBar, pinnedBar>>
  <2>1. phase = "trace" /\ phase' = "trace" /\ refs' = refs
        /\ roots' = roots /\ strings' = strings /\ marked' = marked \cup refs[o]
    BY <1>3 DEF Blacken, program
  <2>2. o \in marked
    BY <1>3, <2>1 DEF BlackIsDone
  <2>3. marked \subseteq Reachable(refs, marked) /\ refs[o] \subseteq Reachable(refs, marked)
    BY <1>1, <2>2, ReachContains, ReachClosed DEF Closed
  <2>4. marked \cup refs[o] \in SUBSET Objects
    BY <1>1, <2>2
  <2>5. Reachable(refs, marked \cup refs[o]) = Reachable(refs, marked)
    BY <1>1, <2>3, <2>4, ReachAbsorbs
  <2>6. Survivors' = Survivors
    BY <2>1, <2>5 DEF Survivors
  <2>7. QED BY <2>1, <2>6 DEF heapBar, KeptRefs, rootsBar, pinnedBar
<1>4. ASSUME RemoveWhite PROVE UNCHANGED <<heapBar, KeptRefs, rootsBar, pinnedBar>>
  <2>1. phase = "trace" /\ phase' = "sweep" /\ refs' = refs /\ gray = {}
        /\ roots' = roots /\ marked' = marked /\ objects' = objects /\ rest' = objects
    BY <1>4 DEF RemoveWhite, program
  <2>2. strings' = strings
    BY <1>4 DEF RemoveWhite, HeapFacts
  <2>3. Closed(marked, refs)
    BY <2>1 DEF BlackIsDone, Closed
  <2>4. Reachable(refs, marked) = marked
    BY <1>1, <2>3, ReachLeast, ReachContains
  <2>5. objects \ (objects \ marked) = marked
    BY <2>1 DEF HeapFacts
  <2>6. Survivors' = Survivors
    BY <2>1, <2>4, <2>5 DEF Survivors
  <2>7. QED BY <2>1, <2>2, <2>6 DEF heapBar, KeptRefs, rootsBar, pinnedBar
<1>5. ASSUME NEW o \in rest, Keep(o) PROVE UNCHANGED <<heapBar, KeptRefs, rootsBar, pinnedBar>>
  <2>1. phase = "sweep" /\ phase' = "sweep" /\ UNCHANGED <<refs, roots, strings>>
    BY <1>5 DEF Keep, program
  <2>2. Survivors' = Survivors
    BY <1>5, <2>1 DEF Keep, program, Survivors
  <2>3. QED BY <2>1, <2>2 DEF heapBar, KeptRefs, rootsBar, pinnedBar
<1>6. ASSUME NEW o \in rest, Free(o) PROVE UNCHANGED <<heapBar, KeptRefs, rootsBar, pinnedBar>>
  <2>1. phase = "sweep" /\ phase' = "sweep" /\ UNCHANGED <<roots, strings>>
        /\ refs' = [refs EXCEPT ![o] = {}]
    BY <1>6 DEF Free
  <2>2. Survivors' = Survivors /\ o \notin Survivors
    BY <1>6, <2>1 DEF Free, Survivors
  <2>3. KeptRefs' = KeptRefs
    BY <1>1, <2>1, <2>2 DEF KeptRefs
  <2>4. heapBar' = heapBar /\ rootsBar' = rootsBar /\ pinnedBar' = pinnedBar
    BY <2>1, <2>2 DEF heapBar, rootsBar, pinnedBar
  <2>5. QED BY <2>3, <2>4
<1>7. ASSUME EndCollect PROVE UNCHANGED <<heapBar, KeptRefs, rootsBar, pinnedBar>>
  <2>1. phase = "sweep" /\ phase' = "program" /\ rest = {} /\ gray' = {}
        /\ UNCHANGED <<objects, refs, roots, strings>>
    BY <1>7 DEF EndCollect, program, SweepClearsMarks
  <2>2. Survivors' = Survivors
    BY <2>1 DEF Survivors
  <2>3. QED BY <2>1, <2>2 DEF heapBar, KeptRefs, rootsBar, pinnedBar
<1>8. QED BY <1>2, <1>3, <1>4, <1>5, <1>6, <1>7 DEF CollectorStep

(* A collection, however many steps it takes, does what Gc promises: it      *)
(* frees everything the roots and the pinned constants do not lead to, and  *)
(* nothing else.                                                           *)
THEOREM CollectorImplementsGc == Spec => ImplementsGc
<1>1. Init => Abstract!Init
  <2> SUFFICES ASSUME Init PROVE Abstract!Init
    OBVIOUS
  <2>1. QED BY DEF Init, Abstract!Init, Survivors, KeptRefs
<1>2. CollectorInv /\ [Next]_vars => [Abstract!Next]_<<heapBar, KeptRefs, rootsBar, pinnedBar>>
  <2> SUFFICES ASSUME CollectorInv, [Next]_vars
               PROVE  [Abstract!Next]_<<heapBar, KeptRefs, rootsBar, pinnedBar>>
    OBVIOUS
  <2>1. CASE Next
    BY <2>1, ProgramRefines, CollectRefines DEF Next
  <2>2. CASE UNCHANGED vars
    BY <2>2 DEF vars, heapBar, KeptRefs, rootsBar, pinnedBar, Survivors
  <2>3. QED BY <2>1, <2>2
<1>3. QED
  BY <1>1, <1>2, CollectorInvariant, PTL
     DEF Spec, ImplementsGc, Abstract!Spec, heapBar, KeptRefs, rootsBar, pinnedBar
=============================================================================
