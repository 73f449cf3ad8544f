--------------------------- MODULE UpvaluesProofs ---------------------------
(***************************************************************************)
(* Upvalues for every size of stack and every number of closures: the list  *)
(* of open upvalues stays sorted and true to the stack, and slots and       *)
(* upvalues together implement Cells, for programs that neither pop a       *)
(* captured variable nor fail at run time while a variable is captured.     *)
(***************************************************************************)
EXTENDS Upvalues, WellFoundedInduction, TLAPS

-----------------------------------------------------------------------------
(* Sequences.                                                              *)

(* A set of numbers that is not empty has a least one.                      *)
LEMMA LeastNat ==
    ASSUME NEW S \in SUBSET Nat, S # {}
    PROVE  \E m \in S : \A n \in S : m <= n
<1> DEFINE R == {ss \in Nat \X Nat : ss[1] < ss[2]}
<1>1. IsWellFoundedOn(R, Nat)
  BY NatLessThanWellFounded DEF OpToRel
<1>2. \E x \in S : \A y \in S : <<y, x>> \notin R
  <2> HIDE DEF R
  <2>1. QED BY <1>1, WFMin, Zenon
<1>3. PICK m \in S : \A n \in S : <<n, m>> \notin R
  BY <1>2
<1>4. ASSUME NEW n \in S PROVE m <= n
  <2>1. n \in Nat /\ m \in Nat
    OBVIOUS
  <2>2. n < m => <<n, m>> \in R
    BY <2>1
  <2>3. <<n, m>> \notin R
    BY <1>3
  <2>4. ~(n < m)
    <3> HIDE DEF R
    <3>1. QED BY <2>2, <2>3
  <2>5. QED BY <2>1, <2>4
<1>5. QED BY <1>4

LEMMA Element ==
    ASSUME NEW S, NEW s \in Seq(S), NEW i \in 1 .. Len(s)
    PROVE  s[i] \in S
OBVIOUS

(* The first elements of a sequence.                                        *)
LEMMA Prefix ==
    ASSUME NEW S, NEW s \in Seq(S), NEW n \in 0 .. Len(s)
    PROVE  /\ SubSeq(s, 1, n) \in Seq(S)
           /\ Len(SubSeq(s, 1, n)) = n
           /\ \A i \in 1 .. n : SubSeq(s, 1, n)[i] = s[i]
OBVIOUS

(* Linking an element in after the first n of a sequence.                   *)
LEMMA InsertRange ==
    ASSUME NEW S, NEW s \in Seq(S), NEW e \in S, NEW n \in 0 .. Len(s),
           NEW t \in Seq(S), Len(t) = Len(s) + 1,
           \A i \in 1 .. n : t[i] = s[i],
           t[n + 1] = e,
           \A i \in n + 2 .. Len(t) : t[i] = s[i - 1]
    PROVE  Range(t) = Range(s) \cup {e}
<1>1. DOMAIN t = 1 .. Len(t) /\ DOMAIN s = 1 .. Len(s) /\ Len(s) \in Nat
  OBVIOUS
<1>2. ASSUME NEW i \in 1 .. Len(t) PROVE t[i] \in Range(s) \cup {e}
  <2>1. CASE i <= n
    BY <1>1, <2>1 DEF Range
  <2>2. CASE i = n + 1
    BY <2>2
  <2>3. CASE i > n + 1
    <3>1. i \in n + 2 .. Len(t) /\ i - 1 \in DOMAIN s
      BY <1>1, <2>3
    <3>2. QED BY <3>1 DEF Range
  <2>4. QED BY <2>1, <2>2, <2>3
<1>3. ASSUME NEW j \in 1 .. Len(s) PROVE s[j] \in Range(t)
  <2>1. CASE j <= n
    BY <1>1, <2>1 DEF Range
  <2>2. CASE j > n
    <3>1. j + 1 \in n + 2 .. Len(t) /\ j + 1 \in DOMAIN t
      BY <1>1, <2>2
    <3>2. t[j + 1] = s[j + 1 - 1]
      BY <3>1
    <3>3. t[j + 1] = s[j]
      BY <3>2
    <3>4. QED BY <3>1, <3>3 DEF Range
  <2>3. QED BY <2>1, <2>2
<1>4. e \in Range(t)
  <2>1. n + 1 \in DOMAIN t
    BY <1>1
  <2>2. QED BY <2>1 DEF Range
<1>5. QED BY <1>1, <1>2, <1>3, <1>4 DEF Range

Linked(s, e, n) == Append(SubSeq(s, 1, n), e) \o SubSeq(s, n + 1, Len(s))

LEMMA Insert ==
    ASSUME NEW S, NEW s \in Seq(S), NEW e \in S, NEW n \in 0 .. Len(s),
           NEW t, t = Linked(s, e, n)
    PROVE  /\ t \in Seq(S)
           /\ Len(t) = Len(s) + 1
           /\ \A i \in 1 .. n : t[i] = s[i]
           /\ t[n + 1] = e
           /\ \A i \in n + 2 .. Len(t) : t[i] = s[i - 1]
           /\ Range(t) = Range(s) \cup {e}
<1> DEFINE a == SubSeq(s, 1, n)
           b == SubSeq(s, n + 1, Len(s))
<1>1. /\ a \in Seq(S) /\ Len(a) = n /\ \A i \in 1 .. n : a[i] = s[i]
      /\ b \in Seq(S) /\ Len(b) = Len(s) - n /\ \A i \in 1 .. Len(b) : b[i] = s[n + i]
  OBVIOUS
<1> HIDE DEF a, b
<1> DEFINE c == Append(a, e)
<1>2. /\ c \in Seq(S) /\ Len(c) = n + 1
      /\ \A i \in 1 .. n : c[i] = a[i]
      /\ c[n + 1] = e
  BY <1>1
<1> HIDE DEF c
<1>3. /\ c \o b \in Seq(S)
      /\ Len(c \o b) = Len(s) + 1
      /\ \A i \in 1 .. n + 1 : (c \o b)[i] = c[i]
      /\ \A i \in n + 2 .. Len(s) + 1 : (c \o b)[i] = b[i - (n + 1)]
  BY <1>2, <1>1
<1>4. t = c \o b
  BY DEF a, b, c, Linked
<1>5. /\ t \in Seq(S)
      /\ Len(t) = Len(s) + 1
      /\ \A i \in 1 .. n : t[i] = s[i]
      /\ t[n + 1] = e
      /\ \A i \in n + 2 .. Len(t) : t[i] = s[i - 1]
  <2>1. t \in Seq(S) /\ Len(t) = Len(s) + 1
    BY <1>3, <1>4
  <2>2. t[n + 1] = e /\ \A i \in 1 .. n : t[i] = s[i]
    BY <1>3, <1>4, <1>2, <1>1
  <2>3. ASSUME NEW i \in n + 2 .. Len(t) PROVE t[i] = s[i - 1]
    <3>1. t[i] = b[i - (n + 1)]
      BY <2>1, <1>3, <1>4
    <3>2. i - (n + 1) \in 1 .. Len(b) /\ n + (i - (n + 1)) = i - 1
      BY <2>1, <1>1
    <3>3. QED BY <3>1, <3>2, <1>1
  <2>4. QED BY <2>1, <2>2, <2>3
<1>6. Range(t) = Range(s) \cup {e}
  BY <1>5, InsertRange
<1>7. QED BY <1>5, <1>6

-----------------------------------------------------------------------------
(* The list of open upvalues.                                              *)

(* A closure is filled in while the frame of its OP_CLOSURE runs.           *)
BuildingInFrame == building # Main => frames # <<>>

SlotsNamed == Len(names) = sp

ListInv ==
    /\ TypeOK
    /\ OpenSorted
    /\ OpenAreLive
    /\ FramesNest
    /\ BuildingInFrame
    /\ SlotsNamed

(* A walk along the list stops at the first upvalue that is not above the    *)
(* slot, or at the end.                                                    *)
LEMMA AboveStops ==
    ASSUME TypeOK, NEW slot \in Nat
    PROVE  /\ Above(slot) \in 0 .. Len(open)
           /\ \A i \in 1 .. Above(slot) : location[open[i]] > slot
           /\ Above(slot) < Len(open) => location[open[Above(slot) + 1]] <= slot
<1> DEFINE Stops(n) == n < Len(open) => location[open[n + 1]] <= slot
           S == {n \in 0 .. Len(open) : Stops(n)}
           P(n) == /\ \A i \in 1 .. n : location[open[i]] > slot
                   /\ n < Len(open) => location[open[n + 1]] <= slot
<1>1. Len(open) \in Nat /\ \A i \in 1 .. Len(open) : location[open[i]] \in Nat
  BY DEF TypeOK
<1>2. S \in SUBSET Nat /\ Len(open) \in S
  BY <1>1
<1>3. PICK n \in S : \A k \in S : n <= k
  <2> HIDE DEF S
  <2>1. QED BY <1>2, LeastNat
<1>4. ASSUME NEW i \in 1 .. n PROVE location[open[i]] > slot
  <2>1. i - 1 \in 0 .. Len(open) /\ i - 1 < n /\ i \in 1 .. Len(open)
    BY <1>1
  <2>2. i - 1 \notin S
    <3> HIDE DEF S
    <3>1. QED BY <1>2, <1>3, <2>1
  <2>3. ~(location[open[i - 1 + 1]] <= slot)
    BY <2>1, <2>2
  <2>4. i - 1 + 1 = i
    BY <2>1
  <2>5. QED BY <1>1, <2>1, <2>3, <2>4
<1>5. n \in 0 .. Len(open) /\ P(n)
  BY <1>3, <1>4
<1>6. Above(slot) = CHOOSE k \in 0 .. Len(open) : P(k)
  BY DEF Above
<1> HIDE DEF P
<1>7. Above(slot) \in 0 .. Len(open) /\ P(Above(slot))
  BY <1>5, <1>6
<1>8. QED BY <1>7 DEF P

(* What close_upvalues leaves: no upvalue at `last` or above is open, the    *)
(* others stay as they were.                                               *)
LEMMA CloseLeaves ==
    ASSUME TypeOK, OpenSorted, OpenAreLive, NEW last \in 1 .. STACK_MAX,
           CloseUpvalues(last)
    PROVE  /\ open' \in Seq(created)
           /\ location' \in [Upvalues -> 0 .. STACK_MAX]
           /\ closed' \in [Upvalues -> Values]
           /\ \A i, j \in 1 .. Len(open') :
                 i < j => location'[open'[i]] > location'[open'[j]]
           /\ Range(open') = {u \in created : location'[u] # 0}
           /\ \A u \in created :
                 IF location[u] >= last
                 THEN location'[u] = 0 /\ closed'[u] = stack[location[u]]
                 ELSE location'[u] = location[u] /\ closed'[u] = closed[u]
<1> DEFINE n == Above(last - 1)
           gone == {open[i] : i \in 1 .. n}
<1>1. /\ n \in 0 .. Len(open)
      /\ \A i \in 1 .. n : location[open[i]] > last - 1
      /\ n < Len(open) => location[open[n + 1]] <= last - 1
  <2>1. last - 1 \in Nat
    BY UpvaluesAssumption
  <2>2. QED BY <2>1, AboveStops
<1>2. /\ closed' = [u \in Upvalues |->
                      IF u \in gone THEN stack[location[u]] ELSE closed[u]]
      /\ location' = [u \in Upvalues |-> IF u \in gone THEN 0 ELSE location[u]]
      /\ open' = SubSeq(open, n + 1, Len(open))
  BY DEF CloseUpvalues
<1> HIDE DEF n
<1>3. /\ open \in Seq(created) /\ created \subseteq Upvalues
      /\ \A u \in Upvalues : location[u] \in 0 .. STACK_MAX
  BY DEF TypeOK
<1>4. last \in Nat /\ last >= 1 /\ last <= STACK_MAX
  BY UpvaluesAssumption
<1>5. \A i \in 1 .. Len(open) : open[i] \in created /\ location[open[i]] \in Nat
  BY <1>3, UpvaluesAssumption
<1>6. \A i \in n + 1 .. Len(open) : location[open[i]] < last
  <2>1. ASSUME NEW i \in n + 1 .. Len(open) PROVE location[open[i]] < last
    <3>1. n + 1 \in 1 .. Len(open) /\ location[open[n + 1]] < last
      BY <1>1, <1>4, <1>5
    <3>2. CASE i = n + 1
      BY <3>1, <3>2
    <3>3. CASE i > n + 1
      <4>1. location[open[n + 1]] > location[open[i]]
        BY <3>1, <3>3 DEF OpenSorted
      <4>2. QED BY <1>4, <1>5, <3>1, <3>3, <4>1
    <3>4. QED BY <1>1, <3>2, <3>3
  <2>2. QED BY <2>1
<1>7. \A i \in 1 .. n : location[open[i]] >= last
  BY <1>1, <1>4, <1>5
<1>8. gone = {u \in created : location[u] >= last}
  <2>1. gone \subseteq {u \in created : location[u] >= last}
    BY <1>1, <1>5, <1>7
  <2>2. ASSUME NEW u \in created, location[u] >= last PROVE u \in gone
    <3>1. location[u] # 0
      BY <2>2, <1>4
    <3>2. PICK i \in 1 .. Len(open) : open[i] = u
      BY <3>1, <1>3 DEF OpenAreLive, Range
    <3>3. i \in 1 .. n
      BY <1>1, <1>4, <1>5, <1>6, <2>2, <3>2
    <3>4. QED BY <3>2, <3>3
  <2>3. QED BY <2>1, <2>2
<1>9. /\ Len(open') = Len(open) - n
      /\ \A i \in 1 .. Len(open') : open'[i] = open[n + i]
      /\ open' \in Seq(created)
  BY <1>1, <1>2, <1>3
<1> HIDE DEF gone
<1>10. \A u \in created :
          IF location[u] >= last
          THEN location'[u] = 0 /\ closed'[u] = stack[location[u]]
          ELSE location'[u] = location[u] /\ closed'[u] = closed[u]
  BY <1>2, <1>3, <1>8
<1>11. \A i \in 1 .. Len(open') :
          /\ open'[i] \in created
          /\ location'[open'[i]] = location[open[n + i]]
          /\ n + i \in 1 .. Len(open)
  <2>1. ASSUME NEW i \in 1 .. Len(open')
        PROVE  /\ open'[i] \in created
               /\ location'[open'[i]] = location[open[n + i]]
               /\ n + i \in 1 .. Len(open)
    <3>1. n + i \in n + 1 .. Len(open) /\ open'[i] = open[n + i]
      BY <1>1, <1>9
    <3>2. open[n + i] \in created /\ location[open[n + i]] < last
      BY <3>1, <1>1, <1>5, <1>6
    <3>3. location[open[n + i]] \in Nat
      BY <3>1, <1>1, <1>5
    <3>4. location'[open[n + i]] = location[open[n + i]]
      BY <3>2, <3>3, <1>4, <1>10
    <3>5. QED BY <3>1, <3>2, <3>4, <1>1
  <2>2. QED BY <2>1
<1>12. \A i, j \in 1 .. Len(open') :
          i < j => location'[open'[i]] > location'[open'[j]]
  <2>1. ASSUME NEW i \in 1 .. Len(open'), NEW j \in 1 .. Len(open'), i < j
        PROVE  location'[open'[i]] > location'[open'[j]]
    <3>1. location[open[n + i]] > location[open[n + j]]
      BY <1>1, <1>9, <1>11, <2>1 DEF OpenSorted
    <3>2. QED BY <1>11, <3>1
  <2>2. QED BY <2>1
<1>13. Range(open') = {u \in created : location'[u] # 0}
  <2>1. ASSUME NEW i \in 1 .. Len(open')
        PROVE  open'[i] \in created /\ location'[open'[i]] # 0
    <3>1. open[n + i] \in {u \in created : location[u] # 0}
      BY <1>3, <1>11 DEF OpenAreLive, Range
    <3>2. QED BY <1>11, <3>1
  <2>2. ASSUME NEW u \in created, location'[u] # 0
        PROVE  \E i \in 1 .. Len(open') : open'[i] = u
    <3>1. location'[u] = location[u] /\ ~(location[u] >= last)
      BY <2>2, <1>10
    <3>2. PICK k \in 1 .. Len(open) : open[k] = u
      BY <2>2, <3>1, <1>3 DEF OpenAreLive, Range
    <3>3. k > n
      BY <3>1, <3>2, <1>1, <1>7
    <3>4. k - n \in 1 .. Len(open') /\ n + (k - n) = k
      BY <3>3, <1>1, <1>9
    <3>5. open'[k - n] = u
      BY <3>2, <3>4, <1>9
    <3>6. QED BY <3>4, <3>5
  <2>3. QED BY <1>9, <2>1, <2>2 DEF Range
<1>14. /\ location' \in [Upvalues -> 0 .. STACK_MAX]
       /\ closed' \in [Upvalues -> Values]
  <2>1. ASSUME NEW u \in Upvalues
        PROVE  /\ (IF u \in gone THEN 0 ELSE location[u]) \in 0 .. STACK_MAX
               /\ (IF u \in gone THEN stack[location[u]] ELSE closed[u]) \in Values
    <3>1. u \in gone => location[u] \in 1 .. STACK_MAX
      BY <1>3, <1>4, <1>8, UpvaluesAssumption
    <3>2. QED BY <1>3, <3>1, UpvaluesAssumption DEF TypeOK
  <2>2. QED BY <1>2, <2>1
<1>15. QED BY <1>9, <1>10, <1>12, <1>13, <1>14

-----------------------------------------------------------------------------
(* The invariant of the list.                                              *)

LEMMA FreshIsUnused ==
    ASSUME NEW below, Unused(below) # {}
    PROVE  Fresh(below) \in Unused(below) /\ Fresh(below) \in Variables
<1>1. \E x \in Variables : x \in Unused(below)
  BY DEF Unused
<1>2. QED BY <1>1 DEF Fresh

(* A push keeps every conjunct that does not speak of frames or closures.    *)
LEMMA PushKeeps ==
    ASSUME TypeOK, SlotsNamed, NEW v \in Values, Push(v)
    PROVE  /\ stack' \in [1 .. STACK_MAX -> Values]
           /\ sp' \in 1 .. STACK_MAX
           /\ sp' = sp + 1
           /\ names' \in Seq(Variables)
           /\ SlotsNamed'
<1>1. names \in Seq(Variables) /\ Fresh(names) \in Variables
  BY FreshIsUnused DEF Push, TypeOK
<1>2. QED BY <1>1, UpvaluesAssumption DEF Push, TypeOK, SlotsNamed

LEMMA FrameFacts ==
    ASSUME TypeOK, FramesNest, frames # <<>>
    PROVE  /\ Len(frames) \in Nat \ {0}
           /\ \A i \in 1 .. Len(frames) :
                 frames[i].closure \in made /\ frames[i].slots \in 1 .. STACK_MAX
           /\ Slots = frames[Len(frames)].slots
           /\ Slots \in 1 .. STACK_MAX
           /\ Slots <= sp
           /\ frame.closure \in made
<1>1. Len(frames) \in Nat \ {0}
  BY DEF TypeOK
<1>2. ASSUME NEW i \in 1 .. Len(frames)
      PROVE  frames[i].closure \in made /\ frames[i].slots \in 1 .. STACK_MAX
  <2>1. frames[i] \in [closure : made, slots : 1 .. STACK_MAX]
    BY Element DEF TypeOK
  <2>2. QED BY <2>1
<1>3. QED BY <1>1, <1>2 DEF Slots, frame, FramesNest

LEMMA InitList == Init => ListInv
<1> SUFFICES ASSUME Init PROVE ListInv
  OBVIOUS
<1> USE UpvaluesAssumption DEF Init
<1>1. TypeOK
  <2>1. \A S : <<>> \in Seq(S)
    OBVIOUS
  <2>2. 0 \in 0 .. STACK_MAX
    OBVIOUS
  <2>3. (CHOOSE x \in Variables : TRUE) \in Variables
    BY UpvaluesAssumption
  <2>4. QED BY <2>1, <2>2, <2>3 DEF TypeOK
<1>2. OpenSorted
  BY DEF OpenSorted
<1>3. OpenAreLive
  BY DEF OpenAreLive, Range
<1>4. FramesNest
  BY DEF FramesNest
<1>5. BuildingInFrame
  BY DEF BuildingInFrame
<1>6. SlotsNamed
  BY DEF SlotsNamed
<1>7. QED BY <1>1, <1>2, <1>3, <1>4, <1>5, <1>6 DEF ListInv

(* What the parts of the invariant look at, so that a step that leaves these *)
(* alone keeps the part.                                                   *)
LEMMA ListUnchanged ==
    ASSUME OpenSorted, OpenAreLive, UNCHANGED <<open, location, created>>,
           sp \in Nat, sp' \in Nat, sp' >= sp, location \in [Upvalues -> 0 .. STACK_MAX],
           created \subseteq Upvalues
    PROVE  OpenSorted' /\ OpenAreLive'
<1>1. OpenSorted'
  BY DEF OpenSorted
<1>2. Range(open') = {u \in created' : location'[u] # 0}
  BY DEF OpenAreLive, Range
<1>3. \A u \in created' : location'[u] <= sp'
  BY UpvaluesAssumption DEF OpenAreLive
<1>4. QED BY <1>1, <1>2, <1>3 DEF OpenAreLive

LEMMA NestUnchanged ==
    ASSUME TypeOK, FramesNest, UNCHANGED frames, sp' \in Nat,
           frames # <<>> => Slots <= sp'
    PROVE  FramesNest'
<1>1. frames # <<>> => Slots' <= sp'
  BY DEF Slots, frame
<1>2. QED BY <1>1 DEF FramesNest

(* One step for the instructions that push a value and do nothing else.      *)
LEMMA PushStep ==
    ASSUME ListInv, NEW v \in Values, Push(v), UNCHANGED <<frames, heap>>
    PROVE  ListInv'
<1>1. TypeOK'
  BY PushKeeps DEF ListInv, TypeOK, heap
<1>2. sp \in Nat /\ sp' \in Nat /\ sp' = sp + 1
  BY PushKeeps, UpvaluesAssumption DEF ListInv, TypeOK
<1>3. OpenSorted' /\ OpenAreLive'
  BY <1>2, ListUnchanged DEF ListInv, TypeOK, heap
<1>4. FramesNest'
  <2>1. frames # <<>> => Slots <= sp'
    BY <1>2, FrameFacts DEF ListInv
  <2>2. QED BY <1>2, <2>1, NestUnchanged DEF ListInv
<1>5. BuildingInFrame'
  BY DEF ListInv, BuildingInFrame, heap
<1>6. SlotsNamed'
  BY PushKeeps DEF ListInv
<1>7. QED BY <1>1, <1>3, <1>4, <1>5, <1>6 DEF ListInv

LEMMA StackStepKeepsList ==
    ASSUME ListInv, ~ PopsCaptured, StackStep
    PROVE  ListInv'
<1> USE DEF ListInv
<1>1. ASSUME NEW v \in Values, OpConstant(v) PROVE ListInv'
  BY <1>1, PushStep DEF OpConstant
<1>2. ASSUME NEW slot \in 1 .. sp, OpGetLocal(slot) PROVE ListInv'
  <2>1. stack[slot] \in Values
    BY UpvaluesAssumption DEF TypeOK
  <2>2. QED BY <1>2, <2>1, PushStep DEF OpGetLocal
<1>3. ASSUME NEW slot \in 1 .. sp, OpSetLocal(slot) PROVE ListInv'
  <2>1. Slots \in 1 .. STACK_MAX /\ Slots <= sp /\ sp \in 0 .. STACK_MAX
    BY <1>3, FrameFacts DEF OpSetLocal, Ready, TypeOK
  <2>2. stack[sp] \in Values
    BY <2>1, UpvaluesAssumption DEF TypeOK
  <2>3. TypeOK'
    BY <1>3, <2>2 DEF OpSetLocal, TypeOK, heap
  <2>4. OpenSorted' /\ OpenAreLive'
    BY <1>3, <2>1, ListUnchanged, UpvaluesAssumption DEF OpSetLocal, heap, TypeOK
  <2>5. FramesNest'
    BY <1>3, <2>1, NestUnchanged, UpvaluesAssumption DEF OpSetLocal, TypeOK
  <2>6. BuildingInFrame'
    BY <1>3 DEF OpSetLocal, BuildingInFrame, heap
  <2>7. SlotsNamed'
    BY <1>3 DEF OpSetLocal, SlotsNamed
  <2>8. QED BY <2>3, <2>4, <2>5, <2>6, <2>7
<1>4. ASSUME OpPop PROVE ListInv'
  <2>1. Slots \in 1 .. STACK_MAX /\ Slots < sp /\ sp \in 0 .. STACK_MAX
    BY <1>4, FrameFacts DEF OpPop, Ready, TypeOK
  <2>2. sp' = sp - 1 /\ sp' \in 0 .. STACK_MAX
    BY <1>4, <2>1, UpvaluesAssumption DEF OpPop
  <2>3. TypeOK'
    <3>1. names' \in Seq(Variables)
      BY <1>4, <2>1, UpvaluesAssumption DEF OpPop, TypeOK, SlotsNamed
    <3>2. QED BY <1>4, <2>1, <2>2, <3>1 DEF OpPop, TypeOK, heap
  <2>4. OpenSorted'
    BY <1>4 DEF OpPop, heap, OpenSorted
  <2>5. Range(open') = {u \in created' : location'[u] # 0}
    BY <1>4 DEF OpPop, heap, OpenAreLive, Range
  <2>6. ASSUME NEW u \in created PROVE location[u] <= sp'
    <3>1. location[u] # sp
      BY <1>4 DEF OpPop, IsOpen
    <3>2. location[u] \in Nat /\ location[u] <= sp
      BY UpvaluesAssumption DEF TypeOK, OpenAreLive
    <3>3. QED BY <2>1, <2>2, <3>1, <3>2, UpvaluesAssumption
  <2>7. OpenAreLive'
    BY <1>4, <2>5, <2>6 DEF OpenAreLive, OpPop, heap
  <2>8. FramesNest'
    BY <1>4, <2>1, <2>2, NestUnchanged, UpvaluesAssumption DEF OpPop
  <2>9. BuildingInFrame'
    BY <1>4 DEF OpPop, BuildingInFrame, heap
  <2>10. SlotsNamed'
    BY <1>4, <2>1, UpvaluesAssumption DEF OpPop, SlotsNamed, TypeOK
  <2>11. QED BY <2>3, <2>4, <2>7, <2>8, <2>9, <2>10
<1>5. ASSUME NEW k \in 1 .. MaxCaptures, OpGetUpvalue(k) PROVE ListInv'
  <2>1. Upvalue(k) \in created
    BY <1>5, FrameFacts DEF OpGetUpvalue, Ready, TypeOK, Upvalue
  <2>2. Deref(Upvalue(k)) \in Values
    BY <2>1 DEF Deref, TypeOK
  <2>3. QED BY <1>5, <2>2, PushStep DEF OpGetUpvalue
<1>6. ASSUME NEW k \in 1 .. MaxCaptures, OpSetUpvalue(k) PROVE ListInv'
  <2>1. Slots \in 1 .. STACK_MAX /\ Slots <= sp /\ sp \in 0 .. STACK_MAX
    BY <1>6, FrameFacts DEF OpSetUpvalue, Ready, TypeOK
  <2>2. stack[sp] \in Values
    BY <2>1, UpvaluesAssumption DEF TypeOK
  <2>3. TypeOK'
    BY <1>6, <2>2 DEF OpSetUpvalue, TypeOK
  <2>4. OpenSorted' /\ OpenAreLive'
    BY <1>6, <2>1, ListUnchanged, UpvaluesAssumption DEF OpSetUpvalue, TypeOK
  <2>5. FramesNest'
    BY <1>6, <2>1, NestUnchanged, UpvaluesAssumption DEF OpSetUpvalue, TypeOK
  <2>6. BuildingInFrame'
    BY <1>6 DEF OpSetUpvalue, BuildingInFrame
  <2>7. SlotsNamed'
    BY <1>6 DEF OpSetUpvalue, SlotsNamed
  <2>8. QED BY <2>3, <2>4, <2>5, <2>6, <2>7
<1>7. QED BY <1>1, <1>2, <1>3, <1>4, <1>5, <1>6 DEF StackStep

LEMMA SeqGrows ==
    ASSUME NEW S, NEW T, S \subseteq T, NEW s \in Seq(S)
    PROVE  s \in Seq(T)
<1>1. \A i \in 1 .. Len(s) : s[i] \in T
  BY Element
<1>2. QED BY <1>1

(* Attaching an upvalue to the closure in the making.                       *)
LEMMA AttachTypes ==
    ASSUME TypeOK, NEW u \in created', created \subseteq created', Attach(u)
    PROVE  /\ upvalues' \in [Closures -> Seq(created')]
           /\ UNCHANGED <<machine, closed, made, building>>
<1>1. building \in Closures
  BY DEF TypeOK
<1>2. upvalues[building] \in Seq(created)
  BY <1>1 DEF TypeOK
<1>3. Append(upvalues[building], u) \in Seq(created')
  BY <1>2, SeqGrows
<1>4. ASSUME NEW c \in Closures PROVE upvalues[c] \in Seq(created')
  BY SeqGrows DEF TypeOK
<1>5. upvalues' = [upvalues EXCEPT ![building] = Append(@, u)]
  BY DEF Attach
<1>6. upvalues' \in [Closures -> Seq(created')]
  BY <1>1, <1>3, <1>4, <1>5 DEF TypeOK
<1>7. QED BY <1>6 DEF Attach

(* Attaching an upvalue that exists changes nothing else the invariant       *)
(* looks at.                                                               *)
LEMMA AttachStep ==
    ASSUME ListInv, NEW u \in created, Attach(u),
           UNCHANGED <<open, location, created, of>>
    PROVE  ListInv'
<1>1. /\ upvalues' \in [Closures -> Seq(created')]
      /\ UNCHANGED <<machine, closed, made, building>>
  BY AttachTypes DEF ListInv
<1>2. TypeOK'
  BY <1>1 DEF ListInv, TypeOK, machine
<1>3. OpenSorted' /\ OpenAreLive'
  BY <1>1, ListUnchanged, UpvaluesAssumption DEF ListInv, TypeOK, machine
<1>4. FramesNest' /\ BuildingInFrame' /\ SlotsNamed'
  BY <1>1 DEF ListInv, FramesNest, BuildingInFrame, SlotsNamed, Slots, frame, machine
<1>5. QED BY <1>2, <1>3, <1>4 DEF ListInv

(* The new upvalue goes between those above its slot and those below.        *)
LEMMA CaptureNewStep ==
    ASSUME ListInv, NEW slot \in 1 .. sp, NEW u \in Upvalues, CaptureNew(slot, u)
    PROVE  ListInv'
<1> USE DEF ListInv
<1> DEFINE n == Above(slot)
<1>1. /\ building # Main
      /\ slot \in Slots .. sp
      /\ ~ (n < Len(open) /\ location[open[n + 1]] = slot)
      /\ u \notin created
      /\ created' = created \cup {u}
      /\ open' = Append(SubSeq(open, 1, n), u) \o SubSeq(open, n + 1, Len(open))
      /\ location' = [location EXCEPT ![u] = slot]
      /\ of' = [of EXCEPT ![u] = names[slot]]
      /\ Attach(u)
  BY DEF CaptureNew
<1>2. slot \in Nat /\ slot \in 1 .. STACK_MAX /\ sp \in Nat /\ slot <= sp
  BY UpvaluesAssumption DEF TypeOK
<1>3. /\ n \in 0 .. Len(open)
      /\ \A i \in 1 .. n : location[open[i]] > slot
      /\ n < Len(open) => location[open[n + 1]] <= slot
  BY <1>2, AboveStops
<1> HIDE DEF n
<1>4. /\ upvalues' \in [Closures -> Seq(created')]
      /\ UNCHANGED <<machine, closed, made, building>>
  BY <1>1, AttachTypes
<1>5. open \in Seq(created') /\ u \in created'
  BY <1>1, SeqGrows DEF TypeOK
<1>6. /\ open' \in Seq(created')
      /\ Len(open') = Len(open) + 1
      /\ \A i \in 1 .. n : open'[i] = open[i]
      /\ open'[n + 1] = u
      /\ \A i \in n + 2 .. Len(open') : open'[i] = open[i - 1]
      /\ Range(open') = Range(open) \cup {u}
  <2>1. open' = Linked(open, u, n)
    BY <1>1 DEF Linked
  <2>2. n \in 0 .. Len(open)
    BY <1>3
  <2>3. QED BY <1>5, <2>1, <2>2, Insert
<1>7. TypeOK'
  <2>1. names[slot] \in Variables
    BY <1>2, Element DEF TypeOK, SlotsNamed
  <2>2. location' \in [Upvalues -> 0 .. STACK_MAX]
    BY <1>1, <1>2, UpvaluesAssumption DEF TypeOK
  <2>3. of' \in [Upvalues -> Variables] /\ created' \subseteq Upvalues
    BY <1>1, <2>1 DEF TypeOK
  <2>4. QED BY <1>4, <1>6, <2>2, <2>3 DEF TypeOK, machine
<1>8. /\ \A i \in 1 .. Len(open) : open[i] \in created
      /\ \A w \in created : location[w] \in Nat /\ location'[w] = location[w]
      /\ location'[u] = slot
      /\ Len(open) \in Nat
  <2>1. \A i \in 1 .. Len(open) : open[i] \in created
    BY Element DEF TypeOK
  <2>2. /\ \A w \in created : location[w] \in Nat /\ location'[w] = location[w]
        /\ location'[u] = slot
    BY <1>1, UpvaluesAssumption DEF TypeOK
  <2>3. QED BY <2>1, <2>2 DEF TypeOK
<1>9. \A i \in n + 1 .. Len(open) : location[open[i]] < slot
  <2>1. ASSUME NEW i \in n + 1 .. Len(open) PROVE location[open[i]] < slot
    <3>1. n + 1 \in 1 .. Len(open) /\ location[open[n + 1]] < slot
      BY <1>1, <1>2, <1>3, <1>8
    <3>2. CASE i = n + 1
      BY <3>1, <3>2
    <3>3. CASE i > n + 1
      <4>1. location[open[n + 1]] > location[open[i]]
        BY <3>1, <3>3, <1>3 DEF OpenSorted
      <4>2. i \in 1 .. Len(open)
        BY <1>3
      <4>3. QED BY <1>2, <1>8, <3>1, <4>1, <4>2
    <3>4. QED BY <1>3, <3>2, <3>3
  <2>2. QED BY <2>1
<1>10. OpenSorted'
  <2>1. ASSUME NEW i \in 1 .. Len(open'), NEW j \in 1 .. Len(open'), i < j
        PROVE  location'[open'[i]] > location'[open'[j]]
    <3>1. CASE j <= n
      <4>1. i \in 1 .. n /\ j \in 1 .. n /\ i \in 1 .. Len(open) /\ j \in 1 .. Len(open)
        BY <1>3, <2>1, <3>1
      <4>2. QED BY <4>1, <2>1, <1>6, <1>8 DEF OpenSorted
    <3>2. CASE j = n + 1
      <4>1. i \in 1 .. n /\ i \in 1 .. Len(open)
        BY <1>3, <2>1, <3>2
      <4>2. QED BY <4>1, <3>2, <1>3, <1>6, <1>8
    <3>3. CASE j > n + 1
      <4>1. j \in n + 2 .. Len(open') /\ j - 1 \in n + 1 .. Len(open)
        BY <1>3, <1>6, <3>3
      <4>2. j - 1 \in 1 .. Len(open) /\ open'[j] = open[j - 1]
        BY <1>3, <1>6, <4>1
      <4>3. location'[open'[j]] = location[open[j - 1]]
        BY <4>2, <1>8
      <4>4. CASE i <= n
        <5>1. i \in 1 .. n /\ i \in 1 .. Len(open) /\ i < j - 1
          BY <1>3, <4>4, <4>1
        <5>2. QED BY <5>1, <4>2, <4>3, <1>6, <1>8 DEF OpenSorted
      <4>5. CASE i = n + 1
        <5>1. location[open[j - 1]] < slot /\ location[open[j - 1]] \in Nat
          BY <1>8, <1>9, <4>1, <4>2
        <5>2. QED BY <5>1, <4>3, <4>5, <1>2, <1>6, <1>8
      <4>6. CASE i > n + 1
        <5>1. i \in n + 2 .. Len(open') /\ i - 1 \in 1 .. Len(open) /\ i - 1 < j - 1
          BY <1>3, <1>6, <2>1, <4>6
        <5>2. location'[open'[i]] = location[open[i - 1]]
          BY <5>1, <1>6, <1>8
        <5>3. QED BY <5>1, <5>2, <4>2, <4>3 DEF OpenSorted
      <4>7. QED BY <1>3, <4>4, <4>5, <4>6
    <3>4. QED BY <1>3, <3>1, <3>2, <3>3
  <2>2. QED BY <2>1 DEF OpenSorted
<1>11. OpenAreLive'
  <2>1. Range(open') = {w \in created' : location'[w] # 0}
    BY <1>1, <1>2, <1>6, <1>8 DEF OpenAreLive
  <2>2. \A w \in created' : location'[w] <= sp'
    BY <1>1, <1>2, <1>4, <1>8 DEF OpenAreLive, machine
  <2>3. QED BY <2>1, <2>2 DEF OpenAreLive
<1>12. FramesNest' /\ BuildingInFrame' /\ SlotsNamed'
  BY <1>4 DEF FramesNest, BuildingInFrame, SlotsNamed, Slots, frame, machine
<1>13. QED BY <1>7, <1>10, <1>11, <1>12

LEMMA ClosureStepKeepsList ==
    ASSUME ListInv, ClosureStep
    PROVE  ListInv'
<1> USE DEF ListInv
<1>1. ASSUME NEW c \in Closures, NEW v \in Values, OpClosure(c, v) PROVE ListInv'
  <2>1. Push(v) /\ made' = made \cup {c} /\ building' = c
    BY <1>1 DEF OpClosure
  <2>2. UNCHANGED <<frames, open, location, closed, upvalues, created, of>>
    BY <1>1 DEF OpClosure
  <2>3. frames' \in Seq([closure : made', slots : 1 .. STACK_MAX])
    <3>1. [closure : made, slots : 1 .. STACK_MAX]
            \subseteq [closure : made', slots : 1 .. STACK_MAX]
      BY <2>1
    <3>2. QED BY <2>2, <3>1, SeqGrows DEF TypeOK
  <2>4. sp' = sp + 1 /\ sp \in Nat
    BY <2>1, PushKeeps, UpvaluesAssumption DEF TypeOK
  <2>5. TypeOK'
    BY <2>1, <2>2, <2>3, PushKeeps DEF TypeOK
  <2>6. OpenSorted' /\ OpenAreLive'
    BY <2>2, <2>4, ListUnchanged DEF TypeOK
  <2>7. FramesNest'
    <3>1. frames # <<>> => Slots <= sp'
      BY <2>4, FrameFacts
    <3>2. QED BY <2>2, <2>4, <3>1, NestUnchanged
  <2>8. BuildingInFrame'
    BY <1>1, <2>2 DEF OpClosure, Ready, BuildingInFrame
  <2>9. SlotsNamed'
    BY <2>1, PushKeeps
  <2>10. QED BY <2>5, <2>6, <2>7, <2>8, <2>9
<1>2. ASSUME NEW slot \in 1 .. sp, CaptureOpen(slot) PROVE ListInv'
  <2>1. slot \in Nat
    BY UpvaluesAssumption DEF TypeOK
  <2>2. Above(slot) \in 0 .. Len(open)
    BY <2>1, AboveStops
  <2>3. Above(slot) + 1 \in 1 .. Len(open)
    BY <1>2, <2>2 DEF CaptureOpen
  <2>4. open[Above(slot) + 1] \in created
    BY <2>3, Element DEF TypeOK
  <2>5. QED BY <1>2, <2>4, AttachStep DEF CaptureOpen
<1>3. ASSUME NEW slot \in 1 .. sp, NEW u \in Upvalues, CaptureNew(slot, u)
      PROVE  ListInv'
  BY <1>3, CaptureNewStep
<1>4. ASSUME NEW k \in 1 .. MaxCaptures, CaptureOuter(k) PROVE ListInv'
  <2>1. frames # <<>>
    BY <1>4 DEF CaptureOuter, BuildingInFrame
  <2>2. frame.closure \in Closures
    BY <2>1, FrameFacts DEF TypeOK
  <2>3. Upvalue(k) \in created
    BY <1>4, <2>2, Element DEF CaptureOuter, Upvalue, TypeOK
  <2>4. QED BY <1>4, <2>3, AttachStep DEF CaptureOuter
<1>5. ASSUME ClosureMade PROVE ListInv'
  <2>1. TypeOK'
    BY <1>5 DEF ClosureMade, TypeOK, machine
  <2>2. OpenSorted' /\ OpenAreLive'
    BY <1>5 DEF ClosureMade, OpenSorted, OpenAreLive, machine
  <2>3. FramesNest' /\ BuildingInFrame' /\ SlotsNamed'
    BY <1>5 DEF ClosureMade, FramesNest, BuildingInFrame, SlotsNamed, Slots, frame, machine
  <2>4. QED BY <2>1, <2>2, <2>3
<1>6. QED BY <1>1, <1>2, <1>3, <1>4, <1>5 DEF ClosureStep

(* Closing from `last` on keeps the list, and makes room for the stack to    *)
(* shrink to just below `last`.                                            *)
LEMMA CloseKeeps ==
    ASSUME TypeOK, OpenSorted, OpenAreLive, NEW last \in 1 .. STACK_MAX,
           CloseUpvalues(last), UNCHANGED created,
           sp' \in Nat, sp' >= last - 1
    PROVE  OpenSorted' /\ OpenAreLive'
<1>1. /\ \A i, j \in 1 .. Len(open') :
            i < j => location'[open'[i]] > location'[open'[j]]
      /\ Range(open') = {u \in created : location'[u] # 0}
      /\ \A u \in created :
            IF location[u] >= last
            THEN location'[u] = 0
            ELSE location'[u] = location[u]
  BY CloseLeaves
<1>2. ASSUME NEW u \in created PROVE location'[u] <= sp'
  <2>1. location[u] \in Nat /\ last \in Nat
    BY UpvaluesAssumption DEF TypeOK
  <2>2. QED BY <1>1, <2>1
<1>3. QED BY <1>1, <1>2 DEF OpenSorted, OpenAreLive

LEMMA CallStepKeepsList ==
    ASSUME ListInv, ~ FailsOpen, CallStep
    PROVE  ListInv'
<1> USE DEF ListInv
<1>1. ASSUME OpCloseUpvalue PROVE ListInv'
  <2>1. /\ Slots \in 1 .. STACK_MAX /\ Slots < sp /\ sp \in 1 .. STACK_MAX
        /\ sp' = sp - 1 /\ sp' \in 0 .. STACK_MAX
    BY <1>1, FrameFacts, UpvaluesAssumption DEF OpCloseUpvalue, Ready, TypeOK
  <2>2. CloseUpvalues(sp)
    BY <1>1 DEF OpCloseUpvalue
  <2>3. names' \in Seq(Variables) /\ Len(names') = sp - 1
    BY <1>1, <2>1, UpvaluesAssumption DEF OpCloseUpvalue, TypeOK, SlotsNamed
  <2>4. TypeOK'
    BY <1>1, <2>1, <2>2, <2>3, CloseLeaves DEF OpCloseUpvalue, TypeOK
  <2>5. OpenSorted' /\ OpenAreLive'
    BY <1>1, <2>1, <2>2, CloseKeeps, UpvaluesAssumption DEF OpCloseUpvalue
  <2>6. FramesNest'
    BY <1>1, <2>1, NestUnchanged, UpvaluesAssumption DEF OpCloseUpvalue
  <2>7. BuildingInFrame' /\ SlotsNamed'
    BY <1>1, <2>3 DEF OpCloseUpvalue, BuildingInFrame, SlotsNamed
  <2>8. QED BY <2>4, <2>5, <2>6, <2>7
<1>2. ASSUME NEW c \in made, NEW n \in 0 .. MaxArgs, Call(c, n) PROVE ListInv'
  <2> DEFINE new == [closure |-> c, slots |-> sp - n]
  <2>1. /\ frames # <<>> /\ sp - n > Slots
        /\ frames' = Append(frames, new)
        /\ UNCHANGED <<stack, sp, names, heap>>
    BY <1>2 DEF Call, Ready
  <2>2. /\ Len(frames) \in Nat \ {0} /\ Slots = frames[Len(frames)].slots
        /\ Slots \in 1 .. STACK_MAX
        /\ \A i \in 1 .. Len(frames) : frames[i].slots \in 1 .. STACK_MAX
    BY <2>1, FrameFacts
  <2>3. n \in Nat /\ sp - n \in 1 .. STACK_MAX /\ sp - n <= sp /\ sp \in Nat
    <3>1. sp \in Nat /\ sp <= STACK_MAX /\ STACK_MAX \in Nat /\ n \in Nat
      BY UpvaluesAssumption DEF TypeOK
    <3>2. Slots \in Nat /\ Slots >= 1 /\ sp - n > Slots
      BY <2>1, <2>2
    <3>3. QED BY <3>1, <3>2
  <2>4. new \in [closure : made, slots : 1 .. STACK_MAX]
    BY <2>3
  <2>5. frames' \in Seq([closure : made', slots : 1 .. STACK_MAX])
    BY <2>1, <2>4 DEF TypeOK, heap
  <2>6. TypeOK'
    BY <2>1, <2>5 DEF TypeOK, heap
  <2>7. OpenSorted' /\ OpenAreLive'
    BY <2>1 DEF OpenSorted, OpenAreLive, heap
  <2>8. FramesNest'
    <3>1. /\ Len(frames') = Len(frames) + 1
          /\ frames'[Len(frames')] = new
          /\ \A i \in 1 .. Len(frames) : frames'[i] = frames[i]
      BY <2>1, <2>2, <2>5 DEF TypeOK
    <3>2. Slots' <= sp'
      BY <2>1, <2>3, <3>1 DEF Slots, frame
    <3>3. ASSUME NEW i \in 1 .. Len(frames'), NEW j \in 1 .. Len(frames'), i < j
          PROVE  frames'[i].slots < frames'[j].slots
      <4>1. i \in 1 .. Len(frames) /\ frames'[i] = frames[i]
        BY <2>2, <3>1, <3>3
      <4>2. CASE j \in 1 .. Len(frames)
        BY <3>1, <3>3, <4>1, <4>2 DEF FramesNest
      <4>3. CASE j = Len(frames')
        <5>1. frames[i].slots <= Slots
          <6>1. CASE i = Len(frames)
            BY <2>2, <6>1
          <6>2. CASE i < Len(frames)
            BY <2>2, <4>1, <6>2 DEF FramesNest
          <6>3. QED BY <4>1, <2>2, <6>1, <6>2
        <5>2. frames'[j].slots = sp - n
          BY <3>1, <4>3
        <5>3. frames[i].slots \in Nat /\ Slots \in Nat /\ sp - n \in Nat
          BY <2>2, <2>3, <4>1, UpvaluesAssumption
        <5>4. Slots < sp - n
          BY <2>1, <5>3
        <5>5. frames[i].slots < sp - n
          BY <5>1, <5>3, <5>4
        <5>6. QED BY <4>1, <5>2, <5>5
      <4>4. QED BY <2>2, <3>1, <4>2, <4>3
    <3>4. QED BY <3>2, <3>3 DEF FramesNest
  <2>9. BuildingInFrame' /\ SlotsNamed'
    BY <1>2, <2>1 DEF Call, Ready, BuildingInFrame, SlotsNamed, heap
  <2>10. QED BY <2>6, <2>7, <2>8, <2>9
<1>3. ASSUME OpReturn PROVE ListInv'
  <2> DEFINE below == SubSeq(names, 1, Slots - 1)
  <2>1. /\ frames # <<>> /\ Len(frames) > 1 /\ sp > Slots
        /\ Unused(below) # {} /\ CloseUpvalues(Slots)
        /\ frames' = SubSeq(frames, 1, Len(frames) - 1)
        /\ sp' = Slots
        /\ stack' = [stack EXCEPT ![Slots] = stack[sp]]
        /\ names' = Append(below, Fresh(below))
        /\ UNCHANGED <<upvalues, created, made, building, of>>
    BY <1>3 DEF OpReturn, Ready
  <2>2. /\ Len(frames) \in Nat \ {0} /\ Slots = frames[Len(frames)].slots
        /\ Slots \in 1 .. STACK_MAX
        /\ sp \in 1 .. STACK_MAX
    <3>1. /\ Len(frames) \in Nat \ {0} /\ Slots = frames[Len(frames)].slots
          /\ Slots \in 1 .. STACK_MAX
      BY <2>1, FrameFacts
    <3>2. sp \in 0 .. STACK_MAX /\ STACK_MAX \in Nat
      BY UpvaluesAssumption DEF TypeOK
    <3>3. sp > Slots
      BY <2>1
    <3>4. QED BY <3>1, <3>2, <3>3
  <2>3. below \in Seq(Variables) /\ Len(below) = Slots - 1
    <3>1. names \in Seq(Variables) /\ Len(names) = sp
      BY DEF TypeOK, SlotsNamed
    <3>2. sp > Slots
      BY <2>1
    <3>3. Slots - 1 \in 0 .. Len(names)
      BY <2>2, <3>1, <3>2, UpvaluesAssumption
    <3>4. QED BY <3>1, <3>3, Prefix
  <2>4. Fresh(below) \in Variables
    BY <2>1, FreshIsUnused
  <2> HIDE DEF below
  <2>5. names' \in Seq(Variables) /\ Len(names') = Slots
    BY <2>1, <2>2, <2>3, <2>4, UpvaluesAssumption
  <2>6. /\ frames' \in Seq([closure : made, slots : 1 .. STACK_MAX])
        /\ Len(frames') = Len(frames) - 1
        /\ \A i \in 1 .. Len(frames') : frames'[i] = frames[i]
    <3>1. frames \in Seq([closure : made, slots : 1 .. STACK_MAX])
      BY DEF TypeOK
    <3>2. Len(frames) - 1 \in 0 .. Len(frames)
      BY <2>2
    <3>3. frames' = SubSeq(frames, 1, Len(frames) - 1)
      BY <2>1
    <3>4. QED BY <3>1, <3>2, <3>3, Prefix
  <2>7. stack' \in [1 .. STACK_MAX -> Values]
    BY <2>1, <2>2 DEF TypeOK
  <2>8. TypeOK'
    <3>1. /\ open' \in Seq(created)
          /\ location' \in [Upvalues -> 0 .. STACK_MAX]
          /\ closed' \in [Upvalues -> Values]
      BY <2>1, <2>2, CloseLeaves
    <3>2. sp' \in 0 .. STACK_MAX
      <4>1. sp' = Slots
        BY <2>1
      <4>2. QED BY <2>2, <4>1, UpvaluesAssumption
    <3>3. UNCHANGED <<upvalues, created, made, building, of>>
      BY <2>1
    <3>4. QED BY <2>5, <2>6, <2>7, <3>1, <3>2, <3>3 DEF TypeOK
  <2>9. OpenSorted' /\ OpenAreLive'
    BY <2>1, <2>2, CloseKeeps, UpvaluesAssumption
  <2>10. FramesNest'
    <3>1. Len(frames') \in 1 .. Len(frames) /\ Len(frames') < Len(frames)
      BY <2>1, <2>2, <2>6
    <3>2. Slots' = frames[Len(frames')].slots
      BY <2>6, <3>1 DEF Slots, frame
    <3>3. Slots' < Slots
      BY <2>2, <3>1, <3>2 DEF FramesNest
    <3>4. Slots' \in Nat /\ Slots \in Nat
      <4>1. frames[Len(frames')].slots \in 1 .. STACK_MAX
        BY <2>1, <3>1, FrameFacts
      <4>2. QED BY <2>2, <3>2, <4>1, UpvaluesAssumption
    <3>5. ASSUME NEW i \in 1 .. Len(frames'), NEW j \in 1 .. Len(frames'), i < j
          PROVE  frames'[i].slots < frames'[j].slots
      <4>1. i \in 1 .. Len(frames) /\ j \in 1 .. Len(frames)
        BY <3>1
      <4>2. QED BY <2>6, <3>5, <4>1 DEF FramesNest
    <3>6. QED BY <2>1, <3>3, <3>4, <3>5 DEF FramesNest
  <2>11. BuildingInFrame' /\ SlotsNamed'
    BY <1>3, <2>1, <2>5 DEF OpReturn, Ready, BuildingInFrame, SlotsNamed
  <2>12. QED BY <2>8, <2>9, <2>10, <2>11
<1>4. ASSUME ScriptReturn PROVE ListInv'
  <2>1. /\ frames # <<>> /\ sp = Slots + 1 /\ CloseUpvalues(Slots)
        /\ building = Main
        /\ frames' = <<>>
        /\ sp' = sp - 2
        /\ names' = SubSeq(names, 1, sp - 2)
        /\ UNCHANGED <<stack, upvalues, created, made, building, of>>
    BY <1>4 DEF ScriptReturn, Ready
  <2>2. Slots \in 1 .. STACK_MAX /\ sp \in 1 .. STACK_MAX /\ sp' = Slots - 1
    <3>1. Slots \in 1 .. STACK_MAX
      BY <2>1, FrameFacts
    <3>2. sp \in 0 .. STACK_MAX /\ STACK_MAX \in Nat
      BY UpvaluesAssumption DEF TypeOK
    <3>3. sp = Slots + 1 /\ sp' = sp - 2
      BY <2>1
    <3>4. QED BY <3>1, <3>2, <3>3
  <2>3. names' \in Seq(Variables) /\ Len(names') = sp - 2
    <3>1. names \in Seq(Variables) /\ Len(names) = sp
      BY DEF TypeOK, SlotsNamed
    <3>2. sp = Slots + 1 /\ names' = SubSeq(names, 1, sp - 2)
      BY <2>1
    <3>3. sp - 2 \in 0 .. Len(names)
      BY <2>2, <3>1, <3>2, UpvaluesAssumption
    <3>4. QED BY <3>1, <3>2, <3>3, Prefix
  <2>4. sp' \in 0 .. STACK_MAX
    BY <2>2, UpvaluesAssumption
  <2>5. TypeOK'
    <3>1. /\ open' \in Seq(created)
          /\ location' \in [Upvalues -> 0 .. STACK_MAX]
          /\ closed' \in [Upvalues -> Values]
      BY <2>1, <2>2, CloseLeaves
    <3>2. frames' \in Seq([closure : made, slots : 1 .. STACK_MAX])
      BY <2>1
    <3>3. QED BY <2>1, <2>3, <2>4, <3>1, <3>2 DEF TypeOK
  <2>6. OpenSorted' /\ OpenAreLive'
    BY <2>1, <2>2, <2>4, CloseKeeps, UpvaluesAssumption
  <2>7. FramesNest' /\ BuildingInFrame' /\ SlotsNamed'
    BY <2>1, <2>3 DEF FramesNest, BuildingInFrame, SlotsNamed
  <2>8. QED BY <2>5, <2>6, <2>7
<1>5. ASSUME NEW v \in Values, Interpret(v) PROVE ListInv'
  <2>1. /\ frames = <<>> /\ Push(v) /\ UNCHANGED heap
        /\ frames' = <<[closure |-> Main, slots |-> sp + 1]>>
    BY <1>5 DEF Interpret
  <2>2. /\ stack' \in [1 .. STACK_MAX -> Values] /\ sp' \in 1 .. STACK_MAX
        /\ sp' = sp + 1 /\ names' \in Seq(Variables) /\ SlotsNamed'
    BY <2>1, PushKeeps
  <2>3. [closure |-> Main, slots |-> sp + 1] \in [closure : made, slots : 1 .. STACK_MAX]
    BY <2>2 DEF TypeOK
  <2>4. TypeOK'
    BY <2>1, <2>2, <2>3 DEF TypeOK, heap
  <2>5. OpenSorted' /\ OpenAreLive'
    BY <2>1, <2>2, ListUnchanged, UpvaluesAssumption DEF TypeOK, heap
  <2>6. FramesNest'
    <3>1. Len(frames') = 1 /\ frames'[1].slots = sp + 1
      BY <2>1
    <3>2. Slots' <= sp'
      BY <2>2, <3>1, UpvaluesAssumption DEF Slots, frame
    <3>3. QED BY <3>1, <3>2 DEF FramesNest
  <2>7. BuildingInFrame'
    BY <2>1 DEF BuildingInFrame, heap
  <2>8. QED BY <2>2, <2>4, <2>5, <2>6, <2>7
<1>6. ASSUME Fail PROVE ListInv'
  <2>1. /\ open = <<>> /\ building = Main
        /\ sp' = 0 /\ frames' = <<>> /\ open' = <<>> /\ names' = <<>>
        /\ UNCHANGED <<stack, location, closed, upvalues, created, made, building, of>>
    BY <1>6 DEF Fail, Ready
  <2>2. TypeOK'
    BY <2>1, UpvaluesAssumption DEF TypeOK
  <2>3. \A u \in created : location[u] = 0
    BY <2>1 DEF OpenAreLive, Range
  <2>4. OpenSorted' /\ OpenAreLive'
    BY <2>1, <2>3 DEF OpenSorted, OpenAreLive, Range
  <2>5. FramesNest' /\ BuildingInFrame' /\ SlotsNamed'
    BY <2>1 DEF FramesNest, BuildingInFrame, SlotsNamed
  <2>6. QED BY <2>2, <2>4, <2>5
<1>7. QED BY <1>1, <1>2, <1>3, <1>4, <1>5, <1>6 DEF CallStep

(* The list of open upvalues is what vm.c takes it for, in every reachable   *)
(* state of a program that does not pop a captured variable and does not     *)
(* fail while one is captured.                                             *)
THEOREM ListInvariant ==
    ASSUME ~ PopsCaptured, ~ FailsOpen
    PROVE  Spec => []ListInv
<1>1. Init => ListInv
  BY InitList
<1>2. ListInv /\ [Next]_vars => ListInv'
  <2>1. ASSUME ListInv, Next PROVE ListInv'
    BY <2>1, StackStepKeepsList, ClosureStepKeepsList, CallStepKeepsList DEF Next
  <2>2. ASSUME ListInv, UNCHANGED vars PROVE ListInv'
    BY <2>2 DEF vars, machine, heap, ListInv, TypeOK, OpenSorted, OpenAreLive,
                FramesNest, BuildingInFrame, SlotsNamed, Slots, frame
  <2>3. QED BY <2>1, <2>2
<1>3. QED BY <1>1, <1>2, PTL DEF Spec

(* Every variable of the machine keeps its type.                            *)
THEOREM TypeCorrect ==
    ASSUME ~ PopsCaptured, ~ FailsOpen
    PROVE  Spec => []TypeOK
<1>1. ListInv => TypeOK
  BY DEF ListInv
<1>2. QED BY <1>1, ListInvariant, PTL

(* vm->open_upvalues descends strictly, so that the walks that stop early    *)
(* miss nothing and no slot is captured twice.                             *)
THEOREM ListSorted ==
    ASSUME ~ PopsCaptured, ~ FailsOpen
    PROVE  Spec => []OpenSorted
<1>1. ListInv => OpenSorted
  BY DEF ListInv
<1>2. QED BY <1>1, ListInvariant, PTL

(* No upvalue points at a slot that is not in use, and those that point at   *)
(* one are those on the list.                                              *)
THEOREM NoDanglingUpvalue ==
    ASSUME ~ PopsCaptured, ~ FailsOpen
    PROVE  Spec => []OpenAreLive
<1>1. ListInv => OpenAreLive
  BY DEF ListInv
<1>2. QED BY <1>1, ListInvariant, PTL

(* The windows of the frames are nested.                                    *)
THEOREM FramesAreNested ==
    ASSUME ~ PopsCaptured, ~ FailsOpen
    PROVE  Spec => []FramesNest
<1>1. ListInv => FramesNest
  BY DEF ListInv
<1>2. QED BY <1>1, ListInvariant, PTL

-----------------------------------------------------------------------------
(* Upvalues implements Cells.                                              *)

(* Slots and upvalues are named as vm.c uses them: no two slots are one       *)
(* variable, an open upvalue is that of its slot, a closed one that of no      *)
(* slot, and no two upvalues are one variable.                              *)
Named(ns, loc, o, cr) ==
    /\ \A i, j \in 1 .. Len(ns) : ns[i] = ns[j] => i = j
    /\ \A u \in cr : IF loc[u] # 0 THEN loc[u] \in 1 .. Len(ns) /\ o[u] = ns[loc[u]]
                     ELSE o[u] \notin Range(ns)
    /\ \A u, w \in cr : o[u] = o[w] => u = w

(* A closure was made for every upvalue.                                     *)
Attached == \A u \in created : \E c \in Closures : u \in Range(upvalues[c])

(* A script runs at the bottom of the stack, and leaves nothing there.       *)
FromBottom == IF frames = <<>> THEN sp = 0 ELSE frames[1].slots = 1

CellInv ==
    /\ ListInv
    /\ Named(names, location, of, created)
    /\ Attached
    /\ FromBottom

LEMMA NamedPush ==
    ASSUME NEW ns \in Seq(Variables), NEW loc, NEW o, NEW cr, Named(ns, loc, o, cr),
           NEW x \in Variables, x \notin Range(ns), \A u \in cr : x # o[u]
    PROVE  Named(Append(ns, x), loc, o, cr)
<1> DEFINE new == Append(ns, x)
           l == Len(ns)
<1>1. /\ new \in Seq(Variables) /\ Len(new) = l + 1 /\ l \in Nat /\ new[l + 1] = x
      /\ \A i \in 1 .. l : new[i] = ns[i]
  OBVIOUS
<1>2. \A i \in 1 .. l : ns[i] # x
  BY DEF Range
<1> HIDE DEF new
<1>3. ASSUME NEW i \in 1 .. Len(new), NEW j \in 1 .. Len(new), new[i] = new[j] PROVE i = j
  <2>1. i \in 1 .. l \/ i = l + 1
    BY <1>1
  <2>2. j \in 1 .. l \/ j = l + 1
    BY <1>1
  <2>3. QED BY <1>1, <1>2, <1>3, <2>1, <2>2 DEF Named
<1>4. Range(new) = Range(ns) \cup {x}
  <2>1. DOMAIN new = 1 .. l + 1 /\ DOMAIN ns = 1 .. l
    BY <1>1
  <2>2. \A i \in 1 .. l + 1 : i \in 1 .. l \/ i = l + 1
    BY <1>1
  <2>3. \A i \in 1 .. l : i \in 1 .. l + 1
    BY <1>1
  <2>4. l + 1 \in 1 .. l + 1
    BY <1>1
  <2>5. QED BY <1>1, <2>1, <2>2, <2>3, <2>4 DEF Range
<1>5. ASSUME NEW u \in cr
      PROVE  IF loc[u] # 0 THEN loc[u] \in 1 .. Len(new) /\ o[u] = new[loc[u]]
             ELSE o[u] \notin Range(new)
  <2>1. CASE loc[u] # 0
    <3>1. loc[u] \in 1 .. l /\ o[u] = ns[loc[u]]
      BY <2>1 DEF Named
    <3>2. loc[u] \in 1 .. Len(new) /\ new[loc[u]] = ns[loc[u]]
      BY <1>1, <3>1
    <3>3. QED BY <2>1, <3>1, <3>2
  <2>2. CASE loc[u] = 0
    BY <1>4, <2>2 DEF Named
  <2>3. QED BY <2>1, <2>2
<1>6. \A u, w \in cr : o[u] = o[w] => u = w
  BY DEF Named
<1>7. Named(new, loc, o, cr)
  BY <1>3, <1>5, <1>6 DEF Named
<1>8. QED BY <1>7 DEF new

LEMMA NamedDrop ==
    ASSUME NEW ns \in Seq(Variables), NEW loc, NEW o, NEW cr, Named(ns, loc, o, cr),
           NEW m \in 0 .. Len(ns), NEW left,
           \A u \in cr : left[u] = IF loc[u] > m THEN 0 ELSE loc[u],
           \A u \in cr : loc[u] \in Nat
    PROVE  Named(SubSeq(ns, 1, m), left, o, cr)
<1> DEFINE new == SubSeq(ns, 1, m)
<1>1. /\ new \in Seq(Variables) /\ Len(new) = m /\ m \in Nat
      /\ \A i \in 1 .. m : new[i] = ns[i] /\ i \in 1 .. Len(ns)
  BY Prefix
<1> HIDE DEF new
<1>2. \A i, j \in 1 .. Len(new) : new[i] = new[j] => i = j
  BY <1>1 DEF Named
<1>3. DOMAIN new = 1 .. m /\ DOMAIN ns = 1 .. Len(ns)
  BY <1>1
<1>4. ASSUME NEW u \in cr
      PROVE  IF left[u] # 0 THEN left[u] \in 1 .. Len(new) /\ o[u] = new[left[u]]
             ELSE o[u] \notin Range(new)
  <2>1. CASE loc[u] > m
    <3>1. left[u] = 0 /\ loc[u] # 0
      BY <1>1, <2>1
    <3>2. loc[u] \in 1 .. Len(ns) /\ o[u] = ns[loc[u]]
      BY <3>1 DEF Named
    <3>3. ASSUME NEW i \in 1 .. m PROVE new[i] # o[u]
      <4>1. new[i] = ns[i] /\ i \in 1 .. Len(ns) /\ i # loc[u]
        BY <1>1, <2>1
      <4>2. QED BY <3>2, <4>1 DEF Named
    <3>4. QED BY <1>3, <3>1, <3>3 DEF Range
  <2>2. CASE ~(loc[u] > m) /\ loc[u] # 0
    <3>1. left[u] = loc[u] /\ loc[u] \in 1 .. m /\ o[u] = ns[loc[u]]
      BY <1>1, <2>2 DEF Named
    <3>2. QED BY <1>1, <2>2, <3>1
  <2>3. CASE loc[u] = 0
    <3>1. left[u] = 0 /\ o[u] \notin Range(ns)
      BY <1>1, <2>3 DEF Named
    <3>2. QED BY <1>1, <1>3, <3>1 DEF Range
  <2>4. QED BY <2>1, <2>2, <2>3
<1>5. \A u, w \in cr : o[u] = o[w] => u = w
  BY DEF Named
<1>6. Named(new, left, o, cr)
  BY <1>2, <1>4, <1>5 DEF Named
<1>7. QED BY <1>6 DEF new

(* A slot that is captured for the first time.                               *)
Captures(ns, loc, o, cr, u, slot, loc2, o2) ==
    /\ ns \in Seq(Variables) /\ slot \in 1 .. Len(ns)
    /\ u \notin cr /\ \A w \in cr : loc[w] # slot
    /\ loc2[u] = slot /\ o2[u] = ns[slot]
    /\ \A w \in cr : loc2[w] = loc[w] /\ o2[w] = o[w]

LEMMA NamedCapture ==
    ASSUME NEW ns, NEW loc, NEW o, NEW cr, NEW u, NEW slot, NEW loc2, NEW o2,
           Named(ns, loc, o, cr), Captures(ns, loc, o, cr, u, slot, loc2, o2)
    PROVE  Named(ns, loc2, o2, cr \cup {u})
<1>0. /\ ns \in Seq(Variables) /\ slot \in 1 .. Len(ns)
      /\ u \notin cr /\ \A w \in cr : loc[w] # slot
      /\ loc2[u] = slot /\ o2[u] = ns[slot]
      /\ \A w \in cr : loc2[w] = loc[w] /\ o2[w] = o[w]
  BY DEF Captures
<1>1. DOMAIN ns = 1 .. Len(ns) /\ slot # 0
  BY <1>0
<1>2. \A w \in cr : o2[w] # o2[u]
  <2>1. ASSUME NEW w \in cr, o[w] = ns[slot] PROVE FALSE
    <3>1. CASE loc[w] = 0
      BY <1>0, <1>1, <2>1, <3>1 DEF Named, Range
    <3>2. CASE loc[w] # 0
      <4>1. loc[w] \in 1 .. Len(ns) /\ ns[loc[w]] = ns[slot]
        BY <2>1, <3>2 DEF Named
      <4>2. loc[w] = slot
        BY <1>0, <4>1 DEF Named
      <4>3. QED BY <1>0, <4>2
    <3>3. QED BY <3>1, <3>2
  <2>2. QED BY <1>0, <2>1
<1>3. ASSUME NEW v \in cr \cup {u}, NEW w \in cr \cup {u}, o2[v] = o2[w] PROVE v = w
  <2>1. CASE v \in cr /\ w \in cr
    BY <1>0, <1>3, <2>1 DEF Named
  <2>2. CASE v = u
    BY <1>2, <1>3, <2>2
  <2>3. CASE w = u
    BY <1>2, <1>3, <2>3
  <2>4. QED BY <2>1, <2>2, <2>3
<1>4. ASSUME NEW w \in cr \cup {u}
      PROVE  IF loc2[w] # 0 THEN loc2[w] \in 1 .. Len(ns) /\ o2[w] = ns[loc2[w]]
             ELSE o2[w] \notin Range(ns)
  <2>1. CASE w = u
    BY <1>0, <1>1, <2>1
  <2>2. CASE w \in cr
    BY <1>0, <2>2 DEF Named
  <2>3. QED BY <2>1, <2>2
<1>5. QED BY <1>3, <1>4 DEF Named

LEMMA CellTypes ==
    ASSUME CellInv
    PROVE  /\ names \in Seq(Variables) /\ Len(names) = sp /\ sp \in Nat /\ sp <= STACK_MAX
           /\ STACK_MAX \in Nat /\ created \subseteq Upvalues
           /\ \A u \in created : location[u] \in Nat /\ location[u] <= sp
           /\ Captured = {of[u] : u \in created}
           /\ TypeOK /\ OpenSorted /\ OpenAreLive /\ FramesNest
<1>1. TypeOK /\ OpenSorted /\ OpenAreLive /\ FramesNest /\ SlotsNamed
  BY DEF CellInv, ListInv
<1>2. Captured = {of[u] : u \in created}
  <2>1. ASSUME NEW c \in Closures, NEW k \in DOMAIN upvalues[c] PROVE upvalues[c][k] \in created
    <3>1. upvalues[c] \in Seq(created)
      BY <1>1 DEF TypeOK
    <3>2. QED BY <3>1
  <2>2. ASSUME NEW u \in created PROVE \E c \in Closures : \E k \in DOMAIN upvalues[c] : upvalues[c][k] = u
    BY DEF CellInv, Attached, Range
  <2>3. QED BY <2>1, <2>2 DEF Captured
<1>3. QED BY <1>1, <1>2, UpvaluesAssumption DEF TypeOK, SlotsNamed, OpenAreLive

(* What a push leaves named.                                                *)
LEMMA PushNames ==
    ASSUME CellInv, NEW v, Push(v), UNCHANGED <<location, of, created, upvalues>>
    PROVE  Named(names, location, of, created)' /\ Attached'
<1>1. Fresh(names) \in Variables /\ Fresh(names) \notin Range(names) /\ Fresh(names) \notin Captured
  BY FreshIsUnused DEF Push, Unused
<1>2. names \in Seq(Variables) /\ \A u \in created : Fresh(names) # of[u]
  BY <1>1, CellTypes
<1>3. Named(Append(names, Fresh(names)), location, of, created)
  BY <1>1, <1>2, NamedPush DEF CellInv
<1>4. names' = Append(names, Fresh(names))
  BY DEF Push
<1>5. Attached'
  BY DEF CellInv, Attached, Range
<1>6. QED BY <1>3, <1>4, <1>5 DEF Named

(* And dropping the slots from m on, with their open upvalues closed.         *)
LEMMA DropNames ==
    ASSUME CellInv, NEW m \in 0 .. sp, names' = SubSeq(names, 1, m),
           UNCHANGED <<of, created, upvalues>>,
           \A u \in created : location'[u] = IF location[u] > m THEN 0 ELSE location[u]
    PROVE  Named(names, location, of, created)' /\ Attached'
<1>1. /\ names \in Seq(Variables) /\ m \in 0 .. Len(names)
      /\ \A u \in created : location[u] \in Nat
  BY CellTypes
<1>2. Named(SubSeq(names, 1, m), location', of, created)
  BY <1>1, NamedDrop DEF CellInv
<1>3. Attached'
  BY DEF CellInv, Attached, Range
<1>4. QED BY <1>2, <1>3 DEF Named

LEMMA StackStepKeepsCells ==
    ASSUME CellInv, ~ PopsCaptured, StackStep
    PROVE  CellInv'
<1>1. ListInv'
  BY StackStepKeepsList DEF CellInv
<1>2. FromBottom'
  <2>1. frames # <<>> /\ frames' = frames
    BY DEF StackStep, OpConstant, OpGetLocal, OpSetLocal, OpPop, OpGetUpvalue, OpSetUpvalue, Ready
  <2>2. QED BY <2>1 DEF CellInv, FromBottom
<1>3. ASSUME NEW v, Push(v), UNCHANGED heap
      PROVE  Named(names, location, of, created)' /\ Attached'
  BY <1>3, PushNames DEF heap
<1>4. ASSUME UNCHANGED <<names, location, of, created, upvalues>>
      PROVE  Named(names, location, of, created)' /\ Attached'
  BY <1>4 DEF CellInv, Named, Attached, Range
<1>5. ASSUME OpPop PROVE Named(names, location, of, created)' /\ Attached'
  <2>1. /\ sp > Slots /\ ~ IsOpen(sp) /\ names' = SubSeq(names, 1, sp - 1)
        /\ UNCHANGED <<location, of, created, upvalues>> /\ frames # <<>>
    BY <1>5 DEF OpPop, Ready, heap
  <2>2. Slots \in 1 .. STACK_MAX
    BY <2>1, FrameFacts, CellTypes
  <2>3. sp - 1 \in 0 .. sp
    BY <2>1, <2>2, CellTypes
  <2>4. \A u \in created : location'[u] = IF location[u] > sp - 1 THEN 0 ELSE location[u]
    BY <2>1, CellTypes DEF IsOpen
  <2>5. QED BY <2>1, <2>3, <2>4, DropNames
<1>6. Named(names, location, of, created)' /\ Attached'
  <2>1. ASSUME NEW slot \in 1 .. sp, OpSetLocal(slot) PROVE UNCHANGED <<names, location, of, created, upvalues>>
    BY <2>1 DEF OpSetLocal, heap
  <2>2. ASSUME NEW k \in 1 .. MaxCaptures, OpSetUpvalue(k)
        PROVE  UNCHANGED <<names, location, of, created, upvalues>>
    BY <2>2 DEF OpSetUpvalue
  <2>3. QED BY <1>3, <1>4, <1>5, <2>1, <2>2 DEF StackStep, OpConstant, OpGetLocal, OpGetUpvalue
<1>7. QED BY <1>1, <1>2, <1>6 DEF CellInv

(* The new upvalue, or the one found, is attached to the closure in making.   *)
LEMMA AttachedIn ==
    ASSUME CellInv, NEW u, Attach(u), created' \subseteq created \cup {u}
    PROVE  Attached'
<1>1. /\ building \in Closures
      /\ upvalues \in [Closures -> Seq(created)]
      /\ upvalues' = [upvalues EXCEPT ![building] = Append(@, u)]
  BY CellTypes DEF TypeOK, Attach
<1> DEFINE old == upvalues[building]
           new == Append(old, u)
<1>2. old \in Seq(created) /\ upvalues'[building] = new
  BY <1>1
<1>3. u \in Range(new) /\ Range(old) \subseteq Range(new)
  <2>1. /\ new \in Seq(created \cup {u}) /\ Len(new) = Len(old) + 1 /\ Len(old) \in Nat
        /\ new[Len(old) + 1] = u /\ \A i \in 1 .. Len(old) : new[i] = old[i]
    <3>1. old \in Seq(created \cup {u})
      BY <1>2, SeqGrows
    <3> HIDE DEF old
    <3>2. QED BY <3>1
  <2>2. DOMAIN new = 1 .. Len(old) + 1 /\ DOMAIN old = 1 .. Len(old)
    BY <1>2, <2>1
  <2>3. Len(old) + 1 \in DOMAIN new /\ \A i \in DOMAIN old : i \in DOMAIN new
    BY <2>1, <2>2
  <2> HIDE DEF old, new
  <2>4. QED BY <2>1, <2>2, <2>3 DEF Range
<1>4. ASSUME NEW w \in created' PROVE \E c \in Closures : w \in Range(upvalues'[c])
  <2>1. CASE w = u
    BY <1>1, <1>2, <1>3, <2>1
  <2>2. CASE w \in created
    <3>1. PICK c \in Closures : w \in Range(upvalues[c])
      BY <2>2 DEF CellInv, Attached
    <3>2. CASE c = building
      BY <1>1, <1>2, <1>3, <3>1, <3>2
    <3>3. CASE c # building
      BY <1>1, <3>1, <3>3
    <3>4. QED BY <3>2, <3>3
  <2>3. QED BY <2>1, <2>2
<1>5. QED BY <1>4 DEF Attached, Range

(* The walk of capture_upvalue misses no upvalue of the slot.                *)
LEMMA NotOpen ==
    ASSUME CellInv, NEW slot \in 1 .. sp,
           ~ (Above(slot) < Len(open) /\ location[open[Above(slot) + 1]] = slot)
    PROVE  \A w \in created : location[w] # slot
<1> DEFINE n == Above(slot)
<1>1. TypeOK /\ OpenSorted /\ OpenAreLive /\ slot \in Nat \ {0}
  BY CellTypes
<1>2. /\ n \in 0 .. Len(open) /\ \A i \in 1 .. n : location[open[i]] > slot
      /\ n < Len(open) => location[open[n + 1]] <= slot
  BY <1>1, AboveStops
<1>3. Len(open) \in Nat /\ \A i \in 1 .. Len(open) : open[i] \in created /\ location[open[i]] \in Nat
  <2>1. \A i \in 1 .. Len(open) : open[i] \in created
    BY <1>1, Element DEF TypeOK
  <2>2. QED BY <1>1, <2>1, CellTypes DEF TypeOK
<1>4. ~ (n < Len(open) /\ location[open[n + 1]] = slot)
  OBVIOUS
<1> HIDE DEF n
<1>5. ASSUME NEW w \in created, location[w] = slot PROVE FALSE
  <2>1. w \in Range(open)
    BY <1>1, <1>5 DEF OpenAreLive
  <2>2. PICK i \in 1 .. Len(open) : open[i] = w
    BY <1>1, <2>1 DEF Range, TypeOK
  <2>3. i \in n + 1 .. Len(open) /\ n < Len(open) /\ n + 1 \in 1 .. Len(open)
    BY <1>1, <1>2, <1>3, <1>5, <2>2
  <2>4. location[open[n + 1]] < slot
    BY <1>1, <1>2, <1>3, <1>4, <2>3
  <2>5. CASE i = n + 1
    BY <1>1, <1>5, <2>2, <2>4, <2>5
  <2>6. CASE i > n + 1
    <3>1. location[open[n + 1]] > location[open[i]]
      BY <1>1, <2>3, <2>6 DEF OpenSorted
    <3>2. QED BY <1>1, <1>3, <1>5, <2>2, <2>3, <2>4, <3>1
  <2>7. QED BY <1>2, <2>3, <2>5, <2>6
<1>6. QED BY <1>5

LEMMA ClosureStepKeepsCells ==
    ASSUME CellInv, ClosureStep
    PROVE  CellInv'
<1>1. ListInv'
  BY ClosureStepKeepsList DEF CellInv
<1>2. building # Main => frames # <<>>
  BY DEF CellInv, ListInv, BuildingInFrame
<1>3. FromBottom'
  <2>1. frames # <<>> /\ frames' = frames
    BY <1>2 DEF ClosureStep, OpClosure, Ready, CaptureOpen, CaptureNew, CaptureOuter, Attach,
                ClosureMade, machine
  <2>2. QED BY <2>1 DEF CellInv, FromBottom
<1>4. ASSUME NEW c \in Closures, NEW v \in Values, OpClosure(c, v)
      PROVE  Named(names, location, of, created)' /\ Attached'
  BY <1>4, PushNames DEF OpClosure
<1>5. ASSUME NEW u, Attach(u), UNCHANGED <<open, location, created, of>>
      PROVE  Named(names, location, of, created)' /\ Attached'
  <2>1. Attached'
    BY <1>5, AttachedIn
  <2>2. QED BY <1>5, <2>1 DEF CellInv, Named, Attach, machine
<1>6. ASSUME NEW slot \in 1 .. sp, NEW u \in Upvalues, CaptureNew(slot, u)
      PROVE  Named(names, location, of, created)' /\ Attached'
  <2>1. /\ u \notin created /\ created' = created \cup {u}
        /\ location' = [location EXCEPT ![u] = slot]
        /\ of' = [of EXCEPT ![u] = names[slot]]
        /\ Attach(u) /\ names' = names
        /\ ~ (Above(slot) < Len(open) /\ location[open[Above(slot) + 1]] = slot)
    BY <1>6 DEF CaptureNew, Attach, machine
  <2>2. \A w \in created : location[w] # slot
    BY <2>1, NotOpen
  <2>3. /\ location'[u] = slot /\ of'[u] = names[slot]
        /\ \A w \in created : location'[w] = location[w] /\ of'[w] = of[w]
    BY <2>1, CellTypes DEF TypeOK
  <2>4. names \in Seq(Variables) /\ slot \in 1 .. Len(names) /\ Named(names, location, of, created)
    BY CellTypes DEF CellInv
  <2>5. Named(names, location', of', created \cup {u})
    <3> DEFINE loc2 == location'
               o2 == of'
    <3>1. /\ u \notin created /\ loc2[u] = slot /\ o2[u] = names[slot]
          /\ \A w \in created : loc2[w] = location[w] /\ o2[w] = of[w]
      BY <2>1, <2>3
    <3> HIDE DEF loc2, o2
    <3>2. Named(names, loc2, o2, created \cup {u})
      <4>1. Captures(names, location, of, created, u, slot, loc2, o2)
        BY <2>2, <2>4, <3>1 DEF Captures
      <4>2. QED BY <2>4, <4>1, NamedCapture
    <3>3. QED BY <3>2 DEF loc2, o2
  <2>6. Attached'
    BY <2>1, AttachedIn
  <2>7. QED BY <2>1, <2>5, <2>6 DEF Named
<1>7. ASSUME ClosureMade PROVE Named(names, location, of, created)' /\ Attached'
  BY <1>7 DEF ClosureMade, machine, CellInv, Named, Attached, Range
<1>8. Named(names, location, of, created)' /\ Attached'
  BY <1>4, <1>5, <1>6, <1>7 DEF ClosureStep, CaptureOpen, CaptureOuter
<1>9. QED BY <1>1, <1>3, <1>8 DEF CellInv

LEMMA CallStepKeepsCells ==
    ASSUME CellInv, ~ FailsOpen, CallStep
    PROVE  CellInv'
<1>1. ListInv'
  BY CallStepKeepsList DEF CellInv
<1>2. TypeOK /\ OpenSorted /\ OpenAreLive /\ FramesNest
  BY CellTypes
<1>3. ASSUME NEW last \in 1 .. STACK_MAX, CloseUpvalues(last)
      PROVE  \A u \in created : location'[u] = IF location[u] > last - 1 THEN 0 ELSE location[u]
  <2>1. \A u \in created : location'[u] = IF location[u] >= last THEN 0 ELSE location[u]
    BY <1>2, <1>3, CloseLeaves
  <2>2. QED BY <2>1, CellTypes
<1>4. ASSUME OpCloseUpvalue PROVE CellInv'
  <2>1. /\ frames # <<>> /\ sp > Slots /\ CloseUpvalues(sp) /\ names' = SubSeq(names, 1, sp - 1)
        /\ UNCHANGED <<frames, upvalues, created, of>>
    BY <1>4 DEF OpCloseUpvalue, Ready
  <2>2. sp \in 1 .. STACK_MAX /\ sp - 1 \in 0 .. sp
    BY <1>2, <2>1, FrameFacts, CellTypes
  <2>3. Named(names, location, of, created)' /\ Attached'
    BY <1>3, <2>1, <2>2, DropNames
  <2>4. FromBottom'
    BY <2>1 DEF CellInv, FromBottom
  <2>5. QED BY <1>1, <2>3, <2>4 DEF CellInv
<1>5. ASSUME NEW c \in made, NEW n \in 0 .. MaxArgs, Call(c, n) PROVE CellInv'
  <2>1. /\ frames # <<>> /\ UNCHANGED <<names, heap>>
        /\ frames' = Append(frames, [closure |-> c, slots |-> sp - n])
    BY <1>5 DEF Call, Ready
  <2>2. Named(names, location, of, created)' /\ Attached'
    BY <2>1 DEF CellInv, Named, Attached, Range, heap
  <2> DEFINE fr == [closure |-> c, slots |-> sp - n]
  <2>3. frames' # <<>> /\ frames'[1] = frames[1]
    <3> DEFINE R == [closure : made, slots : 1 .. STACK_MAX]
    <3>1. frames \in Seq(R) /\ frames # <<>> /\ frames' = Append(frames, fr)
      BY <1>2, <2>1 DEF TypeOK
    <3> HIDE DEF R, fr
    <3>2. frames \in Seq(R \cup {fr}) /\ Len(frames) \in Nat
      <4>1. R \subseteq R \cup {fr}
        OBVIOUS
      <4>2. QED BY <3>1, <4>1, SeqGrows
    <3>3. Len(frames) # 0
      BY <3>1
    <3>4. Len(frames') = Len(frames) + 1 /\ \A i \in 1 .. Len(frames) : frames'[i] = frames[i]
      BY <3>1, <3>2
    <3>5. frames' # <<>>
      BY <3>2, <3>4
    <3>6. QED BY <3>2, <3>3, <3>4, <3>5
  <2>4. FromBottom'
    BY <2>1, <2>3 DEF CellInv, FromBottom
  <2>5. QED BY <1>1, <2>2, <2>4 DEF CellInv
<1>6. ASSUME OpReturn PROVE CellInv'
  <2> DEFINE below == SubSeq(names, 1, Slots - 1)
             x == Fresh(below)
  <2>1. /\ frames # <<>> /\ Len(frames) > 1 /\ sp > Slots /\ CloseUpvalues(Slots)
        /\ Unused(below) # {} /\ names' = Append(below, x)
        /\ frames' = SubSeq(frames, 1, Len(frames) - 1)
        /\ UNCHANGED <<upvalues, created, of>>
    BY <1>6 DEF OpReturn, Ready
  <2>2. Slots \in 1 .. STACK_MAX /\ Slots - 1 \in 0 .. sp
    BY <1>2, <2>1, FrameFacts, CellTypes
  <2>3. \A u \in created : location'[u] = IF location[u] > Slots - 1 THEN 0 ELSE location[u]
    BY <1>3, <2>1, <2>2
  <2>4. Named(below, location', of, created) /\ below \in Seq(Variables)
    <3>1. /\ names \in Seq(Variables) /\ Slots - 1 \in 0 .. Len(names)
          /\ \A u \in created : location[u] \in Nat
      BY <2>2, CellTypes
    <3>2. Named(names, location, of, created)
      BY DEF CellInv
    <3>3. QED BY <2>3, <3>1, <3>2, NamedDrop, Prefix
  <2>5. x \in Variables /\ x \notin Range(below) /\ \A u \in created : x # of[u]
    BY <2>1, FreshIsUnused, CellTypes DEF Unused
  <2> HIDE DEF below, x
  <2>6. Named(Append(below, x), location', of, created)
    BY <2>4, <2>5, NamedPush
  <2>7. Named(names, location, of, created)'
    BY <2>1, <2>6 DEF Named
  <2>8. Attached'
    BY <2>1 DEF CellInv, Attached, Range
  <2>9. frames' # <<>> /\ frames'[1] = frames[1]
    <3>1. frames \in Seq([closure : made, slots : 1 .. STACK_MAX])
      BY <1>2 DEF TypeOK
    <3>2. Len(frames) - 1 \in 0 .. Len(frames) /\ 1 \in 1 .. Len(frames) - 1 /\ Len(frames) - 1 # 0
      BY <2>1, <3>1
    <3>3. Len(frames') = Len(frames) - 1 /\ frames'[1] = frames[1]
      BY <2>1, <3>1, <3>2, Prefix
    <3>4. frames' # <<>>
      BY <3>2, <3>3
    <3>5. QED BY <3>3, <3>4
  <2>10. FromBottom'
    BY <2>1, <2>9 DEF CellInv, FromBottom
  <2>11. QED BY <1>1, <2>7, <2>8, <2>10 DEF CellInv
<1>7. ASSUME ScriptReturn PROVE CellInv'
  <2>1. /\ frames # <<>> /\ Len(frames) = 1 /\ sp = Slots + 1 /\ CloseUpvalues(Slots)
        /\ names' = SubSeq(names, 1, sp - 2) /\ frames' = <<>> /\ sp' = sp - 2
        /\ UNCHANGED <<upvalues, created, of>>
    BY <1>7 DEF ScriptReturn, Ready
  <2>2. Slots = 1 /\ Slots \in 1 .. STACK_MAX
    BY <1>2, <2>1, FrameFacts DEF CellInv, FromBottom
  <2>3. sp = 2 /\ sp - 2 = Slots - 1 /\ sp - 2 \in 0 .. sp /\ sp' = 0
    BY <2>1, <2>2
  <2>4. Named(names, location, of, created)' /\ Attached'
    BY <1>3, <2>1, <2>2, <2>3, DropNames
  <2>5. FromBottom'
    BY <2>1, <2>3 DEF FromBottom
  <2>6. QED BY <1>1, <2>4, <2>5 DEF CellInv
<1>8. ASSUME NEW v \in Values, Interpret(v) PROVE CellInv'
  <2>1. /\ frames = <<>> /\ Push(v) /\ UNCHANGED heap
        /\ frames' = <<[closure |-> Main, slots |-> sp + 1]>>
    BY <1>8 DEF Interpret
  <2>2. Named(names, location, of, created)' /\ Attached'
    BY <2>1, PushNames DEF heap
  <2>3. sp = 0
    BY <2>1 DEF CellInv, FromBottom
  <2>4. FromBottom'
    BY <2>1, <2>3 DEF FromBottom
  <2>5. QED BY <1>1, <2>2, <2>4 DEF CellInv
<1>9. ASSUME Fail PROVE CellInv'
  <2>1. /\ open = <<>> /\ sp' = 0 /\ frames' = <<>> /\ names' = <<>>
        /\ UNCHANGED <<location, upvalues, created, of>>
    BY <1>9 DEF Fail
  <2>2. \A u \in created : location[u] = 0
    BY <1>2, <2>1 DEF OpenAreLive, Range
  <2>3. SubSeq(names, 1, 0) = <<>> /\ 0 \in 0 .. sp
    BY CellTypes
  <2>4. Named(names, location, of, created)' /\ Attached'
    BY <2>1, <2>2, <2>3, DropNames
  <2>5. FromBottom'
    BY <2>1 DEF FromBottom
  <2>6. QED BY <1>1, <2>4, <2>5 DEF CellInv
<1>10. QED BY <1>4, <1>5, <1>6, <1>7, <1>8, <1>9 DEF CallStep

LEMMA NextKeepsCells ==
    ASSUME CellInv, ~ PopsCaptured, ~ FailsOpen, [Next]_vars
    PROVE  CellInv'
<1>1. CASE UNCHANGED vars
  <2>1. ListInv'
    BY <1>1 DEF vars, machine, heap, CellInv, ListInv, TypeOK, OpenSorted, OpenAreLive,
                FramesNest, BuildingInFrame, SlotsNamed, Slots, frame
  <2>2. Named(names, location, of, created)' /\ Attached' /\ FromBottom'
    BY <1>1 DEF vars, machine, heap, CellInv, Named, Attached, FromBottom, Range
  <2>3. QED BY <2>1, <2>2 DEF CellInv
<1>2. QED
  BY <1>1, StackStepKeepsCells, ClosureStepKeepsCells, CallStepKeepsCells DEF Next

(* No two slots hold one variable, an open upvalue stands for the variable of *)
(* its slot and a closed one for a variable of no slot, and no variable has    *)
(* two upvalues: what capture_upvalue's walk of the list and close_upvalues    *)
(* are for.                                                                 *)
THEOREM CellInvariant ==
    ASSUME ~ PopsCaptured, ~ FailsOpen
    PROVE  Spec => []CellInv
<1>1. ASSUME Init PROVE CellInv
  <2>1. ListInv
    BY <1>1, InitList
  <2>2. Named(names, location, of, created) /\ Attached /\ FromBottom
    BY <1>1 DEF Init, Named, Attached, FromBottom
  <2>3. QED BY <2>1, <2>2 DEF CellInv
<1>2. QED BY <1>1, NextKeepsCells, PTL DEF Spec

(* The variables each closure captured, as Cells sees them.                  *)
Caught == [c \in Closures |-> [k \in DOMAIN upvalues[c] |-> of[upvalues[c][k]]]]

LEMMA LiveIs == Abstract!Live = Live /\ Abstract!Kept = Captured
<1>1. ASSUME NEW c \in Closures
      PROVE  Range(Caught[c]) = {of[upvalues[c][k]] : k \in DOMAIN upvalues[c]}
  <2>1. Caught[c] = [k \in DOMAIN upvalues[c] |-> of[upvalues[c][k]]]
    BY DEF Caught
  <2>2. QED BY <2>1 DEF Range
<1>2. Abstract!Kept = UNION {Range(Caught[c]) : c \in Closures}
  BY DEF Abstract!Kept, Abstract!Range, Range, Caught
<1>3. UNION {Range(Caught[c]) : c \in Closures} = Captured
  BY <1>1 DEF Captured
<1>4. QED BY <1>2, <1>3 DEF Abstract!Live, Abstract!Range, Range, Live

(* A variable that can be named has its value in its slot, or in the upvalue  *)
(* that stands for it.                                                       *)
StoreIs ==
    /\ Abstract!Live = Live
    /\ Live = Range(names) \cup {of[u] : u \in created}
    /\ \A i \in 1 .. sp : names[i] \in Live /\ Store[names[i]] = stack[i]
    /\ \A u \in created : of[u] \in Live /\ Store[of[u]] = Deref(u)

LEMMA StoreFacts == CellInv => StoreIs
<1> SUFFICES ASSUME CellInv PROVE StoreIs
  OBVIOUS
<1>1. /\ names \in Seq(Variables) /\ Len(names) = sp /\ Captured = {of[u] : u \in created}
      /\ DOMAIN names = 1 .. sp
  BY CellTypes
<1>2. Live = Range(names) \cup {of[u] : u \in created}
  BY <1>1 DEF Live
<1>3. ASSUME NEW i \in 1 .. sp PROVE names[i] \in Live /\ Store[names[i]] = stack[i]
  <2>1. names[i] \in Range(names) /\ names[i] \in Live
    BY <1>1, <1>2 DEF Range
  <2>2. \A j \in DOMAIN names : names[j] = names[i] => j = i
    BY <1>1 DEF CellInv, Named
  <2>3. (CHOOSE j \in DOMAIN names : names[j] = names[i]) = i
    BY <1>1, <2>2
  <2>4. Store[names[i]] = stack[CHOOSE j \in DOMAIN names : names[j] = names[i]]
    BY <2>1 DEF Store
  <2>5. QED BY <2>1, <2>3, <2>4
<1>4. ASSUME NEW u \in created PROVE of[u] \in Live /\ Store[of[u]] = Deref(u)
  <2>1. of[u] \in Live
    BY <1>2
  <2>2. CASE location[u] # 0
    <3>1. location[u] \in 1 .. sp /\ of[u] = names[location[u]]
      BY <1>1, <2>2 DEF CellInv, Named
    <3>2. Store[names[location[u]]] = stack[location[u]]
      BY <1>3, <3>1
    <3>3. QED BY <2>1, <2>2, <3>1, <3>2 DEF Deref
  <2>3. CASE location[u] = 0
    <3>1. of[u] \notin Range(names)
      BY <2>3 DEF CellInv, Named
    <3>2. Store[of[u]] = closed[CHOOSE w \in created : of[w] = of[u]]
      BY <2>1, <3>1 DEF Store
    <3>3. \A w \in created : of[w] = of[u] => w = u
      BY DEF CellInv, Named
    <3>4. (CHOOSE w \in created : of[w] = of[u]) = u
      BY <3>3
    <3>5. QED BY <2>1, <2>3, <3>2, <3>4 DEF Deref
  <2>4. QED BY <2>2, <2>3
<1>5. QED BY <1>2, <1>3, <1>4, LiveIs DEF StoreIs

LEMMA StoreNext == ASSUME CellInv, CellInv' PROVE StoreIs /\ StoreIs' /\ Abstract!Live' = Live'
<1>1. StoreIs /\ StoreIs'
  BY StoreFacts, PTL
<1>2. Abstract!Live' = Live'
  BY <1>1 DEF StoreIs
<1>3. QED BY <1>1, <1>2

(* A step that gives x the value v, and leaves every other variable alone.     *)
LEMMA SetIs ==
    ASSUME CellInv, CellInv', NEW x, NEW v,
           \A i \in 1 .. sp' : stack'[i] = IF names'[i] = x THEN v ELSE Store[names'[i]],
           \A u \in created' : Deref(u)' = IF of'[u] = x THEN v ELSE Store[of'[u]]
    PROVE  Abstract!Set(x, v)
<1>1. StoreIs' /\ Abstract!Live' = Live' /\ CellInv'
  BY StoreNext
<1>2. DOMAIN names' = 1 .. sp'
  <2>1. names' \in Seq(Variables)
    BY <1>1 DEF CellInv, ListInv, TypeOK
  <2>2. Len(names') = sp' /\ sp' \in Nat
    BY <1>1, UpvaluesAssumption DEF CellInv, ListInv, SlotsNamed, TypeOK
  <2>3. QED BY <2>1, <2>2
<1>3. ASSUME NEW y \in Live' PROVE Store'[y] = IF y = x THEN v ELSE Store[y]
  <2>1. y \in Range(names') \/ \E u \in created' : y = of'[u]
    BY <1>1 DEF StoreIs, Range
  <2>2. ASSUME NEW i \in 1 .. sp', y = names'[i] PROVE Store'[y] = IF y = x THEN v ELSE Store[y]
    <3>1. Store'[names'[i]] = stack'[i]
      BY <1>1 DEF StoreIs
    <3>2. QED BY <2>2, <3>1
  <2>3. ASSUME NEW u \in created', y = of'[u] PROVE Store'[y] = IF y = x THEN v ELSE Store[y]
    <3>1. Store'[of'[u]] = Deref(u)'
      BY <1>1 DEF StoreIs
    <3>2. QED BY <2>3, <3>1
  <2>4. QED BY <1>2, <2>1, <2>2, <2>3 DEF Range
<1>4. Store' = [y \in Live' |-> Store'[y]]
  BY DEF Store
<1>5. Store' = [y \in Live' |-> IF y = x THEN v ELSE Store[y]]
  BY <1>3, <1>4
<1> DEFINE changed == [y \in {x} |-> v]
<1>6. \A y : (y \in DOMAIN changed <=> y = x) /\ (y = x => changed[y] = v)
  OBVIOUS
<1> HIDE DEF changed
<1>7. Store' = [y \in Live' |-> IF y \in DOMAIN changed THEN changed[y] ELSE Store[y]]
  BY <1>5, <1>6
<1>8. Abstract!Update(changed)
  BY <1>1, <1>7 DEF Abstract!Update, Abstract!Live
<1>9. QED BY <1>8 DEF Abstract!Set, changed

(* A step that leaves every variable alone that can still be named.            *)
LEMMA UnchangedIs ==
    ASSUME CellInv, CellInv',
           \A i \in 1 .. sp' : stack'[i] = Store[names'[i]],
           \A u \in created' : Deref(u)' = Store[of'[u]]
    PROVE  Abstract!Unchanged
<1>1. StoreIs' /\ Abstract!Live' = Live' /\ CellInv'
  BY StoreNext
<1>2. DOMAIN names' = 1 .. sp'
  <2>1. names' \in Seq(Variables)
    BY <1>1 DEF CellInv, ListInv, TypeOK
  <2>2. Len(names') = sp' /\ sp' \in Nat
    BY <1>1, UpvaluesAssumption DEF CellInv, ListInv, SlotsNamed, TypeOK
  <2>3. QED BY <2>1, <2>2
<1>3. ASSUME NEW y \in Live' PROVE Store'[y] = Store[y]
  <2>1. y \in Range(names') \/ \E u \in created' : y = of'[u]
    BY <1>1 DEF StoreIs, Range
  <2>2. ASSUME NEW i \in 1 .. sp', y = names'[i] PROVE Store'[y] = Store[y]
    <3>1. Store'[names'[i]] = stack'[i]
      BY <1>1 DEF StoreIs
    <3>2. QED BY <2>2, <3>1
  <2>3. ASSUME NEW u \in created', y = of'[u] PROVE Store'[y] = Store[y]
    <3>1. Store'[of'[u]] = Deref(u)'
      BY <1>1 DEF StoreIs
    <3>2. QED BY <2>3, <3>1
  <2>4. QED BY <1>2, <2>1, <2>2, <2>3 DEF Range
<1>4. Store' = [y \in Live' |-> Store'[y]]
  BY DEF Store
<1>5. Store' = [y \in Live' |-> Store[y]]
  BY <1>3, <1>4
<1>6. \A y : y \notin DOMAIN <<>>
  OBVIOUS
<1>7. Store' = [y \in Live' |-> IF y \in DOMAIN <<>> THEN <<>>[y] ELSE Store[y]]
  BY <1>5, <1>6
<1>8. Abstract!Update(<<>>)
  BY <1>1, <1>7 DEF Abstract!Update, Abstract!Live
<1>9. QED BY <1>8 DEF Abstract!Unchanged

(* A push declares a variable.                                               *)
LEMMA PushSets ==
    ASSUME CellInv, CellInv', NEW v, Push(v), UNCHANGED <<location, of, created, upvalues, closed>>
    PROVE  /\ Fresh(names) \in Variables \ Abstract!Live
           /\ names' = Append(names, Fresh(names))
           /\ Caught' = Caught
           /\ Abstract!Set(Fresh(names), v)
<1> DEFINE x == Fresh(names)
<1>1. x \in Variables /\ x \notin Range(names) /\ x \notin Captured
  BY FreshIsUnused DEF Push, Unused
<1>2. x \in Variables \ Abstract!Live
  BY <1>1, LiveIs DEF Live
<1>3. names' = Append(names, x) /\ sp' = sp + 1 /\ stack' = [stack EXCEPT ![sp + 1] = v]
      /\ sp < STACK_MAX /\ UNCHANGED <<location, of, created, closed>>
  BY DEF Push
<1>4. Caught' = Caught
  BY DEF Caught
<1> HIDE DEF x
<1>5. /\ names \in Seq(Variables) /\ Len(names) = sp /\ sp \in Nat /\ STACK_MAX \in Nat
      /\ \A u \in created : location[u] \in Nat /\ location[u] <= sp
      /\ stack \in [1 .. STACK_MAX -> Values] /\ Captured = {of[u] : u \in created}
  BY CellTypes DEF TypeOK
<1>6. StoreIs
  BY StoreFacts
<1>7. /\ \A i \in 1 .. sp : names'[i] = names[i] /\ stack'[i] = stack[i] /\ names[i] # x
      /\ names'[sp + 1] = x /\ stack'[sp + 1] = v
      /\ \A i \in 1 .. sp' : i \in 1 .. sp \/ i = sp + 1
  <2>1. \A i \in 1 .. sp : names'[i] = names[i]
    BY <1>1, <1>3, <1>5
  <2>2. names'[sp + 1] = x
    BY <1>1, <1>3, <1>5
  <2>3. \A i \in 1 .. sp : stack'[i] = stack[i]
    BY <1>3, <1>5
  <2>4. stack'[sp + 1] = v
    BY <1>3, <1>5
  <2>5. DOMAIN names = 1 .. sp
    BY <1>5
  <2>6. \A i \in 1 .. sp : names[i] # x
    BY <1>1, <2>5 DEF Range
  <2>7. \A i \in 1 .. sp' : i \in 1 .. sp \/ i = sp + 1
    BY <1>3, <1>5
  <2>8. QED BY <2>1, <2>2, <2>3, <2>4, <2>6, <2>7
<1>8. ASSUME NEW i \in 1 .. sp' PROVE stack'[i] = IF names'[i] = x THEN v ELSE Store[names'[i]]
  <2>1. CASE i \in 1 .. sp
    BY <1>6, <1>7, <2>1 DEF StoreIs
  <2>2. CASE i = sp + 1
    BY <1>7, <2>2
  <2>3. QED BY <1>7, <2>1, <2>2
<1>9. ASSUME NEW u \in created' PROVE Deref(u)' = IF of'[u] = x THEN v ELSE Store[of'[u]]
  <2>1. u \in created /\ of'[u] = of[u] /\ of[u] # x /\ Store[of[u]] = Deref(u)
    BY <1>1, <1>3, <1>5, <1>6 DEF StoreIs
  <2>2. location[u] # 0 => location[u] \in 1 .. sp
    BY <1>5, <2>1
  <2>3. Deref(u)' = Deref(u)
    BY <1>3, <1>7, <2>2 DEF Deref
  <2>4. QED BY <2>1, <2>3
<1>10. Abstract!Set(x, v)
  BY <1>8, <1>9, SetIs
<1>11. QED BY <1>2, <1>3, <1>4, <1>10 DEF x

(* What the running function can name.                                       *)
LEMMA SlotVisible ==
    ASSUME CellInv, NEW slot \in 1 .. sp, slot >= Slots
    PROVE  names[slot] \in Abstract!Visible
<1>1. Len(names) = sp /\ sp \in Nat
  BY CellTypes
<1>2. CASE slot \in Slots .. Len(names)
  BY <1>2 DEF Abstract!Visible, Abstract!Base, Slots, frame
<1>3. slot \in Slots .. Len(names)
  BY <1>1
<1>4. QED BY <1>2, <1>3

LEMMA RunningFacts ==
    ASSUME CellInv, frames # <<>>
    PROVE  /\ frame.closure \in Closures
           /\ Slots \in 1 .. STACK_MAX /\ Slots <= sp
           /\ upvalues[frame.closure] \in Seq(created)
<1>1. TypeOK /\ FramesNest
  BY CellTypes
<1>2. Len(frames) \in 1 .. Len(frames)
  BY <1>1 DEF TypeOK
<1>3. frames[Len(frames)] \in [closure : made, slots : 1 .. STACK_MAX]
  BY <1>1, <1>2, Element DEF TypeOK
<1>4. frame.closure \in Closures /\ Slots \in 1 .. STACK_MAX
  BY <1>1, <1>3 DEF frame, Slots, TypeOK
<1>5. QED BY <1>1, <1>4 DEF TypeOK, FramesNest

LEMMA UpvalueVisible ==
    ASSUME CellInv, frames # <<>>, NEW k \in DOMAIN upvalues[frame.closure]
    PROVE  Upvalue(k) \in created /\ of[Upvalue(k)] \in Abstract!Visible
<1>1. frame.closure \in Closures /\ upvalues[frame.closure] \in Seq(created)
  BY RunningFacts
<1>2. upvalues[frame.closure][k] \in created
  BY <1>1
<1>3. of[Upvalue(k)] = Caught[frame.closure][k] /\ k \in DOMAIN Caught[frame.closure]
  BY <1>1 DEF Caught, Upvalue
<1>4. of[Upvalue(k)] \in Range(Caught[frame.closure])
  BY <1>3 DEF Range
<1>5. QED
  BY <1>2, <1>4 DEF Abstract!Visible, Abstract!Running, Abstract!Range, Range, Caught, frame, Upvalue

(* A step that assigns to a slot is an assignment to its variable.            *)
LEMMA SlotSets ==
    ASSUME CellInv, CellInv', NEW slot \in 1 .. sp, NEW v, stack' = [stack EXCEPT ![slot] = v],
           UNCHANGED <<sp, names, location, closed, of, created>>
    PROVE  Abstract!Set(names[slot], v)
<1>1. /\ names \in Seq(Variables) /\ Len(names) = sp /\ sp \in Nat /\ STACK_MAX \in Nat
      /\ sp <= STACK_MAX /\ \A u \in created : location[u] \in Nat /\ location[u] <= sp
      /\ stack \in [1 .. STACK_MAX -> Values]
  BY CellTypes DEF TypeOK
<1>2. StoreIs
  BY StoreFacts
<1>3. \A i \in 1 .. sp : stack'[i] = IF i = slot THEN v ELSE stack[i]
  BY <1>1
<1>4. \A i \in 1 .. sp : names[i] = names[slot] => i = slot
  BY <1>1 DEF CellInv, Named
<1>5. ASSUME NEW i \in 1 .. sp'
      PROVE  stack'[i] = IF names'[i] = names[slot] THEN v ELSE Store[names'[i]]
  BY <1>2, <1>3, <1>4 DEF StoreIs
<1>6. ASSUME NEW u \in created'
      PROVE  Deref(u)' = IF of'[u] = names[slot] THEN v ELSE Store[of'[u]]
  <2>1. u \in created /\ Store[of[u]] = Deref(u) /\ of'[u] = of[u]
    BY <1>2 DEF StoreIs
  <2>2. CASE location[u] = 0
    <3>1. of[u] \notin Range(names)
      BY <2>1, <2>2 DEF CellInv, Named
    <3>2. slot \in DOMAIN names
      BY <1>1
    <3>3. of[u] # names[slot]
      BY <3>1, <3>2 DEF Range
    <3>4. Deref(u)' = Deref(u)
      BY <2>2 DEF Deref
    <3>5. QED BY <2>1, <3>3, <3>4
  <2>3. CASE location[u] # 0
    <3>1. location[u] \in 1 .. sp /\ of[u] = names[location[u]]
      BY <1>1, <2>1, <2>3 DEF CellInv, Named
    <3>2. of[u] = names[slot] <=> location[u] = slot
      BY <1>4, <3>1
    <3>3. Deref(u)' = stack'[location[u]] /\ Deref(u) = stack[location[u]]
      BY <2>3 DEF Deref
    <3>4. QED BY <1>3, <2>1, <3>1, <3>2, <3>3
  <2>4. QED BY <2>2, <2>3
<1>7. QED BY <1>5, <1>6, SetIs

(* And one that assigns to a closed upvalue is one to the variable it keeps.    *)
LEMMA ClosedSets ==
    ASSUME CellInv, CellInv', NEW w \in created, location[w] = 0, NEW v,
           closed' = [closed EXCEPT ![w] = v],
           UNCHANGED <<stack, sp, names, location, of, created>>
    PROVE  Abstract!Set(of[w], v)
<1>1. /\ names \in Seq(Variables) /\ DOMAIN names = 1 .. sp
      /\ created \subseteq Upvalues /\ closed \in [Upvalues -> Values]
  BY CellTypes DEF TypeOK
<1>2. StoreIs
  BY StoreFacts
<1>3. of[w] \notin Range(names)
  BY DEF CellInv, Named
<1>4. ASSUME NEW i \in 1 .. sp'
      PROVE  stack'[i] = IF names'[i] = of[w] THEN v ELSE Store[names'[i]]
  <2>1. names[i] # of[w] /\ i \in 1 .. sp
    BY <1>1, <1>3 DEF Range
  <2>2. QED BY <1>2, <2>1 DEF StoreIs
<1>5. ASSUME NEW u \in created' PROVE Deref(u)' = IF of'[u] = of[w] THEN v ELSE Store[of'[u]]
  <2>1. u \in created /\ Store[of[u]] = Deref(u) /\ of'[u] = of[u]
    BY <1>2 DEF StoreIs
  <2>2. of[u] = of[w] <=> u = w
    BY <2>1 DEF CellInv, Named
  <2>3. closed'[u] = IF u = w THEN v ELSE closed[u]
    BY <1>1, <2>1
  <2>4. Deref(u)' = IF u = w THEN v ELSE Deref(u)
    BY <2>3 DEF Deref
  <2>5. QED BY <2>1, <2>2, <2>4
<1>6. QED BY <1>4, <1>5, SetIs

(* Slots that go take nothing with them that can still be named.              *)
LEMMA DropsOnly ==
    ASSUME CellInv, CellInv', NEW m \in 0 .. sp, sp' = m, names' = SubSeq(names, 1, m),
           UNCHANGED <<stack, of, created>>, \A u \in created : Deref(u)' = Deref(u)
    PROVE  Abstract!Unchanged
<1>1. names \in Seq(Variables) /\ m \in 0 .. Len(names) /\ sp \in Nat
  BY CellTypes
<1>2. \A i \in 1 .. m : names'[i] = names[i] /\ i \in 1 .. sp
  BY <1>1, Prefix
<1>3. StoreIs
  BY StoreFacts
<1>4. ASSUME NEW i \in 1 .. sp' PROVE stack'[i] = Store[names'[i]]
  BY <1>2, <1>3 DEF StoreIs
<1>5. ASSUME NEW u \in created' PROVE Deref(u)' = Store[of'[u]]
  BY <1>3 DEF StoreIs
<1>6. QED BY <1>4, <1>5, UnchangedIs

(* close_upvalues moves every variable it closes with its value.              *)
LEMMA CloseDerefs ==
    ASSUME CellInv, NEW last \in 1 .. STACK_MAX, CloseUpvalues(last),
           \A i \in 1 .. last - 1 : stack'[i] = stack[i]
    PROVE  \A u \in created : Deref(u)' = Deref(u)
<1>1. \A u \in created :
         IF location[u] >= last
         THEN location'[u] = 0 /\ closed'[u] = stack[location[u]]
         ELSE location'[u] = location[u] /\ closed'[u] = closed[u]
  BY CellTypes, CloseLeaves
<1>2. last \in Nat /\ last >= 1 /\ \A u \in created : location[u] \in Nat
  BY CellTypes
<1>3. ASSUME NEW u \in created PROVE Deref(u)' = Deref(u)
  <2>1. CASE location[u] >= last
    <3>1. location[u] # 0
      BY <1>2, <2>1
    <3>2. QED BY <1>1, <2>1, <3>1 DEF Deref
  <2>2. CASE ~ (location[u] >= last)
    <3>1. location'[u] = location[u] /\ closed'[u] = closed[u]
      BY <1>1, <2>2
    <3>2. location[u] # 0 => location[u] \in 1 .. last - 1
      BY <1>2, <2>2
    <3>3. QED BY <3>1, <3>2 DEF Deref
  <2>3. QED BY <2>1, <2>2
<1>4. QED BY <1>3

(* What is attached to a closure is captured by it.                           *)
LEMMA AttachIs ==
    ASSUME CellInv, NEW u, Attach(u), \A w \in created : of'[w] = of[w]
    PROVE  Caught' = [Caught EXCEPT ![building] = Append(@, of'[u])]
<1> DEFINE old == upvalues[building]
           new == Append(old, u)
           n == Len(old)
           was == [k \in DOMAIN old |-> of[old[k]]]
           now == [k \in DOMAIN new |-> of'[new[k]]]
<1>1. /\ building \in Closures
      /\ upvalues \in [Closures -> Seq(created)]
      /\ upvalues' = [upvalues EXCEPT ![building] = Append(@, u)]
  BY CellTypes DEF TypeOK, Attach
<1>2. old \in Seq(created) /\ upvalues'[building] = new
  BY <1>1
<1>3. n \in Nat /\ DOMAIN old = 1 .. n /\ \A k \in 1 .. n : old[k] \in created
  BY <1>2
<1>4. /\ DOMAIN new = 1 .. n + 1 /\ new[n + 1] = u /\ \A k \in 1 .. n : new[k] = old[k]
  <2>1. old \in Seq(created \cup {u})
    BY <1>2, SeqGrows
  <2> HIDE DEF old
  <2>2. new \in Seq(created \cup {u}) /\ Len(new) = n + 1
    BY <2>1
  <2>3. QED BY <2>1, <2>2
<1> DEFINE OF == {of'[new[k]] : k \in 1 .. n + 1}
<1>5. was \in Seq(OF) /\ Len(was) = n /\ \A k \in 1 .. n : was[k] = of'[new[k]]
  <2>1. \A k \in 1 .. n : of[old[k]] = of'[new[k]] /\ k \in 1 .. n + 1
    BY <1>3, <1>4
  <2> HIDE DEF old, new
  <2>2. QED BY <1>3, <2>1
<1>6. now = Append(was, of'[u])
  <2>1. of'[u] \in OF
    BY <1>3, <1>4
  <2>2. now = [k \in 1 .. n + 1 |-> of'[new[k]]] /\ of'[new[n + 1]] = of'[u]
    BY <1>4
  <2> HIDE DEF old, new, was, now, n, OF
  <2>3. Append(was, of'[u]) \in Seq(OF) /\ Len(Append(was, of'[u])) = n + 1
    BY <1>3, <1>5, <2>1
  <2>4. DOMAIN Append(was, of'[u]) = 1 .. n + 1
    BY <2>3
  <2>5. Append(was, of'[u]) = [k \in 1 .. n + 1 |-> Append(was, of'[u])[k]]
    BY <2>3, <2>4
  <2>6. ASSUME NEW k \in 1 .. n + 1 PROVE Append(was, of'[u])[k] = of'[new[k]]
    <3>1. CASE k = n + 1
      BY <1>3, <1>5, <2>2, <3>1
    <3>2. CASE k \in 1 .. n
      <4>1. was \in Seq(OF) /\ k \in 1 .. Len(was) /\ was[k] = of'[new[k]]
        BY <1>5, <3>2
      <4>2. QED BY <2>1, <4>1
    <3>3. k = n + 1 \/ k \in 1 .. n
      <4>1. n \in Nat
        BY <1>3
      <4>2. QED BY <4>1
    <3>4. QED BY <3>1, <3>2, <3>3, Zenon
  <2>7. QED BY <2>2, <2>5, <2>6
<1>7. Caught[building] = was /\ Caught'[building] = now
  BY <1>1, <1>2 DEF Caught
<1>8. ASSUME NEW c \in Closures, c # building PROVE Caught'[c] = Caught[c]
  <2>1. upvalues'[c] = upvalues[c] /\ \A k \in DOMAIN upvalues[c] : upvalues[c][k] \in created
    BY <1>1, <1>8
  <2>2. [k \in DOMAIN upvalues[c] |-> of'[upvalues[c][k]]] = [k \in DOMAIN upvalues[c] |-> of[upvalues[c][k]]]
    BY <2>1
  <2>3. QED BY <2>1, <2>2 DEF Caught
<1> HIDE DEF was, now
<1>9. Caught' = [c \in Closures |-> IF c = building THEN Append(Caught[c], of'[u]) ELSE Caught[c]]
  <2>1. Caught' = [c \in Closures |-> Caught'[c]]
    BY DEF Caught
  <2>2. QED BY <1>6, <1>7, <1>8, <2>1
<1>10. DOMAIN Caught = Closures
  BY DEF Caught
<1>11. QED BY <1>1, <1>9, <1>10

(* What names a variable is not changed by a step on the closures alone.      *)
LEMMA ClosureLeaves ==
    ASSUME CellInv, CellInv', UNCHANGED <<stack, sp, names>>,
           \A u \in created : Deref(u)' = Deref(u) /\ of'[u] = of[u],
           \A u \in created' \ created :
              \E slot \in 1 .. sp : of'[u] = names[slot] /\ Deref(u)' = stack[slot]
    PROVE  Abstract!Unchanged
<1>1. StoreIs
  BY StoreFacts
<1>2. ASSUME NEW i \in 1 .. sp' PROVE stack'[i] = Store[names'[i]]
  BY <1>1 DEF StoreIs
<1>3. ASSUME NEW u \in created' PROVE Deref(u)' = Store[of'[u]]
  <2>1. CASE u \in created
    BY <1>1, <2>1 DEF StoreIs
  <2>2. CASE u \notin created
    <3>1. PICK slot \in 1 .. sp : of'[u] = names[slot] /\ Deref(u)' = stack[slot]
      BY <2>2
    <3>2. QED BY <1>1, <3>1 DEF StoreIs
  <2>3. QED BY <2>1, <2>2
<1>4. QED BY <1>2, <1>3, UnchangedIs

LEMMA StackStepMaps == ASSUME CellInv, CellInv', StackStep PROVE Abstract!Next
<1> DEFINE x == Fresh(names)
<1>1. frames # <<>>
  BY DEF StackStep, OpConstant, OpGetLocal, OpSetLocal, OpPop, OpGetUpvalue, OpSetUpvalue, Ready
<1>2. /\ Len(names) = sp /\ sp \in Nat /\ Slots \in Nat /\ Slots >= 1 /\ Slots <= sp
      /\ names \in Seq(Variables) /\ STACK_MAX \in Nat
  BY <1>1, RunningFacts, CellTypes
<1>3. StoreIs
  BY StoreFacts
<1>4. ASSUME Abstract!Step PROVE Abstract!Next
  BY <1>1, <1>4 DEF Abstract!Next
<1>5. ASSUME NEW v, Push(v), UNCHANGED <<frames, heap>>
      PROVE  x \in Variables \ Abstract!Live /\ Abstract!Declare(x, v)
  <2>1. /\ x \in Variables \ Abstract!Live
        /\ names' = Append(names, x) /\ Caught' = Caught /\ Abstract!Set(x, v)
    BY <1>5, PushSets DEF heap
  <2>2. UNCHANGED <<frames, building>>
    BY <1>5 DEF heap
  <2> HIDE DEF x
  <2>3. QED BY <2>1, <2>2 DEF Abstract!Declare, Caught
<1>6. Slots <= sp => Store[names[Len(names)]] = stack[sp]
  BY <1>2, <1>3 DEF StoreIs
<1>7. ASSUME NEW v \in Values, OpConstant(v) PROVE Abstract!Step
  <2>1. x \in Variables \ Abstract!Live /\ Abstract!Declare(x, v)
    BY <1>5, <1>7 DEF OpConstant
  <2> HIDE DEF x
  <2>2. QED BY <2>1 DEF Abstract!Step
<1>8. ASSUME NEW y \in Abstract!Visible, Push(Store[y]), UNCHANGED <<frames, heap>>
      PROVE  Abstract!Step
  <2>1. x \in Variables \ Abstract!Live /\ Abstract!Declare(x, Store[y])
    BY <1>5, <1>8
  <2> HIDE DEF x
  <2>2. Abstract!Read(x, y)
    BY <1>8, <2>1 DEF Abstract!Read
  <2>3. QED BY <2>1, <2>2 DEF Abstract!Step
<1>9. ASSUME NEW slot \in 1 .. sp, OpGetLocal(slot) PROVE Abstract!Step
  <2>1. slot >= Slots /\ Push(stack[slot]) /\ UNCHANGED <<frames, heap>>
    BY <1>2, <1>9 DEF OpGetLocal
  <2>2. names[slot] \in Abstract!Visible /\ Store[names[slot]] = stack[slot]
    BY <1>3, <2>1, SlotVisible DEF StoreIs
  <2>3. QED BY <1>8, <2>1, <2>2
<1>10. ASSUME NEW k \in 1 .. MaxCaptures, OpGetUpvalue(k) PROVE Abstract!Step
  <2>1. k \in DOMAIN upvalues[frame.closure] /\ Push(Deref(Upvalue(k))) /\ UNCHANGED <<frames, heap>>
    BY <1>10 DEF OpGetUpvalue
  <2>2. Upvalue(k) \in created /\ of[Upvalue(k)] \in Abstract!Visible
    BY <1>1, <2>1, UpvalueVisible
  <2>3. Store[of[Upvalue(k)]] = Deref(Upvalue(k))
    BY <1>3, <2>2 DEF StoreIs
  <2>4. QED BY <1>8, <2>1, <2>2, <2>3
<1>11. ASSUME NEW y \in Abstract!Visible, Abstract!Set(y, stack[sp]),
              UNCHANGED <<names, frames, upvalues, of, building>>
       PROVE  Abstract!Step
  <2>1. Caught' = Caught
    BY <1>11 DEF Caught
  <2>2. Abstract!Set(y, Store[names[Len(names)]])
    BY <1>2, <1>6, <1>11
  <2>3. Abstract!Write(y)
    BY <1>11, <2>1, <2>2 DEF Abstract!Write, Caught
  <2>4. QED BY <2>3 DEF Abstract!Step
<1>12. ASSUME NEW slot \in 1 .. sp, OpSetLocal(slot) PROVE Abstract!Step
  <2>1. /\ slot \in Slots + 1 .. sp - 1 /\ stack' = [stack EXCEPT ![slot] = stack[sp]]
        /\ UNCHANGED <<sp, frames, names, heap>>
    BY <1>12 DEF OpSetLocal
  <2>2. slot >= Slots
    BY <1>2, <2>1
  <2>3. Abstract!Set(names[slot], stack[sp]) /\ names[slot] \in Abstract!Visible
    BY <2>1, <2>2, SlotSets, SlotVisible DEF heap
  <2>4. QED BY <1>11, <2>1, <2>3 DEF heap
<1>13. ASSUME NEW k \in 1 .. MaxCaptures, OpSetUpvalue(k) PROVE Abstract!Step
  <2> DEFINE u == Upvalue(k)
  <2>1. /\ k \in DOMAIN upvalues[frame.closure]
        /\ IF location[u] = 0
           THEN closed' = [closed EXCEPT ![u] = stack[sp]] /\ UNCHANGED stack
           ELSE stack' = [stack EXCEPT ![location[u]] = stack[sp]] /\ UNCHANGED closed
        /\ UNCHANGED <<sp, frames, names, location, upvalues, created, building, of>>
    BY <1>13 DEF OpSetUpvalue
  <2>2. u \in created /\ of[u] \in Abstract!Visible
    BY <1>1, <2>1, UpvalueVisible
  <2> HIDE DEF u
  <2>3. CASE location[u] = 0
    <3>1. Abstract!Set(of[u], stack[sp])
      BY <2>1, <2>2, <2>3, ClosedSets
    <3>2. QED BY <1>11, <2>1, <2>2, <3>1
  <2>4. CASE location[u] # 0
    <3>1. location[u] \in 1 .. sp /\ of[u] = names[location[u]]
      BY <1>2, <2>2, <2>4 DEF CellInv, Named
    <3>2. Abstract!Set(names[location[u]], stack[sp])
      BY <2>1, <2>4, <3>1, SlotSets
    <3>3. QED BY <1>11, <2>1, <2>2, <3>1, <3>2
  <2>5. QED BY <2>3, <2>4
<1>14. ASSUME OpPop PROVE Abstract!Step
  <2>1. /\ sp > Slots /\ sp' = sp - 1 /\ names' = SubSeq(names, 1, sp - 1)
        /\ UNCHANGED <<stack, frames, heap>>
    BY <1>14 DEF OpPop
  <2>2. sp - 1 \in 0 .. sp
    BY <1>2, <2>1
  <2>3. \A u \in created : Deref(u)' = Deref(u)
    BY <2>1 DEF Deref, heap
  <2>4. Abstract!Unchanged
    BY <2>1, <2>2, <2>3, DropsOnly DEF heap
  <2>5. Caught' = Caught
    BY <2>1 DEF Caught, heap
  <2>6. Abstract!Drop
    BY <1>2, <2>1, <2>4, <2>5 DEF Abstract!Drop, Caught, heap
  <2>7. QED BY <2>6 DEF Abstract!Step
<1>15. Abstract!Step
  BY <1>7, <1>9, <1>10, <1>12, <1>13, <1>14 DEF StackStep
<1>16. QED BY <1>4, <1>15

LEMMA ClosureStepMaps == ASSUME CellInv, CellInv', ClosureStep PROVE Abstract!Next
<1> DEFINE x == Fresh(names)
<1>1. building # Main => frames # <<>>
  BY DEF CellInv, ListInv, BuildingInFrame
<1>2. frames # <<>>
  BY <1>1 DEF ClosureStep, OpClosure, Ready, CaptureOpen, CaptureNew, CaptureOuter, ClosureMade
<1>3. /\ Len(names) = sp /\ sp \in Nat /\ Slots \in Nat /\ Slots >= 1 /\ Slots <= sp
      /\ TypeOK /\ OpenSorted /\ OpenAreLive /\ STACK_MAX \in Nat
  BY <1>2, RunningFacts, CellTypes
<1>4. ASSUME Abstract!Step PROVE Abstract!Next
  BY <1>2, <1>4 DEF Abstract!Next
<1>5. ASSUME NEW c \in Closures, NEW v \in Values, OpClosure(c, v) PROVE Abstract!Step
  <2>1. /\ Push(v) /\ building' = c /\ c \notin made
        /\ UNCHANGED <<frames, open, location, closed, upvalues, created, of>>
    BY <1>5 DEF OpClosure
  <2>2. /\ x \in Variables \ Abstract!Live
        /\ names' = Append(names, x) /\ Caught' = Caught /\ Abstract!Set(x, v)
    BY <2>1, PushSets
  <2>3. c \in Closures \ {Main}
    BY <1>3, <2>1 DEF TypeOK
  <2> HIDE DEF x
  <2>4. Abstract!Make(c, x, v)
    BY <2>1, <2>2 DEF Abstract!Make, Caught
  <2>5. QED BY <2>2, <2>3, <2>4 DEF Abstract!Step
<1>6. ASSUME NEW y \in Abstract!Visible, NEW u, Attach(u), building # Main, of'[u] = y,
             \A w \in created : of'[w] = of[w], Abstract!Unchanged
      PROVE  Abstract!Step
  <2>1. Caught' = [Caught EXCEPT ![building] = Append(@, y)]
    BY <1>6, AttachIs
  <2>2. UNCHANGED <<names, frames, building>>
    BY <1>6 DEF Attach, machine
  <2>3. Abstract!Capture(y)
    BY <1>6, <2>1, <2>2 DEF Abstract!Capture, Caught
  <2>4. QED BY <2>3 DEF Abstract!Step
<1>7. ASSUME NEW u, Attach(u), UNCHANGED <<open, location, created, of>>
      PROVE  Abstract!Unchanged
  <2>1. UNCHANGED <<stack, sp, names, closed>>
    BY <1>7 DEF Attach, machine
  <2>2. \A w \in created : Deref(w)' = Deref(w) /\ of'[w] = of[w]
    BY <1>7, <2>1 DEF Deref
  <2>3. QED BY <1>7, <2>1, <2>2, ClosureLeaves
<1>8. ASSUME NEW slot \in 1 .. sp, CaptureOpen(slot) PROVE Abstract!Step
  <2> DEFINE n == Above(slot)
             u == open[n + 1]
  <2>1. /\ building # Main /\ slot \in Slots .. sp /\ n < Len(open) /\ location[u] = slot
        /\ Attach(u) /\ UNCHANGED <<open, location, created, of>>
    BY <1>8 DEF CaptureOpen
  <2>2. n \in 0 .. Len(open)
    <3>1. TypeOK /\ slot \in Nat
      BY <1>3
    <3>2. QED BY <3>1, AboveStops
  <2>3. n + 1 \in 1 .. Len(open)
    BY <1>3, <2>1, <2>2
  <2>4. u \in created
    BY <1>3, <2>3, Element DEF TypeOK
  <2> HIDE DEF n, u
  <2>5. slot # 0 /\ of[u] = names[slot]
    BY <2>1, <2>4 DEF CellInv, Named
  <2>6. names[slot] \in Abstract!Visible
    BY <1>3, <2>1, SlotVisible
  <2>7. QED BY <1>6, <1>7, <2>1, <2>5, <2>6
<1>9. ASSUME NEW slot \in 1 .. sp, NEW u \in Upvalues, CaptureNew(slot, u) PROVE Abstract!Step
  <2>1. /\ building # Main /\ slot \in Slots .. sp /\ u \notin created
        /\ created' = created \cup {u}
        /\ location' = [location EXCEPT ![u] = slot]
        /\ of' = [of EXCEPT ![u] = names[slot]]
        /\ Attach(u) /\ UNCHANGED <<stack, sp, names, closed>>
    BY <1>9 DEF CaptureNew, Attach, machine
  <2>2. /\ location'[u] = slot /\ of'[u] = names[slot]
        /\ \A w \in created : location'[w] = location[w] /\ of'[w] = of[w]
    BY <1>3, <2>1 DEF TypeOK
  <2>3. \A w \in created : Deref(w)' = Deref(w) /\ of'[w] = of[w]
    BY <2>1, <2>2 DEF Deref
  <2>4. Deref(u)' = stack[slot]
    BY <2>1, <2>2 DEF Deref
  <2>5. Abstract!Unchanged
    BY <2>1, <2>2, <2>3, <2>4, ClosureLeaves
  <2>6. names[slot] \in Abstract!Visible
    BY <1>3, <2>1, SlotVisible
  <2>7. QED BY <1>6, <2>1, <2>2, <2>5, <2>6
<1>10. ASSUME NEW k \in 1 .. MaxCaptures, CaptureOuter(k) PROVE Abstract!Step
  <2>1. /\ building # Main /\ k \in DOMAIN upvalues[frame.closure] /\ Attach(Upvalue(k))
        /\ UNCHANGED <<open, location, created, of>>
    BY <1>10 DEF CaptureOuter
  <2>2. of[Upvalue(k)] \in Abstract!Visible
    BY <1>2, <2>1, UpvalueVisible
  <2>3. of'[Upvalue(k)] = of[Upvalue(k)]
    BY <2>1
  <2>4. QED BY <1>6, <1>7, <2>1, <2>2, <2>3
<1>11. ASSUME ClosureMade PROVE Abstract!Step
  <2>1. building' = Main /\ UNCHANGED <<machine, open, location, closed, upvalues, created, made, of>>
    BY <1>11 DEF ClosureMade
  <2>2. Store' = Store /\ Caught' = Caught /\ UNCHANGED <<names, frames>>
    BY <2>1 DEF Store, Live, Captured, Caught, machine, Range
  <2>3. Abstract!Made
    BY <2>1, <2>2 DEF Abstract!Made, Caught
  <2>4. QED BY <2>3 DEF Abstract!Step
<1>12. Abstract!Step
  BY <1>5, <1>8, <1>9, <1>10, <1>11 DEF ClosureStep
<1>13. QED BY <1>4, <1>12

LEMMA CallStepMaps == ASSUME CellInv, CellInv', CallStep PROVE Abstract!Next
<1>1. /\ TypeOK /\ Len(names) = sp /\ sp \in Nat /\ STACK_MAX \in Nat /\ sp <= STACK_MAX
      /\ names \in Seq(Variables) /\ \A u \in created : location[u] \in Nat
  BY CellTypes
<1>2. StoreIs
  BY StoreFacts
<1>3. ASSUME Ready
      PROVE  frames # <<>> /\ Slots \in 1 .. STACK_MAX /\ Slots <= sp
  BY <1>3, RunningFacts DEF Ready
<1>4. ASSUME Ready, Abstract!Step PROVE Abstract!Next
  BY <1>3, <1>4 DEF Abstract!Next
<1>5. ASSUME OpCloseUpvalue PROVE Abstract!Next
  <2>1. /\ Ready /\ sp > Slots /\ CloseUpvalues(sp) /\ sp' = sp - 1
        /\ names' = SubSeq(names, 1, sp - 1)
        /\ UNCHANGED <<stack, frames, upvalues, created, building, of>>
    BY <1>5 DEF OpCloseUpvalue
  <2>2. sp \in 1 .. STACK_MAX /\ sp - 1 \in 0 .. sp
    BY <1>1, <1>3, <2>1
  <2>3. \A u \in created : Deref(u)' = Deref(u)
    BY <2>1, <2>2, CloseDerefs
  <2>4. Abstract!Unchanged
    BY <2>1, <2>2, <2>3, DropsOnly
  <2>5. Caught' = Caught
    BY <2>1 DEF Caught
  <2>6. Abstract!Drop
    BY <1>1, <2>1, <2>4, <2>5 DEF Abstract!Drop, Caught
  <2>7. Abstract!Step
    BY <2>6 DEF Abstract!Step
  <2>8. QED BY <1>4, <2>1, <2>7
<1>6. ASSUME NEW c \in made, NEW n \in 0 .. MaxArgs, Call(c, n) PROVE Abstract!Next
  <2> DEFINE m == sp - n
  <2>1. /\ Ready /\ m > Slots /\ frames' = Append(frames, [closure |-> c, slots |-> m])
        /\ UNCHANGED <<stack, sp, names, heap>>
    BY <1>6 DEF Call
  <2>2. m \in 1 .. Len(names) /\ c \in Closures
    BY <1>1, <1>3, <1>6, <2>1 DEF TypeOK
  <2> HIDE DEF m
  <2>3. Store' = Store /\ Caught' = Caught /\ UNCHANGED <<names, building>>
    BY <2>1 DEF Store, Live, Captured, Caught, heap, Range
  <2>4. Abstract!Enter(c, m)
    BY <2>1, <2>3 DEF Abstract!Enter, Caught
  <2>5. Abstract!Step
    BY <2>2, <2>4 DEF Abstract!Step
  <2>6. QED BY <1>4, <2>1, <2>5
<1>7. ASSUME OpReturn PROVE Abstract!Next
  <2> DEFINE below == SubSeq(names, 1, Slots - 1)
             x == Fresh(below)
  <2>1. /\ Ready /\ Len(frames) > 1 /\ sp > Slots /\ Unused(below) # {}
        /\ CloseUpvalues(Slots)
        /\ frames' = SubSeq(frames, 1, Len(frames) - 1)
        /\ sp' = Slots /\ stack' = [stack EXCEPT ![Slots] = stack[sp]]
        /\ names' = Append(below, x)
        /\ UNCHANGED <<upvalues, created, building, of>>
    BY <1>7 DEF OpReturn
  <2>2. /\ Slots \in 1 .. STACK_MAX /\ Slots \in Nat /\ Slots <= sp /\ sp \in 1 .. sp
        /\ Slots - 1 \in 0 .. Len(names) /\ stack \in [1 .. STACK_MAX -> Values]
    <3>1. Ready /\ sp > Slots
      BY <2>1
    <3>2. Slots \in 1 .. STACK_MAX /\ Slots <= sp
      BY <1>3, <3>1
    <3>3. Slots \in Nat /\ sp \in 1 .. sp /\ Slots - 1 \in 0 .. Len(names)
      BY <1>1, <3>2
    <3>4. QED BY <1>1, <3>2, <3>3 DEF TypeOK
  <2>3. x \in Variables /\ x \notin Range(below) /\ x \notin Captured
    BY <2>1, FreshIsUnused DEF Unused
  <2>4. below \in Seq(Variables) /\ Len(below) = Slots - 1 /\ \A i \in 1 .. Slots - 1 : below[i] = names[i]
    BY <1>1, <2>2, Prefix
  <2>5. Abstract!Base = Slots /\ below = SubSeq(names, 1, Abstract!Base - 1)
    BY DEF Abstract!Base, Slots, frame
  <2> HIDE DEF below, x
  <2>6. /\ \A i \in 1 .. Slots - 1 : names'[i] = names[i] /\ i \in 1 .. sp /\ names[i] # x
        /\ names'[Slots] = x
    <3>1. DOMAIN below = 1 .. Slots - 1
      BY <2>2, <2>4
    <3>2. \A i \in 1 .. Slots - 1 : below[i] # x
      BY <2>3, <3>1 DEF Range
    <3>3. \A i \in 1 .. Slots - 1 : i \in 1 .. sp
      BY <1>1, <2>2
    <3>4. \A i \in 1 .. Slots - 1 : names'[i] = below[i]
      BY <2>1, <2>2, <2>3, <2>4
    <3>5. names'[Slots] = x
      BY <2>1, <2>2, <2>3, <2>4
    <3>6. QED BY <2>4, <3>2, <3>3, <3>4, <3>5
  <2>7. stack'[Slots] = stack[sp] /\ \A i \in 1 .. Slots - 1 : stack'[i] = stack[i]
    BY <2>1, <2>2
  <2>8. \A u \in created : Deref(u)' = Deref(u)
    BY <2>1, <2>2, <2>7, CloseDerefs
  <2>9. ASSUME NEW i \in 1 .. sp'
        PROVE  stack'[i] = IF names'[i] = x THEN stack[sp] ELSE Store[names'[i]]
    <3>1. i = Slots \/ i \in 1 .. Slots - 1
      BY <2>1, <2>2
    <3>2. CASE i = Slots
      BY <2>6, <2>7, <3>2
    <3>3. CASE i \in 1 .. Slots - 1
      BY <1>2, <2>6, <2>7, <3>3 DEF StoreIs
    <3>4. QED BY <3>1, <3>2, <3>3
  <2>10. ASSUME NEW u \in created'
         PROVE  Deref(u)' = IF of'[u] = x THEN stack[sp] ELSE Store[of'[u]]
    <3>1. u \in created /\ of'[u] = of[u] /\ Store[of[u]] = Deref(u)
      BY <1>2, <2>1 DEF StoreIs
    <3>2. of[u] # x
      BY <2>3, <3>1, CellTypes
    <3>3. QED BY <2>8, <3>1, <3>2
  <2>11. Abstract!Set(x, stack[sp])
    BY <2>9, <2>10, SetIs
  <2>12. Abstract!Set(x, Store[names[Len(names)]])
    BY <1>1, <1>2, <2>2, <2>11 DEF StoreIs
  <2>13. x \notin Abstract!Range(SubSeq(names, 1, Abstract!Base - 1)) \cup Abstract!Kept
    BY <2>3, <2>5, LiveIs DEF Abstract!Range, Range
  <2>14. names' = Append(SubSeq(names, 1, Abstract!Base - 1), x) /\ Caught' = Caught
    BY <2>1, <2>5 DEF Caught
  <2>15. Len(frames) # 1
    <3>1. Len(frames) > 1
      BY <2>1
    <3> DEFINE l == Len(frames)
    <3>2. l \in Nat
      BY <1>1 DEF TypeOK
    <3>3. l > 1
      BY <3>1
    <3> HIDE DEF l
    <3>4. l # 1
      BY <3>2, <3>3
    <3>5. QED BY <3>4 DEF l
  <2>16. Abstract!Leave(x)
    BY <2>1, <2>12, <2>13, <2>14, <2>15 DEF Abstract!Leave, Caught
  <2>17. Abstract!Step
    BY <2>3, <2>16 DEF Abstract!Step
  <2>18. QED BY <1>4, <2>1, <2>17
<1>8. ASSUME ScriptReturn PROVE Abstract!Next
  <2>1. /\ Ready /\ sp = Slots + 1 /\ Len(frames) = 1 /\ CloseUpvalues(Slots) /\ frames' = <<>>
        /\ sp' = sp - 2 /\ names' = SubSeq(names, 1, sp - 2)
        /\ UNCHANGED <<stack, upvalues, created, building, of>>
    BY <1>8 DEF ScriptReturn
  <2>2. Slots = 1 /\ Slots \in 1 .. STACK_MAX
    BY <1>3, <2>1 DEF CellInv, FromBottom, Slots, frame
  <2>3. sp' = 0 /\ 0 \in 0 .. sp /\ names' = SubSeq(names, 1, 0) /\ SubSeq(names, 1, 0) = <<>>
    BY <1>1, <2>1, <2>2
  <2>4. \A u \in created : Deref(u)' = Deref(u)
    BY <2>1, <2>2, CloseDerefs
  <2>5. Abstract!Unchanged
    BY <2>1, <2>3, <2>4, DropsOnly
  <2>6. Caught' = Caught
    BY <2>1 DEF Caught
  <2>7. Abstract!Abandon
    BY <2>1, <2>3, <2>5, <2>6 DEF Abstract!Abandon, Caught
  <2>8. QED BY <2>7 DEF Abstract!Next
<1>9. ASSUME NEW v \in Values, Interpret(v) PROVE Abstract!Next
  <2> DEFINE x == Fresh(names)
  <2>1. /\ frames = <<>> /\ Push(v) /\ UNCHANGED heap
        /\ frames' = <<[closure |-> Main, slots |-> sp + 1]>>
    BY <1>9 DEF Interpret
  <2>2. /\ x \in Variables \ Abstract!Live
        /\ names' = Append(names, x) /\ Caught' = Caught /\ Abstract!Set(x, v)
    BY <2>1, PushSets DEF heap
  <2> HIDE DEF x
  <2>3. Len(names') = sp + 1
    BY <1>1, <2>2
  <2>4. Abstract!Start(x, v)
    BY <2>1, <2>2, <2>3 DEF Abstract!Start, Caught, heap
  <2>5. QED BY <2>2, <2>4 DEF Abstract!Next
<1>10. ASSUME Fail PROVE Abstract!Next
  <2>1. /\ sp' = 0 /\ frames' = <<>> /\ names' = <<>>
        /\ UNCHANGED <<stack, location, closed, upvalues, created, building, of>>
    BY <1>10 DEF Fail
  <2>2. 0 \in 0 .. sp /\ SubSeq(names, 1, 0) = <<>>
    BY <1>1
  <2>3. \A u \in created : Deref(u)' = Deref(u)
    BY <2>1 DEF Deref
  <2>4. Abstract!Unchanged
    BY <2>1, <2>2, <2>3, DropsOnly
  <2>5. Caught' = Caught
    BY <2>1 DEF Caught
  <2>6. Abstract!Abandon
    BY <2>1, <2>4, <2>5 DEF Abstract!Abandon, Caught
  <2>7. QED BY <2>6 DEF Abstract!Next
<1>11. QED BY <1>5, <1>6, <1>7, <1>8, <1>9, <1>10 DEF CallStep

LEMMA CellStep ==
    CellInv /\ CellInv' /\ [Next]_vars => [Abstract!Next]_<<Store, names, frames, Caught, building>>
<1>1. ASSUME UNCHANGED vars PROVE UNCHANGED <<Store, names, frames, Caught, building>>
  BY <1>1 DEF vars, machine, heap, Store, Live, Captured, Caught, Range
<1>2. QED BY <1>1, StackStepMaps, ClosureStepMaps, CallStepMaps DEF Next

(* Whatever functions have returned and however their stacks were reused, a    *)
(* read of a variable gives what was last written to it, through its slot or   *)
(* through any upvalue: the sharing of the list of open upvalues, and the copy *)
(* close_upvalues makes, are never seen by a program that pops no captured    *)
(* variable and fails at no time when one is captured.                       *)
THEOREM ImplementsItsCells ==
    ASSUME ~ PopsCaptured, ~ FailsOpen
    PROVE  Spec => ImplementsCells
<1>1. ASSUME Init PROVE Abstract!Init
  <2>1. names = <<>> /\ frames = <<>> /\ building = Main
    BY <1>1 DEF Init
  <2>2. \A c \in Closures : upvalues[c] = <<>>
    BY <1>1 DEF Init
  <2>3. Captured = {} /\ Range(names) = {}
    BY <2>1, <2>2 DEF Captured, Range
  <2>4. Store = <<>>
    BY <2>3 DEF Store, Live
  <2>5. Caught = [c \in Closures |-> <<>>]
    BY <2>2 DEF Caught
  <2>6. QED BY <2>1, <2>4, <2>5 DEF Abstract!Init, Caught
<1>2. CellInv /\ CellInv' /\ [Next]_vars
        => [Abstract!Next]_<<Store, names, frames,
                             [c \in Closures |-> [k \in DOMAIN upvalues[c] |-> of[upvalues[c][k]]]],
                             building>>
  BY CellStep DEF Caught
<1>3. QED
  BY <1>1, <1>2, CellInvariant, PTL DEF Spec, ImplementsCells, Abstract!Spec
=============================================================================
