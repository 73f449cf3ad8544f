---------------------------- MODULE TableProofs ----------------------------
(***************************************************************************)
(* Table for every value of its constants: how a probe moves, what          *)
(* find_entry returns, and the invariant that keeps each key findable.      *)
(***************************************************************************)
EXTENDS Table, FiniteSetTheorems, WellFoundedInduction, TLAPS

-----------------------------------------------------------------------------
(* Probes.                                                                 *)

(* A set of distances that is not empty has a least one, the place where a  *)
(* loop that tries them in turn stops.                                     *)
LEMMA LeastNat ==
    ASSUME NEW S \in SUBSET Nat, S # {}
    PROVE  \E m \in S : \A n \in S : m <= n
<1> DEFINE R == {ss \in Nat \X Nat : ss[1] < ss[2]}
<1>1. IsWellFoundedOn(R, Nat)
  BY NatLessThanWellFounded DEF OpToRel
<1>2. \E x \in S : \A y \in S : <<y, x>> \notin R
  <2> HIDE DEF R
  <2>1. QED BY <1>1, WFMin, Zenon
<1>3. PICK m \in S : \A n \in S : <<n, m>> \notin R
  BY <1>2
<1>4. ASSUME NEW n \in S PROVE m <= n
  <2>1. n \in Nat /\ m \in Nat
    OBVIOUS
  <2>2. n < m => <<n, m>> \in R
    BY <2>1
  <2>3. <<n, m>> \notin R
    BY <1>3
  <2>4. ~(n < m)
    <3> HIDE DEF R
    <3>1. QED BY <2>2, <2>3
  <2>5. QED BY <2>1, <2>4
<1>5. QED BY <1>4

(* The home of a key is a slot of the array.                               *)
LEMMA HomeInRange ==
    ASSUME NEW k \in Keys, NEW size \in Nat \ {0}
    PROVE  Home(k, size) \in 0..size-1
BY KeysAssumption DEF Home

(* A probe of fewer steps than there are slots stays inside the array ...   *)
LEMMA SlotInRange ==
    ASSUME NEW k \in Keys, NEW size \in Nat \ {0}, NEW d \in 0..size-1
    PROVE  Slot(k, d, size) \in 0..size-1
BY HomeInRange DEF Slot

(* ... looks at no slot twice ...                                          *)
LEMMA SlotInjective ==
    ASSUME NEW k \in Keys, NEW size \in Nat \ {0},
           NEW d \in 0..size-1, NEW e \in 0..size-1,
           Slot(k, d, size) = Slot(k, e, size)
    PROVE  d = e
BY HomeInRange DEF Slot

(* ... and misses none.                                                    *)
LEMMA SlotSurjective ==
    ASSUME NEW k \in Keys, NEW size \in Nat \ {0}, NEW i \in 0..size-1
    PROVE  \E d \in 0..size-1 : Slot(k, d, size) = i
<1> DEFINE h == Home(k, size)
<1>1. h \in 0..size-1
  BY HomeInRange
<1>2. CASE i >= h
  <2>1. i - h \in 0..size-1 /\ Slot(k, i - h, size) = i
    BY <1>1, <1>2 DEF Slot
  <2>2. QED BY <2>1
<1>3. CASE i < h
  <2>1. i - h + size \in 0..size-1 /\ Slot(k, i - h + size, size) = i
    BY <1>1, <1>3 DEF Slot
  <2>2. QED BY <2>1
<1>4. QED BY <1>1, <1>2, <1>3

(* A search one of whose slots would end it does end, at the nearest such.  *)
LEMMA SearchEnds ==
    ASSUME NEW k \in Keys, NEW size \in Nat \ {0}, NEW array,
           NEW i \in 0..size-1, Ends(array, k, i)
    PROVE  ~Diverges(array, size, k)
<1> DEFINE S == {d \in 0..size-1 : Ends(array, k, Slot(k, d, size))}
<1>1. S # {}
  <2>1. PICK d \in 0..size-1 : Slot(k, d, size) = i
    BY SlotSurjective
  <2>2. d \in S
    BY <2>1
  <2>3. QED BY <2>2
<1>2. S \in SUBSET Nat
  OBVIOUS
<1>3. PICK d \in S : \A e \in S : d <= e
  <2> HIDE DEF S
  <2>1. QED BY <1>1, <1>2, LeastNat
<1>4. d \in 0..size-1 /\ Ends(array, k, Slot(k, d, size))
  OBVIOUS
<1>5. ASSUME NEW e \in 0..d-1 PROVE ~Ends(array, k, Slot(k, e, size))
  <2>1. e \in 0..size-1 /\ ~(d <= e)
    BY <1>4
  <2>2. QED BY <2>1, <1>3
<1>6. QED BY <1>4, <1>5 DEF Diverges, StopsAt

-----------------------------------------------------------------------------
(* find_entry.                                                             *)

(* find_entry returns the slot d steps away; its search ended g steps away, *)
(* at the entry that holds the key or at the never-used slot after the      *)
(* tombstone it returns.                                                   *)
FoundAt(array, size, k, d, g) ==
    /\ d <= g
    /\ StopsAt(array, size, k, g)
    /\ FindEntry(array, size, k) = Slot(k, d, size)
    /\ \/ d = g /\ Equal(k, array[Slot(k, d, size)].key)
       \/ /\ array[Slot(k, g, size)] = NeverUsed
          /\ array[Slot(k, d, size)].key = Empty

LEMMA FindEntryFinds ==
    ASSUME NEW k \in Keys, NEW size \in Nat \ {0}, NEW array \in Array(size),
           ~Diverges(array, size, k)
    PROVE  \E d, g \in 0..size-1 : FoundAt(array, size, k, d, g)
<1> DEFINE g == CHOOSE x \in 0..size-1 : StopsAt(array, size, k, x)
<1>1. g \in 0..size-1 /\ StopsAt(array, size, k, g)
  BY DEF Diverges
<1> HIDE DEF g
<1>2. CASE array[Slot(k, g, size)] = NeverUsed
  <2> DEFINE S == {e \in 0..g : array[Slot(k, e, size)].key = Empty}
  <2>1. S \in SUBSET Nat /\ g \in S
    BY <1>1, <1>2 DEF NeverUsed
  <2>2. PICK m \in S : \A e \in S : m <= e
    <3> HIDE DEF S
    <3>1. QED BY <2>1, LeastNat
  <2>3. m \in 0..g /\ array[Slot(k, m, size)].key = Empty
    OBVIOUS
  <2>4. \A f \in 0..m-1 : array[Slot(k, f, size)].key # Empty
    <3>1. ASSUME NEW f \in 0..m-1, array[Slot(k, f, size)].key = Empty PROVE FALSE
      <4>1. f \in S /\ ~(m <= f)
        BY <1>1, <2>3, <3>1
      <4>2. QED BY <4>1, <2>2
    <3>2. QED BY <3>1
  <2> DEFINE d == FirstEmpty(array, size, k, g)
  <2>5. d \in 0..g /\ array[Slot(k, d, size)].key = Empty
    <3> HIDE DEF S
    <3>1. QED BY <2>3, <2>4 DEF FirstEmpty
  <2>6. FindEntry(array, size, k) = Slot(k, d, size)
    BY <1>2 DEF FindEntry, g
  <2> HIDE DEF d
  <2>7. d \in 0..size-1 /\ d <= g
    BY <1>1, <2>5
  <2>8. FoundAt(array, size, k, d, g)
    BY <1>1, <1>2, <2>5, <2>6, <2>7 DEF FoundAt
  <2>9. QED BY <1>1, <2>7, <2>8
<1>3. CASE array[Slot(k, g, size)] # NeverUsed
  <2>1. FindEntry(array, size, k) = Slot(k, g, size)
    BY <1>3 DEF FindEntry, g
  <2>2. Equal(k, array[Slot(k, g, size)].key)
    BY <1>1, <1>3 DEF StopsAt, Ends
  <2>3. FoundAt(array, size, k, g, g)
    BY <1>1, <2>1, <2>2 DEF FoundAt
  <2>4. QED BY <1>1, <2>3
<1>4. QED BY <1>2, <1>3

(* Nothing is lost on the way: every slot passed before the one returned    *)
(* has been used.                                                          *)
LEMMA FindEntryInRange ==
    ASSUME NEW k \in Keys, NEW size \in Nat \ {0}, NEW array \in Array(size),
           ~Diverges(array, size, k)
    PROVE  FindEntry(array, size, k) \in 0..size-1
BY FindEntryFinds, SlotInRange DEF FoundAt

(* A key that can be found is found: if its probe is unbroken, find_entry   *)
(* returns the slot it lies in, and not a tombstone before it.              *)
LEMMA FindEntryComplete ==
    ASSUME NEW k \in Keys \ Irreflexive, NEW size \in Nat \ {0},
           NEW array \in Array(size), ~Diverges(array, size, k),
           Reachable(array, size), Unique(array),
           NEW i \in Live(array), array[i].key = k
    PROVE  FindEntry(array, size, k) = i
<1>1. PICK c \in 0..size-1 :
        /\ Slot(k, c, size) = i
        /\ \A e \in 0..c-1 : array[Slot(k, e, size)] # NeverUsed
  BY DEF Reachable
<1>2. PICK d, g \in 0..size-1 : FoundAt(array, size, k, d, g)
  BY FindEntryFinds
<1>3. g <= c
  <2>1. Ends(array, k, Slot(k, c, size))
    BY <1>1 DEF Ends, Equal
  <2>2. \A e \in 0..g-1 : ~Ends(array, k, Slot(k, e, size))
    BY <1>2 DEF FoundAt, StopsAt
  <2>3. QED BY <2>1, <2>2
<1>4. array[Slot(k, g, size)] # NeverUsed
  <2>1. CASE g = c
    <3>1. array[i].key # Empty
      BY KeysAssumption
    <3>2. QED BY <1>1, <2>1, <3>1 DEF NeverUsed
  <2>2. CASE g < c
    BY <1>1, <2>2
  <2>3. QED BY <1>3, <2>1, <2>2
<1>5. d = g /\ Equal(k, array[Slot(k, d, size)].key)
  BY <1>2, <1>4 DEF FoundAt
<1>6. Slot(k, d, size) \in Live(array)
  BY <1>5, SlotInRange, KeysAssumption DEF Live, Array, Equal
<1>7. Slot(k, d, size) = i
  BY <1>5, <1>6 DEF Unique, Equal
<1>8. QED BY <1>2, <1>7 DEF FoundAt

-----------------------------------------------------------------------------
(* Writing through find_entry.                                             *)

WellProbed(array, size) == Unique(array) /\ Reachable(array, size)

(* The write of table_set and of adjust_capacity keeps every key findable,  *)
(* with one entry, and makes exactly the slot it writes live.              *)
LEMMA WriteKeepsProbes ==
    ASSUME NEW size \in Nat \ {0}, NEW array \in Array(size), WellProbed(array, size),
           NEW r \in [key : Keys, value : Values], ~Diverges(array, size, r.key)
    PROVE  LET i == FindEntry(array, size, r.key)
               new == [array EXCEPT ![i] = r]
           IN  /\ new \in Array(size)
               /\ WellProbed(new, size)
               /\ Live(new) = Live(array) \cup {i}
<1> DEFINE k == r.key
           i == FindEntry(array, size, k)
           new == [array EXCEPT ![i] = r]
<1>1. k \in Keys /\ k # Empty /\ r \in Entry /\ r # NeverUsed
  BY KeysAssumption DEF Entry, NeverUsed
<1>2. i \in 0..size-1
  BY <1>1, FindEntryInRange
<1>3. new \in Array(size)
  BY <1>1 DEF Array
<1>4. new[i] = r /\ \A j \in 0..size-1 : j # i => new[j] = array[j]
  BY <1>2 DEF Array
<1>5. Live(new) = Live(array) \cup {i}
  <2>1. DOMAIN new = 0..size-1 /\ DOMAIN array = 0..size-1
    BY DEF Array
  <2> HIDE DEF new, i
  <2>2. QED BY <1>1, <1>2, <1>4, <2>1 DEF Live
<1>6. \A j \in Live(array) : k \notin Irreflexive /\ array[j].key = k => j = i
  BY <1>1, FindEntryComplete DEF WellProbed
<1>7. Unique(new)
  <2> HIDE DEF new, i, k
  <2>1. SUFFICES ASSUME NEW a \in Live(new), NEW b \in Live(new),
                        Equal(new[a].key, new[b].key)
                 PROVE  a = b
    BY DEF Unique
  <2>2. a \in 0..size-1 /\ b \in 0..size-1
    BY <1>3 DEF Live, Array
  <2>3. r.key = k
    BY DEF k
  <2>4. CASE a = i /\ b # i
    BY <1>4, <1>5, <1>6, <2>1, <2>2, <2>3, <2>4 DEF Equal
  <2>5. CASE a # i /\ b = i
    BY <1>4, <1>5, <1>6, <2>1, <2>2, <2>3, <2>5 DEF Equal
  <2>6. CASE a # i /\ b # i
    BY <1>4, <1>5, <2>1, <2>2, <2>6 DEF Unique, WellProbed
  <2>7. QED BY <2>4, <2>5, <2>6
<1>8. \A j \in 0..size-1 : array[j] # NeverUsed => new[j] # NeverUsed
  BY <1>1, <1>4
<1>9. Reachable(new, size)
  <2> HIDE DEF new
  <2>1. SUFFICES ASSUME NEW a \in Live(new), new[a].key \notin Irreflexive
                 PROVE  \E d \in 0..size-1 :
                            /\ Slot(new[a].key, d, size) = a
                            /\ \A e \in 0..d-1 : new[Slot(new[a].key, e, size)] # NeverUsed
    BY DEF Reachable
  <2>2. CASE a = i
    <3>1. PICK d, g \in 0..size-1 : FoundAt(array, size, k, d, g)
      BY <1>1, FindEntryFinds
    <3>2. Slot(k, d, size) = a
      BY <2>2, <3>1 DEF FoundAt
    <3>3. ASSUME NEW e \in 0..d-1 PROVE new[Slot(k, e, size)] # NeverUsed
      <4>1. e \in 0..g-1 /\ e \in 0..size-1
        BY <3>1 DEF FoundAt
      <4>2. array[Slot(k, e, size)] # NeverUsed
        BY <3>1, <4>1 DEF FoundAt, StopsAt, Ends
      <4>3. QED BY <1>1, <1>8, <4>1, <4>2, SlotInRange
    <3>4. new[a].key = k
      BY <1>4, <2>2
    <3>5. QED BY <3>2, <3>3, <3>4
  <2>3. CASE a # i
    <3>1. a \in Live(array) /\ new[a] = array[a]
      BY <1>2, <1>4, <1>5, <2>3 DEF Live, Array
    <3>2. array[a].key \in Keys
      BY <3>1 DEF Live, Array, Entry
    <3>3. PICK d \in 0..size-1 :
            /\ Slot(array[a].key, d, size) = a
            /\ \A e \in 0..d-1 : array[Slot(array[a].key, e, size)] # NeverUsed
      BY <2>1, <3>1 DEF WellProbed, Reachable
    <3>4. \A e \in 0..d-1 : new[Slot(array[a].key, e, size)] # NeverUsed
      <4>1. ASSUME NEW e \in 0..d-1
            PROVE  new[Slot(array[a].key, e, size)] # NeverUsed
        <5>1. e \in 0..size-1
          OBVIOUS
        <5>2. QED BY <1>8, <3>2, <3>3, <5>1, SlotInRange
      <4>2. QED BY <4>1
    <3>5. QED BY <3>1, <3>3, <3>4
  <2>4. QED BY <2>2, <2>3
<1>10. QED BY <1>3, <1>5, <1>7, <1>9 DEF WellProbed

-----------------------------------------------------------------------------
(* Sizes.                                                                  *)

(* A quotient bounds its dividend from above.                              *)
LEMMA DivBound ==
    ASSUME NEW x \in Nat, NEW y \in Nat \ {0}, NEW m \in Nat, x \div y <= m
    PROVE  x < y * (m + 1)
<1>1. x = y * (x \div y) + (x % y) /\ x % y < y /\ x \div y \in Nat
  OBVIOUS
<1>2. y * (x \div y) <= y * m
  BY <1>1
<1>3. QED BY <1>1, <1>2

(* A table that passes the load test has room for the binding to come and   *)
(* for one never-used slot after it.                                       *)
LEMMA LoadLeavesRoom ==
    ASSUME count \in Nat, capacity \in Nat, capacity # 0,
           capacity >= TABLE_MIN_CAPACITY, Load <= TABLE_MAX_LOAD
    PROVE  count < capacity - 1
<1> DEFINE m == TABLE_MAX_LOAD + 1
           s == 100 - m
<1>1. m \in Nat /\ s \in Nat
  BY SizesAssumption
<1>2. 100 * count < capacity * m
  <2>1. (100 * count) \div capacity <= TABLE_MAX_LOAD
    BY DEF Load
  <2>2. QED BY <2>1, DivBound, SizesAssumption
<1>3. TABLE_MIN_CAPACITY * s >= 100
  BY SizesAssumption
<1>4. capacity * s >= TABLE_MIN_CAPACITY * s
  BY <1>1, SizesAssumption
<1>5. capacity * m + capacity * s = capacity * 100
  BY <1>1
<1>6. QED BY <1>2, <1>3, <1>4, <1>5, SizesAssumption

(* Growing makes more than one slot of room.                               *)
LEMMA GrowthMakesRoom ==
    ASSUME capacity \in Nat, capacity # 0 => capacity >= TABLE_MIN_CAPACITY
    PROVE  /\ NextSize \in Nat \ {0}
           /\ NextSize >= TABLE_MIN_CAPACITY
           /\ capacity < NextSize - 1
<1>1. TABLE_MIN_CAPACITY >= 2
  BY SizesAssumption
<1>2. CASE capacity = 0
  BY <1>1, <1>2, SizesAssumption DEF NextSize
<1>3. CASE capacity # 0
  <2>1. NextSize = capacity * TABLE_GROWTH_FACTOR
    BY <1>3, SizesAssumption DEF NextSize
  <2>2. capacity * TABLE_GROWTH_FACTOR >= capacity * 2
    BY SizesAssumption
  <2>3. QED BY <1>1, <1>3, <2>1, <2>2, SizesAssumption
<1>4. QED BY <1>2, <1>3

(* Fewer bindings than slots leave a slot that holds none.                  *)
LEMMA RoomIsEmptySlot ==
    ASSUME NEW size \in Nat, NEW array \in Array(size), Cardinality(Live(array)) < size
    PROVE  \E i \in 0..size-1 : array[i].key = Empty
<1>1. SUFFICES ASSUME \A i \in 0..size-1 : array[i].key # Empty PROVE FALSE
  OBVIOUS
<1>2. Live(array) = 0..size-1
  BY <1>1 DEF Live, Array
<1>3. Cardinality(0..size-1) = size
  <2>1. 0 \in Int /\ size - 1 \in Int
    OBVIOUS
  <2>2. Cardinality(0..size-1) = IF 0 > size - 1 THEN 0 ELSE (size - 1) - 0 + 1
    BY <2>1, FS_Interval
  <2>3. QED BY <2>2
<1>4. QED BY <1>2, <1>3

LEMMA LiveIsFinite ==
    ASSUME NEW size \in Nat, NEW array \in Array(size)
    PROVE  IsFiniteSet(Live(array)) /\ Cardinality(Live(array)) \in Nat
<1>1. IsFiniteSet(0..size-1)
  <2>1. 0 \in Int /\ size - 1 \in Int
    OBVIOUS
  <2>2. QED BY <2>1, FS_Interval
<1>2. Live(array) \subseteq 0..size-1
  BY DEF Live, Array
<1>3. QED BY <1>1, <1>2, FS_Subset, FS_CardinalityType

(* How a write and a delete move the number of live slots.                 *)
LEMMA LiveCount ==
    ASSUME NEW size \in Nat, NEW array \in Array(size), NEW i \in 0..size-1
    PROVE  /\ i \notin Live(array) =>
                Cardinality(Live(array) \cup {i}) = Cardinality(Live(array)) + 1
           /\ i \in Live(array) =>
                Cardinality(Live(array) \ {i}) = Cardinality(Live(array)) - 1
BY LiveIsFinite, FS_AddElement, FS_RemoveElement

(* An array with no tombstones and with room ends every search.             *)
LEMMA RoomEndsSearch ==
    ASSUME NEW size \in Nat \ {0}, NEW array \in Array(size), NEW k \in Keys,
           NoTombstones(array), Cardinality(Live(array)) < size
    PROVE  ~Diverges(array, size, k)
<1>1. PICK i \in 0..size-1 : array[i].key = Empty
  BY RoomIsEmptySlot
<1>2. Ends(array, k, i)
  BY <1>1 DEF NoTombstones, Ends, Array
<1>3. QED BY <1>2, SearchEnds

-----------------------------------------------------------------------------
(* The inductive invariant: the invariants the runs check, and what a rehash *)
(* knows of the array it fills.                                            *)

GrowthFacts ==
    /\ capacity # 0 => capacity >= TABLE_MIN_CAPACITY
    /\ pc = "grow" => count <= moved /\ NoTombstones(fresh)
    /\ pc # "grow" => moved = 0 /\ fresh = NewArray(0)

TableInv ==
    /\ TypeOK
    /\ CountIsLive
    /\ OneEntryPerKey
    /\ ProbesUnbroken
    /\ RoomLeft
    /\ RehashKeepsEntries
    /\ GrowthFacts

(* An array of never-used slots.                                           *)
LEMMA NewArrayFacts ==
    ASSUME NEW size \in Nat
    PROVE  /\ NewArray(size) \in Array(size)
           /\ Live(NewArray(size)) = {}
           /\ Unique(NewArray(size))
           /\ Reachable(NewArray(size), size)
           /\ NoTombstones(NewArray(size))
           /\ Cardinality(Live(NewArray(size))) = 0
<1>1. NeverUsed \in Entry
  BY ValuesAssumption DEF NeverUsed, Entry
<1>2. NewArray(size) \in Array(size)
  BY <1>1 DEF NewArray, Array
<1>3. Live(NewArray(size)) = {}
  BY DEF NewArray, Live, NeverUsed
<1>4. NoTombstones(NewArray(size))
  BY DEF NoTombstones, NewArray
<1>5. QED BY <1>2, <1>3, <1>4, FS_EmptySet DEF Unique, Reachable

LEMMA InitInv == Init => TableInv
<1> SUFFICES ASSUME Init PROVE TableInv
  OBVIOUS
<1> USE DEF Init
<1>1. TypeOK
  BY NewArrayFacts, ValuesAssumption DEF TypeOK, Reply
<1>2. CountIsLive /\ OneEntryPerKey /\ ProbesUnbroken
  BY NewArrayFacts DEF CountIsLive, OneEntryPerKey, ProbesUnbroken
<1>3. RoomLeft /\ RehashKeepsEntries /\ GrowthFacts
  BY DEF RoomLeft, RehashKeepsEntries, GrowthFacts
<1>4. QED BY <1>1, <1>2, <1>3 DEF TableInv

LEMMA FreeInv == TableInv /\ Free => TableInv'
<1> SUFFICES ASSUME TableInv, Free PROVE TableInv'
  OBVIOUS
<1> USE DEF TableInv, Free
<1>1. TypeOK'
  BY NewArrayFacts, ValuesAssumption DEF TypeOK, Reply, GrowthFacts
<1>2. CountIsLive' /\ OneEntryPerKey' /\ ProbesUnbroken'
  BY NewArrayFacts DEF CountIsLive, OneEntryPerKey, ProbesUnbroken
<1>3. RoomLeft' /\ RehashKeepsEntries' /\ GrowthFacts'
  BY DEF RoomLeft, RehashKeepsEntries, GrowthFacts
<1>4. QED BY <1>1, <1>2, <1>3

(* Steps that leave the table and the array being filled alone.             *)
LEMMA QuietInv ==
    ASSUME TableInv, UNCHANGED <<count, capacity, entries, fresh, moved>>,
           TypeOK', pc # "grow", pc' # "grow",
           pc' = "place" => \/ pc = "place"
                            \/ Load <= TABLE_MAX_LOAD /\ capacity # 0
    PROVE  TableInv'
<1> USE DEF TableInv
<1>1. CountIsLive' /\ OneEntryPerKey' /\ ProbesUnbroken'
  BY DEF CountIsLive, OneEntryPerKey, ProbesUnbroken
<1>2. RoomLeft'
  <2>1. capacity # 0 => count < capacity
    BY DEF RoomLeft
  <2>2. pc' = "place" => count < capacity - 1
    BY LoadLeavesRoom DEF RoomLeft, GrowthFacts, TypeOK
  <2>3. QED BY <2>1, <2>2 DEF RoomLeft
<1>3. RehashKeepsEntries' /\ GrowthFacts'
  BY DEF RehashKeepsEntries, GrowthFacts
<1>4. QED BY <1>1, <1>2, <1>3

(* A write through find_entry to a table that is not being rehashed.        *)
LEMMA PlaceInv ==
    ASSUME TableInv, NEW r \in todo, Place(r)
    PROVE  TableInv'
<1> USE DEF TableInv
<1> DEFINE i == FindEntry(entries, capacity, r.key)
<1>1. capacity \in Nat \ {0} /\ entries \in Array(capacity)
  BY DEF TypeOK, RoomLeft, Place
<1>2. r \in [key : Keys, value : Values]
  BY DEF TypeOK
<1>3. WellProbed(entries, capacity)
  BY DEF OneEntryPerKey, ProbesUnbroken, WellProbed
<1>4. i \in 0..capacity-1
  BY <1>1, <1>2, FindEntryInRange DEF Place
<1>5. /\ entries' \in Array(capacity)
      /\ WellProbed(entries', capacity)
      /\ Live(entries') = Live(entries) \cup {i}
  BY <1>1, <1>2, <1>3, WriteKeepsProbes DEF Place
<1>6. i \in Live(entries) <=> entries[i].key # Empty
  BY <1>1, <1>4 DEF Live, Array
<1>7. count' = IF i \in Live(entries) THEN count ELSE count + 1
  BY <1>6 DEF Place
<1>8. UNCHANGED <<capacity, fresh, moved>> /\ pc = "place" /\ pc' \in {"ready", "check"}
  BY DEF Place
<1>9. TypeOK'
  <2>1. reply' \in [op : {"init", "set", "get", "delete", "find", "free"},
                    ok : BOOLEAN, value : Values]
    BY ValuesAssumption DEF Place, Reply
  <2>2. todo' \subseteq [key : Keys, value : Values]
    BY DEF Place, TypeOK
  <2>3. QED BY <1>5, <1>7, <1>8, <2>1, <2>2 DEF TypeOK
<1>10. CountIsLive'
  <2>1. count = Cardinality(Live(entries))
    BY <1>8 DEF CountIsLive
  <2>2. count' = Cardinality(Live(entries'))
    <3>1. CASE i \in Live(entries)
      <4>1. Live(entries) \cup {i} = Live(entries)
        BY <3>1
      <4>2. QED BY <1>5, <1>7, <2>1, <3>1, <4>1
    <3>2. CASE i \notin Live(entries)
      BY <1>1, <1>4, <1>5, <1>7, <2>1, <3>2, LiveCount
    <3>3. QED BY <3>1, <3>2
  <2>3. QED BY <1>8, <2>2 DEF CountIsLive
<1>11. OneEntryPerKey' /\ ProbesUnbroken'
  BY <1>5, <1>8 DEF OneEntryPerKey, ProbesUnbroken, WellProbed
<1>12. RoomLeft'
  BY <1>7, <1>8 DEF RoomLeft, TypeOK
<1>13. RehashKeepsEntries' /\ GrowthFacts'
  BY <1>8 DEF RehashKeepsEntries, GrowthFacts
<1>14. QED BY <1>9, <1>10, <1>11, <1>12, <1>13

(* table_delete: the slot becomes a tombstone, which no search ends at.      *)
LEMMA DeleteInv ==
    ASSUME TableInv, NEW k \in Keys, Delete(k)
    PROVE  TableInv'
<1> USE DEF TableInv
<1> DEFINE i == FindEntry(entries, capacity, k)
<1>1. UNCHANGED <<capacity, fresh, moved, pc, todo>> /\ pc = "ready"
  BY DEF Delete
<1>2. reply' \in [op : {"init", "set", "get", "delete", "find", "free"},
                  ok : BOOLEAN, value : Values]
  BY ValuesAssumption DEF Delete, Reply, Present
<1>3. CASE ~Present(k)
  <2>1. UNCHANGED <<count, entries>>
    BY <1>3 DEF Delete
  <2>2. TypeOK'
    BY <1>1, <1>2, <2>1 DEF TypeOK
  <2>3. QED BY <1>1, <2>1, <2>2, QuietInv
<1>4. CASE Present(k)
  <2>1. count = Cardinality(Live(entries)) /\ count # 0
    BY <1>1, <1>4 DEF CountIsLive, Present
  <2>2. capacity \in Nat \ {0} /\ entries \in Array(capacity)
    <3>1. CASE capacity = 0
      <4>1. Live(entries) = {}
        BY <3>1 DEF TypeOK, Array, Live
      <4>2. QED BY <2>1, <4>1, FS_EmptySet
    <3>2. QED BY <3>1 DEF TypeOK
  <2>3. i \in 0..capacity-1
    BY <1>4, <2>2, FindEntryInRange DEF Delete, Answers, Present
  <2>4. i \in Live(entries)
    BY <1>4, <2>2, <2>3 DEF Present, Live, Array
  <2>5. /\ count' = count - 1
        /\ entries' = [entries EXCEPT ![i] = Tombstone]
    BY <1>4 DEF Delete
  <2>6. Tombstone \in Entry /\ Tombstone # NeverUsed /\ Tombstone.key = Empty
    BY ValuesAssumption DEF Tombstone, NeverUsed, Entry
  <2>7. entries' \in Array(capacity)
    BY <2>2, <2>5, <2>6 DEF Array
  <2>8. entries'[i] = Tombstone /\ \A j \in 0..capacity-1 : j # i => entries'[j] = entries[j]
    BY <2>2, <2>3, <2>5 DEF Array
  <2>9. Live(entries') = Live(entries) \ {i}
    <3>1. DOMAIN entries = 0..capacity-1 /\ DOMAIN entries' = 0..capacity-1
      BY <2>2, <2>7 DEF Array
    <3>2. QED BY <2>3, <2>6, <2>8, <3>1 DEF Live
  <2>10. \A j \in Live(entries') : j \in Live(entries) /\ j \in 0..capacity-1 /\ entries'[j] = entries[j]
    BY <2>2, <2>8, <2>9 DEF Live, Array
  <2>11. TypeOK'
    BY <1>1, <1>2, <2>1, <2>5, <2>7 DEF TypeOK
  <2>12. CountIsLive'
    <3>1. count' = Cardinality(Live(entries'))
      BY <2>1, <2>2, <2>3, <2>4, <2>5, <2>9, LiveCount
    <3>2. QED BY <1>1, <3>1 DEF CountIsLive
  <2>13. OneEntryPerKey'
    BY <1>1, <2>10 DEF OneEntryPerKey, Unique
  <2>14. Reachable(entries', capacity)
    <3>1. SUFFICES ASSUME NEW a \in Live(entries'), entries'[a].key \notin Irreflexive
                   PROVE  \E d \in 0..capacity-1 :
                            /\ Slot(entries'[a].key, d, capacity) = a
                            /\ \A e \in 0..d-1 :
                                   entries'[Slot(entries'[a].key, e, capacity)] # NeverUsed
      BY DEF Reachable
    <3>2. entries[a].key \in Keys /\ entries'[a] = entries[a] /\ a \in Live(entries)
      BY <2>2, <2>10 DEF Live, Array, Entry
    <3>3. PICK d \in 0..capacity-1 :
            /\ Slot(entries[a].key, d, capacity) = a
            /\ \A e \in 0..d-1 : entries[Slot(entries[a].key, e, capacity)] # NeverUsed
      BY <3>1, <3>2 DEF ProbesUnbroken, Reachable
    <3>4. ASSUME NEW e \in 0..d-1
          PROVE  entries'[Slot(entries[a].key, e, capacity)] # NeverUsed
      <4>1. Slot(entries[a].key, e, capacity) \in 0..capacity-1
        BY <2>2, <3>2, <3>3, SlotInRange
      <4>2. QED BY <2>6, <2>8, <3>3, <4>1
    <3>5. QED BY <3>2, <3>3, <3>4
  <2>15. ProbesUnbroken'
    BY <1>1, <2>14 DEF ProbesUnbroken
  <2>16. RoomLeft'
    BY <1>1, <2>1, <2>5 DEF RoomLeft, TypeOK
  <2>17. RehashKeepsEntries' /\ GrowthFacts'
    BY <1>1 DEF RehashKeepsEntries, GrowthFacts
  <2>18. QED BY <2>11, <2>12, <2>13, <2>15, <2>16, <2>17
<1>5. QED BY <1>3, <1>4

(* adjust_capacity: a new array that nothing has been moved to ...          *)
LEMMA BeginGrowInv == TableInv /\ BeginGrow => TableInv'
<1> SUFFICES ASSUME TableInv, BeginGrow PROVE TableInv'
  OBVIOUS
<1> USE DEF TableInv, BeginGrow
<1>1. NextSize \in Nat \ {0} /\ NextSize' = NextSize /\ capacity < NextSize - 1
  BY GrowthMakesRoom DEF TypeOK, GrowthFacts, NextSize
<1>2. /\ NewArray(NextSize) \in Array(NextSize)
      /\ Live(NewArray(NextSize)) = {}
      /\ Unique(NewArray(NextSize))
      /\ Reachable(NewArray(NextSize), NextSize)
      /\ NoTombstones(NewArray(NextSize))
      /\ Cardinality(Live(NewArray(NextSize))) = 0
  BY <1>1, NewArrayFacts
<1>3. TypeOK'
  BY <1>1, <1>2 DEF TypeOK
<1>4. CountIsLive' /\ OneEntryPerKey' /\ ProbesUnbroken'
  BY <1>1, <1>2 DEF CountIsLive, OneEntryPerKey, ProbesUnbroken
<1>5. RoomLeft'
  BY <1>1 DEF RoomLeft, TypeOK
<1>6. RehashKeepsEntries'
  <2>1. {j \in Live(entries) : j < 0} = {}
    BY DEF TypeOK, Live, Array
  <2>2. QED BY <1>2, <2>1 DEF RehashKeepsEntries
<1>7. GrowthFacts'
  BY <1>2 DEF GrowthFacts
<1>8. QED BY <1>3, <1>4, <1>5, <1>6, <1>7

(* ... a slot of the old array that holds nothing ...                       *)
LEMMA SkipEmptyInv == TableInv /\ SkipEmpty => TableInv'
<1> SUFFICES ASSUME TableInv, SkipEmpty PROVE TableInv'
  OBVIOUS
<1> USE DEF TableInv, SkipEmpty
<1>1. NextSize' = NextSize
  BY DEF NextSize
<1>2. TypeOK'
  BY <1>1 DEF TypeOK
<1>3. CountIsLive' /\ OneEntryPerKey' /\ ProbesUnbroken'
  BY <1>1 DEF CountIsLive, OneEntryPerKey, ProbesUnbroken
<1>4. RoomLeft'
  BY <1>1 DEF RoomLeft
<1>5. RehashKeepsEntries'
  <2>1. {j \in Live(entries) : j < moved + 1} = {j \in Live(entries) : j < moved}
    BY DEF TypeOK, Live, Array
  <2>2. QED BY <2>1 DEF RehashKeepsEntries
<1>6. GrowthFacts'
  BY DEF GrowthFacts, TypeOK
<1>7. QED BY <1>2, <1>3, <1>4, <1>5, <1>6

(* ... and the new array in the place of the old one.                       *)
LEMMA EndGrowInv == TableInv /\ EndGrow => TableInv'
<1> SUFFICES ASSUME TableInv, EndGrow PROVE TableInv'
  OBVIOUS
<1> USE DEF TableInv, EndGrow
<1>1. NextSize \in Nat \ {0} /\ NextSize >= TABLE_MIN_CAPACITY /\ capacity < NextSize - 1
  BY GrowthMakesRoom DEF TypeOK, GrowthFacts
<1>2. TypeOK'
  BY <1>1, NewArrayFacts DEF TypeOK
<1>3. CountIsLive' /\ OneEntryPerKey' /\ ProbesUnbroken'
  BY NewArrayFacts DEF CountIsLive, OneEntryPerKey, ProbesUnbroken
<1>4. RoomLeft'
  BY <1>1 DEF RoomLeft, TypeOK
<1>5. RehashKeepsEntries' /\ GrowthFacts'
  BY <1>1 DEF RehashKeepsEntries, GrowthFacts
<1>6. QED BY <1>2, <1>3, <1>4, <1>5

(* The move of one entry: the array being filled has no tombstones and has   *)
(* room, so the search ends; its keys are those of entries already passed,  *)
(* so the key is new to it and one more slot is live.                      *)
LEMMA MoveEntryInv == TableInv /\ MoveEntry => TableInv'
<1> SUFFICES ASSUME TableInv, MoveEntry PROVE TableInv'
  OBVIOUS
<1> USE DEF TableInv
<1> DEFINE r == entries[moved]
           i == FindEntry(fresh, NextSize, r.key)
<1>1. /\ pc = "grow" /\ moved \in 0..capacity-1 /\ r.key # Empty
      /\ fresh' = [fresh EXCEPT ![i] = r]
      /\ count' = count + 1 /\ moved' = moved + 1
      /\ UNCHANGED <<capacity, entries, pc, todo, reply>>
  BY DEF MoveEntry, TypeOK
<1>2. NextSize \in Nat \ {0} /\ NextSize' = NextSize /\ capacity < NextSize - 1
  BY <1>1, GrowthMakesRoom DEF TypeOK, GrowthFacts, NextSize
<1>3. fresh \in Array(NextSize) /\ entries \in Array(capacity) /\ capacity \in Nat /\ count \in Nat
  BY <1>1 DEF TypeOK
<1>4. moved \in Live(entries)
  BY <1>1, <1>3 DEF Live, Array
<1>5. r \in [key : Keys, value : Values] /\ r.key \in Keys
  BY <1>1, <1>3 DEF Array, Entry
<1>6. count = Cardinality(Live(fresh)) /\ count <= moved /\ NoTombstones(fresh)
  BY <1>1 DEF CountIsLive, GrowthFacts
<1>7. ~Diverges(fresh, NextSize, r.key)
  BY <1>1, <1>2, <1>3, <1>5, <1>6, RoomEndsSearch
<1>8. WellProbed(fresh, NextSize)
  BY <1>1 DEF OneEntryPerKey, ProbesUnbroken, WellProbed
<1>9. /\ fresh' \in Array(NextSize)
      /\ WellProbed(fresh', NextSize)
      /\ Live(fresh') = Live(fresh) \cup {i}
  BY <1>1, <1>2, <1>3, <1>5, <1>7, <1>8, WriteKeepsProbes
<1>10. i \in 0..NextSize-1
  BY <1>2, <1>3, <1>5, <1>7, FindEntryInRange
<1> HIDE DEF i
<1>11. i \notin Live(fresh)
  <2>1. SUFFICES ASSUME i \in Live(fresh) PROVE FALSE
    OBVIOUS
  <2>2. PICK d, g \in 0..NextSize-1 : FoundAt(fresh, NextSize, r.key, d, g)
    BY <1>2, <1>3, <1>5, <1>7, FindEntryFinds
  <2>3. Equal(r.key, fresh[i].key)
    BY <2>1, <2>2 DEF FoundAt, Live, i
  <2>4. fresh[i] \in {fresh[x] : x \in Live(fresh)}
    BY <2>1
  <2>5. PICK j \in Live(entries) : j < moved /\ entries[j] = fresh[i]
    BY <1>1, <2>4 DEF RehashKeepsEntries
  <2>6. Equal(entries[j].key, entries[moved].key)
    BY <2>3, <2>5 DEF Equal
  <2>7. j = moved
    BY <1>4, <2>6 DEF OneEntryPerKey, Unique
  <2>8. QED BY <1>1, <2>5, <2>7
<1>12. fresh'[i] = r /\ \A x \in 0..NextSize-1 : x # i => fresh'[x] = fresh[x]
  BY <1>1, <1>3, <1>10 DEF Array
<1>13. TypeOK'
  BY <1>1, <1>2, <1>3, <1>9 DEF TypeOK
<1>14. CountIsLive'
  <2>1. count' = Cardinality(Live(fresh'))
    BY <1>1, <1>2, <1>3, <1>6, <1>9, <1>10, <1>11, LiveCount
  <2>2. QED BY <1>1, <2>1 DEF CountIsLive
<1>15. OneEntryPerKey' /\ ProbesUnbroken'
  BY <1>1, <1>2, <1>9 DEF OneEntryPerKey, ProbesUnbroken, WellProbed
<1>16. RoomLeft'
  BY <1>1, <1>2, <1>3, <1>6 DEF RoomLeft
<1>17. RehashKeepsEntries'
  <2>1. {fresh'[x] : x \in Live(fresh')} = {fresh[x] : x \in Live(fresh)} \cup {r}
    <3>1. \A x \in Live(fresh) : x \in 0..NextSize-1 /\ x # i
      BY <1>3, <1>11 DEF Live, Array
    <3> HIDE DEF r
    <3>2. QED BY <1>9, <1>12, <3>1
  <2>2. {j \in Live(entries) : j < moved + 1} = {j \in Live(entries) : j < moved} \cup {moved}
    <3>1. \A j \in Live(entries) : j \in Int
      BY <1>3 DEF Live, Array
    <3>2. moved \in Int /\ \A j \in Int : j < moved + 1 <=> j < moved \/ j = moved
      BY <1>1, <1>3
    <3>3. QED BY <1>4, <3>1, <3>2
  <2>3. {fresh[x] : x \in Live(fresh)} = {entries[x] : x \in {j \in Live(entries) : j < moved}}
    BY <1>1 DEF RehashKeepsEntries
  <2>4. {fresh'[x] : x \in Live(fresh')}
            = {entries[x] : x \in {j \in Live(entries) : j < moved + 1}}
    BY <2>1, <2>2, <2>3
  <2>5. QED BY <1>1, <2>4 DEF RehashKeepsEntries
<1>18. GrowthFacts'
  <2>1. ASSUME NEW x \in DOMAIN fresh', fresh'[x].key = Empty
        PROVE  fresh'[x] = NeverUsed
    <3>1. x \in 0..NextSize-1 /\ x # i
      BY <1>1, <1>9, <1>12, <2>1 DEF Array
    <3>2. QED BY <1>3, <1>6, <1>12, <2>1, <3>1 DEF NoTombstones, Array
  <2>2. QED BY <1>1, <1>3, <1>6, <2>1 DEF GrowthFacts, NoTombstones
<1>19. QED BY <1>13, <1>14, <1>15, <1>16, <1>17, <1>18

LEMMA NextInv == TableInv /\ [Next]_vars => TableInv'
<1> SUFFICES ASSUME TableInv, [Next]_vars PROVE TableInv'
  OBVIOUS
<1>1. ASSUME NEW work \in SUBSET [key : Keys, value : Values], Begin(work)
      PROVE  TableInv'
  <2>1. TypeOK'
    BY <1>1 DEF Begin, TableInv, TypeOK
  <2>2. QED BY <1>1, <2>1, QuietInv DEF Begin
<1>2. ASSUME NEW k \in Keys, NEW v \in Values, Set(k, v) PROVE TableInv'
  <2>1. {[key |-> k, value |-> v]} \in SUBSET [key : Keys, value : Values]
    OBVIOUS
  <2>2. QED BY <1>1, <1>2, <2>1 DEF Set
<1>3. ASSUME NEW from \in Sources, AddAll(from) PROVE TableInv'
  <2>1. PICK S \in SUBSET Strings : from \in [S -> Values]
    BY DEF Sources
  <2>2. ASSUME NEW k \in DOMAIN from
        PROVE  [key |-> k, value |-> from[k]] \in [key : Keys, value : Values]
    BY <2>1, KeysAssumption
  <2>3. {[key |-> k, value |-> from[k]] : k \in DOMAIN from}
            \in SUBSET [key : Keys, value : Values]
    BY <2>2
  <2>4. QED BY <1>1, <1>3, <2>3 DEF AddAll
<1>4. CASE BeginGrow
  BY <1>4, BeginGrowInv
<1>5. CASE SkipGrow
  <2>1. capacity # 0
    BY <1>5, SizesAssumption DEF SkipGrow, Load
  <2>2. TypeOK'
    BY <1>5 DEF SkipGrow, TableInv, TypeOK
  <2>3. QED BY <1>5, <2>1, <2>2, QuietInv DEF SkipGrow
<1>6. CASE SkipEmpty
  BY <1>6, SkipEmptyInv
<1>7. CASE MoveEntry
  BY <1>7, MoveEntryInv
<1>8. CASE EndGrow
  BY <1>8, EndGrowInv
<1>9. ASSUME NEW r \in todo, Place(r) PROVE TableInv'
  BY <1>9, PlaceInv
<1>10. ASSUME NEW k \in Keys, Get(k) PROVE TableInv'
  <2>1. Present(k) => entries[FindEntry(entries, capacity, k)].value \in Values
    <3>1. SUFFICES ASSUME Present(k)
                   PROVE  entries[FindEntry(entries, capacity, k)].value \in Values
      OBVIOUS
    <3>2. count = Cardinality(Live(entries)) /\ count # 0
      BY <1>10, <3>1 DEF TableInv, CountIsLive, Present, Get
    <3>3. capacity \in Nat \ {0} /\ entries \in Array(capacity)
      <4>1. CASE capacity = 0
        <5>1. Live(entries) = {}
          BY <4>1 DEF TableInv, TypeOK, Array, Live
        <5>2. QED BY <3>2, <5>1, FS_EmptySet
      <4>2. QED BY <4>1 DEF TableInv, TypeOK
    <3>4. FindEntry(entries, capacity, k) \in 0..capacity-1
      BY <1>10, <3>2, <3>3, FindEntryInRange DEF Get, Answers
    <3>5. QED BY <3>3, <3>4 DEF Array, Entry
  <2>2. reply' \in [op : {"init", "set", "get", "delete", "find", "free"},
                    ok : BOOLEAN, value : Values]
    BY <1>10, <2>1, ValuesAssumption DEF Get, Reply
  <2>3. TypeOK'
    BY <1>10, <2>2 DEF Get, TableInv, TypeOK
  <2>4. QED BY <1>10, <2>3, QuietInv DEF Get
<1>11. ASSUME NEW k \in Strings, FindString(k) PROVE TableInv'
  <2>1. reply' \in [op : {"init", "set", "get", "delete", "find", "free"},
                    ok : BOOLEAN, value : Values]
    BY <1>11, ValuesAssumption DEF FindString, Reply, FindsString
  <2>2. TypeOK'
    BY <1>11, <2>1 DEF FindString, TableInv, TypeOK
  <2>3. QED BY <1>11, <2>2, QuietInv DEF FindString
<1>12. CASE Spin
  <2>1. TypeOK'
    BY <1>12 DEF Spin, TableInv, TypeOK
  <2>2. QED BY <1>12, <2>1, QuietInv DEF Spin
<1>13. CASE Free
  BY <1>13, FreeInv
<1>14. ASSUME NEW k \in Keys, Delete(k) PROVE TableInv'
  BY <1>14, DeleteInv
<1>15. CASE UNCHANGED vars
  BY <1>15 DEF vars, TableInv, TypeOK, CountIsLive, OneEntryPerKey, ProbesUnbroken,
               RoomLeft, RehashKeepsEntries, GrowthFacts, NextSize
<1>16. QED
  BY <1>2, <1>3, <1>4, <1>5, <1>6, <1>7, <1>8, <1>9, <1>10, <1>11, <1>12, <1>13, <1>14, <1>15
     DEF Next, SetStep

-----------------------------------------------------------------------------
(* Theorems.                                                               *)

(* The table is well formed for ever, whatever calls are made.              *)
THEOREM TableInvariant == Spec => []TableInv
<1>1. Init => TableInv
  BY InitInv
<1>2. TableInv /\ [Next]_vars => TableInv'
  BY NextInv
<1>3. QED BY <1>1, <1>2, PTL DEF Spec

(* Every variable keeps its type.                                          *)
THEOREM TypeCorrect == Spec => []TypeOK
<1>1. TableInv => TypeOK
  BY DEF TableInv
<1>2. QED BY <1>1, TableInvariant, PTL

(* table->count is the number of bindings in the array.                    *)
THEOREM CountCorrect == Spec => []CountIsLive
<1>1. TableInv => CountIsLive
  BY DEF TableInv
<1>2. QED BY <1>1, TableInvariant, PTL

(* A key that equals itself has at most one entry.                         *)
THEOREM KeysUnique == Spec => []OneEntryPerKey
<1>1. TableInv => OneEntryPerKey
  BY DEF TableInv
<1>2. QED BY <1>1, TableInvariant, PTL

(* No never-used slot hides an entry from the search for its key.           *)
THEOREM ProbesHold == Spec => []ProbesUnbroken
<1>1. TableInv => ProbesUnbroken
  BY DEF TableInv
<1>2. QED BY <1>1, TableInvariant, PTL

(* The load test leaves room for every write.                              *)
THEOREM RoomHolds == Spec => []RoomLeft
<1>1. TableInv => RoomLeft
  BY DEF TableInv
<1>2. QED BY <1>1, TableInvariant, PTL

(* A rehash keeps exactly the entries it has passed.                       *)
THEOREM RehashCorrect == Spec => []RehashKeepsEntries
<1>1. TableInv => RehashKeepsEntries
  BY DEF TableInv
<1>2. QED BY <1>1, TableInvariant, PTL

-----------------------------------------------------------------------------
(* Calls come to an end where nothing was deleted.                          *)

SpinInv == TableInv /\ OnlyTombstonesSpin

LEMMA SpinStep == SpinInv /\ [Next]_vars => SpinInv'
<1> SUFFICES ASSUME SpinInv, [Next]_vars PROVE SpinInv'
  OBVIOUS
<1>1. TableInv /\ TableInv'
  BY NextInv DEF SpinInv
<1>2. ASSUME NoTombstones(entries), NEW k \in Keys, pc # "grow", count # 0
      PROVE  ~Diverges(entries, capacity, k)
  <2>1. count = Cardinality(Live(entries)) /\ entries \in Array(capacity) /\ capacity \in Nat
    BY <1>1, <1>2 DEF TableInv, CountIsLive, TypeOK
  <2>2. capacity # 0
    <3>1. ASSUME capacity = 0 PROVE FALSE
      <4>1. Live(entries) = {}
        BY <2>1, <3>1 DEF Array, Live
      <4>2. QED BY <1>2, <2>1, <4>1, FS_EmptySet
    <3>2. QED BY <3>1
  <2>3. count < capacity
    BY <1>1, <1>2, <2>2 DEF TableInv, RoomLeft
  <2>4. QED BY <1>2, <2>1, <2>2, <2>3, RoomEndsSearch
<1>3. ASSUME NoTombstones(entries), NEW r \in todo, pc = "place"
      PROVE  ~Diverges(entries, capacity, r.key)
  <2>1. r.key \in Keys
    BY <1>1 DEF TableInv, TypeOK
  <2>2. count = Cardinality(Live(entries)) /\ entries \in Array(capacity) /\ capacity \in Nat
        /\ count \in Nat /\ count < capacity - 1
    BY <1>1, <1>3 DEF TableInv, CountIsLive, TypeOK, RoomLeft
  <2>3. QED BY <1>3, <2>1, <2>2, RoomEndsSearch
<1>4. ASSUME Spin PROVE OnlyTombstonesSpin'
  <2>1. entries' = entries
    BY <1>4 DEF Spin
  <2>2. CASE pc = "ready" /\ \E k \in Keys : ~Answers(k)
    <3>1. ~NoTombstones(entries)
      BY <1>2, <2>2 DEF Answers
    <3>2. QED BY <2>1, <3>1 DEF OnlyTombstonesSpin
  <2>3. CASE pc = "place" /\ \E r \in todo : Diverges(entries, capacity, r.key)
    <3>1. ~NoTombstones(entries)
      BY <1>3, <2>3
    <3>2. QED BY <2>1, <3>1 DEF OnlyTombstonesSpin
  <2>4. QED BY <1>4, <2>2, <2>3 DEF Spin
<1>5. ASSUME UNCHANGED vars PROVE OnlyTombstonesSpin'
  BY <1>5 DEF SpinInv, OnlyTombstonesSpin, vars
<1>6. ASSUME Next, ~Spin PROVE pc' # "diverged"
  BY <1>6 DEF Next, SetStep, Set, AddAll, Begin, BeginGrow, SkipGrow, SkipEmpty, MoveEntry,
              EndGrow, Place, Get, Delete, FindString, Free
<1>7. QED BY <1>1, <1>4, <1>5, <1>6 DEF SpinInv, OnlyTombstonesSpin

(* A search that never ends has met tombstones; a table nothing is deleted   *)
(* from -- the interned strings, a method table -- ends every search.       *)
THEOREM SearchesEnd == Spec => []OnlyTombstonesSpin
<1>1. Init => SpinInv
  <2>1. Init => OnlyTombstonesSpin
    BY DEF Init, OnlyTombstonesSpin
  <2>2. QED BY <2>1, InitInv DEF SpinInv
<1>2. SpinInv /\ [Next]_vars => SpinInv'
  BY SpinStep
<1>3. SpinInv => OnlyTombstonesSpin
  BY DEF SpinInv
<1>4. QED BY <1>1, <1>2, <1>3, PTL DEF Spec

(* The probe table_find_string makes for a key of the table reaches it.     *)
LEMMA StringsAreFound == TableInv => FindsWhatIsThere
<1> SUFFICES ASSUME TableInv, NoTombstones(entries),
                    \A j \in Live(entries) : entries[j].key \in Strings,
                    NEW i \in Live(entries)
             PROVE  FindsString(entries[i].key)
  BY DEF FindsWhatIsThere
<1> DEFINE k == entries[i].key
<1>1. capacity \in Nat /\ entries \in Array(capacity) /\ i \in 0..capacity-1
  BY DEF TableInv, TypeOK, Live, Array
<1>2. k \in Strings /\ k \in Keys /\ k \notin Irreflexive
  BY KeysAssumption
<1>3. PICK d \in 0..capacity-1 :
          /\ Slot(k, d, capacity) = i
          /\ \A e \in 0..d-1 : entries[Slot(k, e, capacity)] # NeverUsed
  BY <1>2 DEF TableInv, ProbesUnbroken, Reachable
<1>4. ASSUME NEW e \in 0..d-1 PROVE ~FindStops(k, Slot(k, e, capacity))
  <2>1. e \in 0..capacity-1 /\ e # d
    BY <1>1, <1>3
  <2>2. PICK j : j = Slot(k, e, capacity)
    OBVIOUS
  <2>3. j \in 0..capacity-1
    BY <1>1, <1>2, <2>1, <2>2, SlotInRange
  <2>4. j # i
    BY <1>1, <1>2, <1>3, <2>1, <2>2, SlotInjective
  <2>5. j \in Live(entries)
    BY <1>1, <1>3, <1>4, <2>2, <2>3 DEF NoTombstones, Live, Array
  <2>6. entries[j].key # k
    BY <1>2, <2>4, <2>5 DEF TableInv, OneEntryPerKey, Unique, Equal
  <2>7. QED BY <2>2, <2>5, <2>6 DEF FindStops
<1>5. QED BY <1>3, <1>4 DEF FindsString

(* vm_intern_string finds every string that was interned.                   *)
THEOREM InternedAreFound == Spec => []FindsWhatIsThere
<1>1. QED BY StringsAreFound, TableInvariant, PTL

-----------------------------------------------------------------------------
(* The table implements the map.                                           *)

(* What a caller can see of an array is the set of its entries.             *)
LEMMA ContentsAt ==
    ASSUME NEW array, Unique(array), NEW i \in Live(array), array[i].key \notin Irreflexive
    PROVE  /\ array[i].key \in FoundIn(array)
           /\ ContentsOf(array)[array[i].key] = array[i].value
<1> DEFINE k == array[i].key
           j == CHOOSE x \in Live(array) : array[x].key = k
<1>1. k \in FoundIn(array)
  BY DEF FoundIn
<1>2. j \in Live(array) /\ array[j].key = k
  OBVIOUS
<1>3. j = i
  BY <1>2 DEF Unique, Equal
<1>4. ContentsOf(array)[k] = array[j].value
  BY <1>1 DEF ContentsOf
<1>5. QED BY <1>1, <1>3, <1>4

LEMMA SameEntriesSameContents ==
    ASSUME NEW a, NEW b, Unique(a), Unique(b),
           {a[i] : i \in Live(a)} = {b[i] : i \in Live(b)}
    PROVE  ContentsOf(a) = ContentsOf(b)
<1>1. \A i \in Live(a) : \E j \in Live(b) : b[j] = a[i]
  <2>1. ASSUME NEW i \in Live(a) PROVE \E j \in Live(b) : b[j] = a[i]
    <3>1. a[i] \in {b[j] : j \in Live(b)}
      OBVIOUS
    <3>2. QED BY <3>1
  <2>2. QED BY <2>1
<1>2. \A i \in Live(b) : \E j \in Live(a) : a[j] = b[i]
  <2>1. ASSUME NEW i \in Live(b) PROVE \E j \in Live(a) : a[j] = b[i]
    <3>1. b[i] \in {a[j] : j \in Live(a)}
      OBVIOUS
    <3>2. QED BY <3>1
  <2>2. QED BY <2>1
<1>3. FoundIn(a) = FoundIn(b)
  BY <1>1, <1>2 DEF FoundIn
<1>4. ASSUME NEW k \in FoundIn(a) PROVE ContentsOf(a)[k] = ContentsOf(b)[k]
  <2>1. PICK i \in Live(a) : a[i].key = k /\ k \notin Irreflexive
    BY DEF FoundIn
  <2>2. PICK j \in Live(b) : b[j] = a[i]
    BY <1>1
  <2>3. ContentsOf(a)[k] = a[i].value
    BY <2>1, ContentsAt
  <2>4. ContentsOf(b)[k] = b[j].value
    BY <2>1, <2>2, ContentsAt
  <2>5. QED BY <2>2, <2>3, <2>4
<1>5. ContentsOf(a) = [k \in FoundIn(a) |-> ContentsOf(a)[k]]
      /\ ContentsOf(b) = [k \in FoundIn(b) |-> ContentsOf(b)[k]]
  BY DEF ContentsOf
<1>6. QED BY <1>3, <1>4, <1>5

(* find_entry tells the keys of the map from the others.                   *)
LEMMA FoundWhenPresent ==
    ASSUME NEW k \in Keys, NEW size \in Nat \ {0}, NEW array \in Array(size),
           WellProbed(array, size), ~Diverges(array, size, k)
    PROVE  LET i == FindEntry(array, size, k)
           IN  /\ i \in 0..size-1
               /\ array[i].key # Empty <=> k \in FoundIn(array)
               /\ k \in FoundIn(array) =>
                    i \in Live(array) /\ array[i].key = k /\ ContentsOf(array)[k] = array[i].value
<1> DEFINE i == FindEntry(array, size, k)
<1>1. i \in 0..size-1
  BY FindEntryInRange
<1>2. ASSUME k \in FoundIn(array) PROVE i \in Live(array) /\ array[i].key = k
  <2>1. PICK j \in Live(array) : array[j].key = k /\ k \notin Irreflexive
    BY <1>2 DEF FoundIn
  <2>2. i = j
    BY <2>1, FindEntryComplete DEF WellProbed
  <2>3. QED BY <2>1, <2>2
<1>3. ASSUME array[i].key # Empty PROVE k \in FoundIn(array)
  <2>1. PICK d, g \in 0..size-1 : FoundAt(array, size, k, d, g)
    BY FindEntryFinds
  <2>2. Equal(k, array[i].key)
    BY <1>3, <2>1 DEF FoundAt
  <2>3. i \in Live(array)
    BY <1>1, <1>3 DEF Live, Array
  <2> HIDE DEF i
  <2>4. QED BY <2>2, <2>3 DEF FoundIn, Equal
<1>4. ASSUME k \in FoundIn(array)
      PROVE  array[i].key # Empty /\ ContentsOf(array)[k] = array[i].value
  <2>1. k \notin Irreflexive /\ k # Empty
    BY <1>4, KeysAssumption DEF FoundIn
  <2> HIDE DEF i
  <2>2. QED BY <1>2, <1>4, <2>1, ContentsAt DEF WellProbed
<1>5. QED BY <1>1, <1>2, <1>3, <1>4

(* The write of table_set puts the binding into the map.                    *)
LEMMA WritePuts ==
    ASSUME NEW size \in Nat \ {0}, NEW array \in Array(size), WellProbed(array, size),
           NEW r \in [key : Keys, value : Values], ~Diverges(array, size, r.key)
    PROVE  LET k == r.key
               new == [array EXCEPT ![FindEntry(array, size, k)] = r]
           IN  ContentsOf(new) = IF k \in Irreflexive THEN ContentsOf(array)
                                 ELSE [x \in FoundIn(array) \cup {k} |->
                                        IF x = k THEN r.value ELSE ContentsOf(array)[x]]
<1> DEFINE k == r.key
           i == FindEntry(array, size, k)
           new == [array EXCEPT ![i] = r]
<1>1. k \in Keys
  OBVIOUS
<1>2. i \in 0..size-1 /\ (array[i].key # Empty <=> k \in FoundIn(array))
      /\ (k \in FoundIn(array) => i \in Live(array) /\ array[i].key = k)
  BY <1>1, FoundWhenPresent
<1>3. new \in Array(size) /\ WellProbed(new, size) /\ Live(new) = Live(array) \cup {i}
  BY WriteKeepsProbes
<1>4. new[i] = r /\ \A j \in 0..size-1 : j # i => new[j] = array[j]
  BY <1>2 DEF Array
<1>5. \A j \in Live(array) : j \in 0..size-1
  BY DEF Live, Array
<1>6. i \in Live(array) => array[i].key = k
  BY <1>2 DEF Live
<1>7. k \in Irreflexive => k \notin FoundIn(array)
  BY DEF FoundIn
<1>8. k \in Irreflexive => i \notin Live(array)
  BY <1>2, <1>7 DEF Live
<1>9. r.key = k
  OBVIOUS
<1> HIDE DEF new, i, k
<1>10. FoundIn(new) = IF k \in Irreflexive THEN FoundIn(array) ELSE FoundIn(array) \cup {k}
  <2>1. {new[j].key : j \in Live(new)} = {array[j].key : j \in Live(array)} \cup {k}
    <3>1. ASSUME NEW x \in {new[j].key : j \in Live(new)}
          PROVE  x \in {array[j].key : j \in Live(array)} \cup {k}
      <4>1. PICK j \in Live(new) : x = new[j].key
        OBVIOUS
      <4>2. QED BY <1>3, <1>4, <1>5, <1>9, <4>1
    <3>2. ASSUME NEW x \in {array[j].key : j \in Live(array)}
          PROVE  x \in {new[j].key : j \in Live(new)}
      <4>1. PICK j \in Live(array) : x = array[j].key
        OBVIOUS
      <4>2. new[j].key = x /\ j \in Live(new)
        BY <1>3, <1>4, <1>5, <1>6, <1>9, <4>1
      <4>3. QED BY <4>2
    <3>3. k \in {new[j].key : j \in Live(new)}
      BY <1>3, <1>4, <1>9
    <3>4. QED BY <3>1, <3>2, <3>3
  <2>2. QED BY <2>1 DEF FoundIn
<1>11. ASSUME k \notin Irreflexive PROVE ContentsOf(new)[k] = r.value
  <2>1. i \in Live(new) /\ new[i].key = k
    BY <1>3, <1>4, <1>9
  <2>2. QED BY <1>3, <1>4, <1>11, <2>1, ContentsAt DEF WellProbed
<1>12. ASSUME NEW x \in FoundIn(array), x # k
       PROVE  ContentsOf(new)[x] = ContentsOf(array)[x]
  <2>1. PICK j \in Live(array) : array[j].key = x /\ x \notin Irreflexive
    BY DEF FoundIn
  <2>2. j # i
    BY <1>6, <1>12, <2>1
  <2>3. j \in Live(new) /\ new[j] = array[j]
    BY <1>3, <1>4, <1>5, <2>2
  <2>4. ContentsOf(array)[x] = array[j].value
    BY <2>1, ContentsAt DEF WellProbed
  <2>5. ContentsOf(new)[x] = new[j].value
    BY <1>3, <2>1, <2>3, ContentsAt DEF WellProbed
  <2>6. QED BY <2>3, <2>4, <2>5
<1>13. ContentsOf(new) = [x \in FoundIn(new) |-> ContentsOf(new)[x]]
       /\ ContentsOf(array) = [x \in FoundIn(array) |-> ContentsOf(array)[x]]
  BY DEF ContentsOf
<1>14. CASE k \in Irreflexive
  <2>1. \A x \in FoundIn(array) : x # k
    BY <1>7, <1>14
  <2>2. QED BY <1>10, <1>12, <1>13, <1>14, <2>1 DEF new, i, k
<1>15. CASE k \notin Irreflexive
  <2>1. FoundIn(new) = FoundIn(array) \cup {k}
    BY <1>10, <1>15
  <2>2. \A x \in FoundIn(new) :
            ContentsOf(new)[x] = IF x = k THEN r.value ELSE ContentsOf(array)[x]
    BY <1>11, <1>12, <1>15, <2>1
  <2>3. ContentsOf(new) = [x \in FoundIn(array) \cup {k} |->
                            IF x = k THEN r.value ELSE ContentsOf(array)[x]]
    BY <1>13, <2>1, <2>2
  <2>4. QED BY <1>15, <2>3 DEF new, i, k
<1>16. QED BY <1>14, <1>15

(* Every step of the table is the step of the map its call makes, or one     *)
(* that a caller cannot see.                                               *)
LEMMA MapStep == TableInv /\ TableInv' /\ [Next]_vars => [Abstract!Next]_<<Contents, reply>>
<1> SUFFICES ASSUME TableInv, TableInv', [Next]_vars
             PROVE  [Abstract!Next]_<<Contents, reply>>
  OBVIOUS
<1>1. entries \in Array(capacity) /\ capacity \in Nat /\ WellProbed(entries, capacity)
  BY DEF TableInv, TypeOK, OneEntryPerKey, ProbesUnbroken, WellProbed
<1>2. FoundIn(entries) = DOMAIN Contents
  BY DEF Contents, ContentsOf
<1>3. ASSUME UNCHANGED <<entries, reply>> PROVE [Abstract!Next]_<<Contents, reply>>
  BY <1>3 DEF Contents
<1>4. ASSUME NEW k \in Keys, pc = "ready", Answers(k)
      PROVE  /\ Present(k) <=> k \in DOMAIN Contents
             /\ Present(k) => Contents[k] = entries[FindEntry(entries, capacity, k)].value
  <2>1. CASE count = 0
    <3>1. Live(entries) = {}
      BY <1>1, <1>4, <2>1, LiveIsFinite, FS_EmptySet DEF TableInv, CountIsLive
    <3>2. QED BY <1>2, <2>1, <3>1 DEF Present, FoundIn
  <2>2. CASE count # 0
    <3>1. capacity # 0
      <4>1. ASSUME capacity = 0 PROVE FALSE
        <5>1. Live(entries) = {}
          BY <1>1, <4>1 DEF Array, Live
        <5>2. QED BY <1>4, <2>2, <5>1, FS_EmptySet DEF TableInv, CountIsLive
      <4>2. QED BY <4>1
    <3>2. /\ entries[FindEntry(entries, capacity, k)].key # Empty <=> k \in FoundIn(entries)
          /\ k \in FoundIn(entries) =>
                ContentsOf(entries)[k] = entries[FindEntry(entries, capacity, k)].value
      BY <1>1, <1>4, <2>2, <3>1, FoundWhenPresent DEF Answers
    <3>3. QED BY <1>2, <2>2, <3>2 DEF Present, Contents
  <2>3. QED BY <2>1, <2>2
<1>5. ASSUME NEW r \in todo, Place(r) PROVE Abstract!Put(r.key, r.value)
  <2>1. capacity \in Nat \ {0} /\ r \in [key : Keys, value : Values]
    BY <1>5 DEF TableInv, TypeOK, RoomLeft, Place
  <2> DEFINE i == FindEntry(entries, capacity, r.key)
  <2>2. /\ ~Diverges(entries, capacity, r.key)
        /\ entries' = [entries EXCEPT ![i] = r]
        /\ reply' = Reply("set", entries[i].key = Empty, Nil)
    BY <1>5 DEF Place
  <2>3. entries[i].key # Empty <=> r.key \in FoundIn(entries)
    BY <1>1, <2>1, <2>2, FoundWhenPresent
  <2>4. reply' = Abstract!Reply("set", r.key \notin DOMAIN Contents, Nil)
    <3>1. (entries[i].key = Empty) = (r.key \notin DOMAIN Contents)
      BY <1>2, <2>3
    <3>2. QED BY <2>2, <3>1 DEF Reply, Abstract!Reply
  <2>5. Contents' = IF r.key \in Irreflexive THEN Contents
                    ELSE [x \in DOMAIN Contents \cup {r.key} |->
                            IF x = r.key THEN r.value ELSE Contents[x]]
    <3>1. ContentsOf([entries EXCEPT ![i] = r]) =
            IF r.key \in Irreflexive THEN ContentsOf(entries)
            ELSE [x \in FoundIn(entries) \cup {r.key} |->
                    IF x = r.key THEN r.value ELSE ContentsOf(entries)[x]]
      BY <1>1, <2>1, <2>2, WritePuts
    <3> HIDE DEF i
    <3>2. ContentsOf(entries') = ContentsOf([entries EXCEPT ![i] = r])
      BY <2>2
    <3>3. QED BY <1>2, <3>1, <3>2 DEF Contents
  <2>6. QED BY <2>4, <2>5 DEF Abstract!Put
<1>6. ASSUME NEW r \in todo, Place(r) PROVE [Abstract!Next]_<<Contents, reply>>
  <2>1. r.key \in Keys /\ r.value \in Values
    BY DEF TableInv, TypeOK
  <2>2. QED BY <1>5, <1>6, <2>1 DEF Abstract!Next
<1>7. ASSUME NEW k \in Keys, Get(k) PROVE [Abstract!Next]_<<Contents, reply>>
  <2>1. Contents' = Contents
    BY <1>7 DEF Get, Contents
  <2>2. reply' = IF k \in DOMAIN Contents THEN Reply("get", TRUE, Contents[k])
                                          ELSE Reply("get", FALSE, Nil)
    BY <1>4, <1>7 DEF Get
  <2>3. Abstract!Get(k)
    BY <2>1, <2>2 DEF Abstract!Get, Abstract!Reply, Reply
  <2>4. QED BY <2>3 DEF Abstract!Next
<1>8. ASSUME NEW k \in Keys, Delete(k) PROVE [Abstract!Next]_<<Contents, reply>>
  <2> DEFINE i == FindEntry(entries, capacity, k)
  <2>1. (Present(k) <=> k \in DOMAIN Contents) /\ pc = "ready"
    BY <1>4, <1>8 DEF Delete
  <2>2. reply' = Abstract!Reply("delete", k \in DOMAIN Contents, Nil)
    <3>1. Present(k) = (k \in DOMAIN Contents)
      BY <2>1 DEF Present
    <3>2. QED BY <1>8, <3>1 DEF Delete, Reply, Abstract!Reply
  <2>3. Contents' = [x \in DOMAIN Contents \ {k} |-> Contents[x]]
    <3>1. CASE ~Present(k)
      <4>1. entries' = entries /\ DOMAIN Contents \ {k} = DOMAIN Contents
        BY <1>8, <2>1, <3>1 DEF Delete
      <4>2. Contents = [x \in DOMAIN Contents |-> Contents[x]]
        BY DEF Contents, ContentsOf
      <4>3. QED BY <4>1, <4>2 DEF Contents
    <3>2. CASE Present(k)
      <4>1. k \in FoundIn(entries) /\ count # 0 /\ ~Diverges(entries, capacity, k)
        BY <1>2, <1>8, <2>1, <3>2 DEF Delete, Answers, Present
      <4>2. capacity # 0
        BY <1>1, <4>1 DEF FoundIn, Live, Array
      <4>3. i \in 0..capacity-1 /\ i \in Live(entries) /\ entries[i].key = k
        BY <1>1, <4>1, <4>2, FoundWhenPresent
      <4>4. entries' = [entries EXCEPT ![i] = Tombstone]
        BY <1>8, <3>2 DEF Delete
      <4> HIDE DEF i
      <4>5. Tombstone.key = Empty /\ k \notin Irreflexive
        BY <4>1 DEF Tombstone, FoundIn
      <4>6. DOMAIN entries' = DOMAIN entries /\ entries'[i] = Tombstone
            /\ \A j \in DOMAIN entries : j # i => entries'[j] = entries[j]
        BY <1>1, <4>3, <4>4 DEF Array
      <4>7. Live(entries') = Live(entries) \ {i}
        BY <4>5, <4>6 DEF Live
      <4>8. \A j \in Live(entries') : j \in Live(entries) /\ j # i /\ entries'[j] = entries[j]
        BY <4>6, <4>7 DEF Live
      <4>9. \A j \in Live(entries') : entries[j].key # k
        BY <1>1, <4>3, <4>5, <4>8 DEF WellProbed, Unique, Equal
      <4>10. FoundIn(entries') = FoundIn(entries) \ {k}
        <5>1. ASSUME NEW x \in FoundIn(entries') PROVE x \in FoundIn(entries) \ {k}
          <6>1. PICK j \in Live(entries') : entries'[j].key = x /\ x \notin Irreflexive
            BY DEF FoundIn
          <6>2. QED BY <4>8, <4>9, <6>1 DEF FoundIn
        <5>2. ASSUME NEW x \in FoundIn(entries) \ {k} PROVE x \in FoundIn(entries')
          <6>1. PICK j \in Live(entries) : entries[j].key = x /\ x \notin Irreflexive
            BY DEF FoundIn
          <6>2. j \in Live(entries')
            BY <4>3, <4>7, <6>1
          <6>3. QED BY <4>8, <6>1, <6>2 DEF FoundIn
        <5>3. QED BY <5>1, <5>2
      <4>11. ASSUME NEW x \in FoundIn(entries')
             PROVE  ContentsOf(entries')[x] = ContentsOf(entries)[x]
        <5>1. PICK j \in Live(entries') : entries'[j].key = x /\ x \notin Irreflexive
          BY DEF FoundIn
        <5>2. Unique(entries')
          BY DEF TableInv, OneEntryPerKey
        <5>3. ContentsOf(entries')[x] = entries'[j].value
          BY <5>1, <5>2, ContentsAt
        <5>4. ContentsOf(entries)[x] = entries[j].value
          BY <1>1, <4>8, <5>1, ContentsAt DEF WellProbed
        <5>5. QED BY <4>8, <5>3, <5>4
      <4>12. ContentsOf(entries') = [x \in FoundIn(entries') |-> ContentsOf(entries')[x]]
        BY DEF ContentsOf
      <4>13. ContentsOf(entries') = [x \in FoundIn(entries) \ {k} |-> ContentsOf(entries)[x]]
        BY <4>10, <4>11, <4>12
      <4>14. QED BY <1>2, <4>13 DEF Contents
    <3>3. QED BY <3>1, <3>2
  <2>4. Abstract!Remove(k)
    BY <2>2, <2>3 DEF Abstract!Remove
  <2>5. QED BY <2>4 DEF Abstract!Next
<1>9. ASSUME NEW k \in Strings, FindString(k) PROVE [Abstract!Next]_<<Contents, reply>>
  <2>1. Contents' = Contents
    BY <1>9 DEF FindString, Contents
  <2>2. k \in Keys \ Irreflexive /\ k # Empty
    BY KeysAssumption
  <2>3. FindsString(k) => k \in DOMAIN Contents
    <3>1. SUFFICES ASSUME FindsString(k) PROVE k \in FoundIn(entries)
      BY <1>2
    <3>2. PICK d \in 0..capacity-1 : entries[Slot(k, d, capacity)].key = k
      BY <3>1 DEF FindsString
    <3>3. Slot(k, d, capacity) \in 0..capacity-1
      BY <1>1, <2>2, <3>2, SlotInRange
    <3>4. Slot(k, d, capacity) \in Live(entries)
      BY <1>1, <2>2, <3>2, <3>3 DEF Live, Array
    <3>5. QED BY <2>2, <3>2, <3>4 DEF FoundIn
  <2>4. (count # 0 /\ FindsString(k)) \in {FALSE, (k \in DOMAIN Contents)}
    BY <2>3 DEF FindsString
  <2>5. reply' = Abstract!Reply("find", count # 0 /\ FindsString(k), Nil)
    BY <1>9 DEF FindString, Reply, Abstract!Reply
  <2>6. Abstract!Find(k)
    BY <2>1, <2>4, <2>5 DEF Abstract!Find
  <2>7. QED BY <2>2, <2>6 DEF Abstract!Next
<1>10. ASSUME Free PROVE [Abstract!Next]_<<Contents, reply>>
  <2>1. Live(entries') = {}
    BY <1>10, NewArrayFacts DEF Free
  <2>2. FoundIn(entries') = {}
    BY <2>1 DEF FoundIn
  <2>3. Contents' = [x \in {} |-> Nil]
    BY <2>2 DEF Contents, ContentsOf
  <2>4. Abstract!Clear
    BY <1>10, <2>3 DEF Free, Reply, Abstract!Clear, Abstract!Reply
  <2>5. QED BY <2>4 DEF Abstract!Next
<1>11. ASSUME EndGrow PROVE [Abstract!Next]_<<Contents, reply>>
  <2>1. pc = "grow" /\ moved = capacity /\ entries' = fresh /\ reply' = reply
    BY <1>11 DEF EndGrow
  <2>2. {j \in Live(entries) : j < moved} = Live(entries)
    <3>1. \A j \in Live(entries) : j < moved
      BY <1>1, <2>1 DEF Live, Array
    <3>2. QED BY <3>1
  <2>3. {fresh[x] : x \in Live(fresh)} = {entries[x] : x \in Live(entries)}
    BY <2>1, <2>2 DEF TableInv, RehashKeepsEntries
  <2>4. ContentsOf(fresh) = ContentsOf(entries)
    BY <2>3, SameEntriesSameContents DEF TableInv, OneEntryPerKey
  <2>5. QED BY <2>1, <2>4 DEF Contents
<1>12. QED
  BY <1>3, <1>6, <1>7, <1>8, <1>9, <1>10, <1>11
     DEF Next, SetStep, Set, AddAll, Begin, BeginGrow, SkipGrow, SkipEmpty,
         MoveEntry, Spin, vars

(* The table is a finite map: what its calls answer is what the map's calls  *)
(* answer, growing is invisible, and a key not equal to itself is lost.     *)
THEOREM TableImplementsMap == Spec => ImplementsMap
<1>1. Init => Abstract!Init
  <2> SUFFICES ASSUME Init PROVE Abstract!Init
    OBVIOUS
  <2>1. Live(entries) = {}
    BY NewArrayFacts DEF Init
  <2>2. FoundIn(entries) = {}
    BY <2>1 DEF FoundIn
  <2>3. Contents = [x \in {} |-> Nil]
    BY <2>2 DEF Contents, ContentsOf
  <2>4. reply = Abstract!Reply("init", TRUE, Nil)
    BY DEF Init, Reply, Abstract!Reply
  <2>5. QED BY <2>3, <2>4 DEF Abstract!Init
<1>2. QED
  BY <1>1, MapStep, TableInvariant, PTL DEF Spec, ImplementsMap, Abstract!Spec
=============================================================================
