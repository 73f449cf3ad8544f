------------------------------- MODULE Table -------------------------------
(***************************************************************************)
(* table.c: the open-addressing hash table behind the globals, the interned *)
(* strings, method tables, instance fields and the language's own tables.   *)
(*                                                                         *)
(* One action per call.  table_set is the one call with steps of its own:   *)
(* the load test, the entry-by-entry move of adjust_capacity, and the write *)
(* through find_entry.  A probe that no slot ever ends leaves the call in    *)
(* "diverged" for good: `while (1)` in find_entry has no other exit.        *)
(***************************************************************************)
EXTENDS Integers, FiniteSets

CONSTANTS
    Keys,                   \* the values used as keys
    Irreflexive,            \* keys value_equal never matches: NaN, non-string objects
    Strings,                \* keys that are strings
    Values,
    Empty,                  \* EMPTY_VAL, the key of a slot that holds no binding
    Nil, True,              \* the values that tell a never-used slot from a tombstone
    Hash,                   \* hash_value, as a function on Keys
    TABLE_MAX_LOAD,
    TABLE_MIN_CAPACITY,
    TABLE_GROWTH_FACTOR,
    MaxEntries              \* bound: live entries the environment lets a table reach

ASSUME KeysAssumption ==
    /\ Irreflexive \subseteq Keys
    /\ Strings \subseteq Keys \ Irreflexive
    /\ Empty \notin Keys
    /\ Hash \in [Keys -> Nat]

ASSUME ValuesAssumption == Nil \in Values /\ True \in Values /\ Nil # True

(* What the three macros have to satisfy for a growing table to have room:   *)
(* a table of the least capacity is over the load before it is full.        *)
ASSUME SizesAssumption ==
    /\ TABLE_MIN_CAPACITY \in Nat \ {0}
    /\ TABLE_GROWTH_FACTOR \in Nat \ {0, 1}
    /\ TABLE_MAX_LOAD \in 1..99
    /\ 100 * (TABLE_MIN_CAPACITY - 1) >= TABLE_MIN_CAPACITY * (TABLE_MAX_LOAD + 1)

ASSUME BoundAssumption == MaxEntries \in Nat

VARIABLES
    count,          \* table->count
    capacity,       \* table->capacity
    entries,        \* table->entries, [0 .. capacity-1 -> Entry]
    pc,             \* where the running call is
    todo,           \* the bindings the running call still has to set
    fresh,          \* the array adjust_capacity is filling
    moved,          \* adjust_capacity's i
    reply           \* the last call that returned, and its answer

vars == <<count, capacity, entries, pc, todo, fresh, moved, reply>>

-----------------------------------------------------------------------------
(* Slots and probes.                                                       *)

Entry == [key : Keys \cup {Empty}, value : Values]

NeverUsed == [key |-> Empty, value |-> Nil]
Tombstone == [key |-> Empty, value |-> True]

Array(size) == [0..size-1 -> Entry]
NewArray(size) == [i \in 0..size-1 |-> NeverUsed]

(* The slots of an array that hold a binding.                              *)
Live(array) == {i \in DOMAIN array : array[i].key # Empty}

(* Fault: objects and NaN compared by their bits.                          *)
EqualBits(a, b) == a = b

(* value_equal: equal, and of a type that has an equality.                 *)
Equal(a, b) == a = b /\ a \notin Irreflexive

Home(k, size) == Hash[k] % size

(* The slot a probe for k looks at after d steps, wrapping at the end.     *)
Slot(k, d, size) ==
    IF Home(k, size) + d < size THEN Home(k, size) + d ELSE Home(k, size) + d - size

(* Slot i ends the search for k: it was never used, or it holds k.          *)
Ends(array, k, i) == array[i] = NeverUsed \/ Equal(k, array[i].key)

(* find_entry's search for k stops after exactly d steps.                  *)
StopsAt(array, size, k, d) ==
    /\ Ends(array, k, Slot(k, d, size))
    /\ \A e \in 0..d-1 : ~Ends(array, k, Slot(k, e, size))

(* No slot ends the search: the probe goes round for ever.                 *)
Diverges(array, size, k) == ~\E d \in 0..size-1 : StopsAt(array, size, k, d)

(* The first slot holding no binding that a probe of d steps has passed.   *)
FirstEmpty(array, size, k, d) ==
    CHOOSE e \in 0..d :
        /\ array[Slot(k, e, size)].key = Empty
        /\ \A f \in 0..e-1 : array[Slot(k, f, size)].key # Empty

(* Fault: the first slot that holds nothing is taken at once.              *)
FindEntryEager(array, size, k) ==
    LET Hit(d) == array[Slot(k, d, size)].key = Empty \/ Equal(k, array[Slot(k, d, size)].key)
        d == CHOOSE d \in 0..size-1 : Hit(d) /\ \A e \in 0..d-1 : ~Hit(e)
    IN  Slot(k, d, size)

(* The slot find_entry returns: the one that holds k, or else the first one *)
(* it saw -- a tombstone or the never-used slot -- that k could go into.    *)
FindEntry(array, size, k) ==
    LET d == CHOOSE d \in 0..size-1 : StopsAt(array, size, k, d)
    IN  IF array[Slot(k, d, size)] = NeverUsed
        THEN Slot(k, FirstEmpty(array, size, k, d), size)
        ELSE Slot(k, d, size)

(* Fault: the division before the multiplication.                          *)
LoadRoundedFirst ==
    IF capacity = 0 THEN TABLE_MAX_LOAD + 1 ELSE 100 * (count \div capacity)

Load == IF capacity = 0 THEN TABLE_MAX_LOAD + 1 ELSE (100 * count) \div capacity

NextSize ==
    IF capacity < TABLE_MIN_CAPACITY THEN TABLE_MIN_CAPACITY
                                     ELSE capacity * TABLE_GROWTH_FACTOR

Reply(op, ok, v) == [op |-> op, ok |-> ok, value |-> v]

-----------------------------------------------------------------------------
Init ==
    /\ count = 0
    /\ capacity = 0
    /\ entries = NewArray(0)
    /\ pc = "ready"
    /\ todo = {}
    /\ fresh = NewArray(0)
    /\ moved = 0
    /\ reply = Reply("init", TRUE, Nil)

Free ==
    /\ pc = "ready"
    /\ count' = 0
    /\ capacity' = 0
    /\ entries' = NewArray(0)
    /\ reply' = Reply("free", TRUE, Nil)
    /\ UNCHANGED <<pc, todo, fresh, moved>>

-----------------------------------------------------------------------------
(* table_set, and table_add_all as the sets it makes.                      *)

Begin(work) ==
    /\ pc = "ready"
    /\ count + Cardinality(work) <= MaxEntries
    /\ todo' = work
    /\ pc' = "check"
    /\ UNCHANGED <<count, capacity, entries, fresh, moved, reply>>

Set(k, v) == Begin({[key |-> k, value |-> v]})

(* from: the bindings of the other table, whose keys are strings where      *)
(* OP_INHERIT calls it.                                                    *)
AddAll(from) == Begin({[key |-> k, value |-> from[k]] : k \in DOMAIN from})

BeginGrow ==
    /\ pc = "check"
    /\ Load > TABLE_MAX_LOAD
    /\ fresh' = NewArray(NextSize)
    /\ count' = 0
    /\ moved' = 0
    /\ pc' = "grow"
    /\ UNCHANGED <<capacity, entries, todo, reply>>

SkipGrow ==
    /\ pc = "check"
    /\ Load <= TABLE_MAX_LOAD
    /\ pc' = "place"
    /\ UNCHANGED <<count, capacity, entries, todo, fresh, moved, reply>>

SkipEmpty ==
    /\ pc = "grow"
    /\ moved < capacity
    /\ entries[moved].key = Empty
    /\ moved' = moved + 1
    /\ UNCHANGED <<count, capacity, entries, pc, todo, fresh, reply>>

(* Fault: the entries are copied, not placed by their new homes.            *)
MoveEntryAsIs ==
    /\ pc = "grow"
    /\ moved < capacity
    /\ entries[moved].key # Empty
    /\ fresh' = [fresh EXCEPT ![moved] = entries[moved]]
    /\ count' = count + 1
    /\ moved' = moved + 1
    /\ UNCHANGED <<capacity, entries, pc, todo, reply>>

MoveEntry ==
    /\ pc = "grow"
    /\ moved < capacity
    /\ entries[moved].key # Empty
    /\ fresh' = [fresh EXCEPT ![FindEntry(fresh, NextSize, entries[moved].key)] = entries[moved]]
    /\ count' = count + 1
    /\ moved' = moved + 1
    /\ UNCHANGED <<capacity, entries, pc, todo, reply>>

(* Fault: table->entries = entries is forgotten.                           *)
EndGrowKeepsArray ==
    /\ pc = "grow"
    /\ moved = capacity
    /\ capacity' = NextSize
    /\ fresh' = NewArray(0)
    /\ moved' = 0
    /\ pc' = "place"
    /\ UNCHANGED <<count, entries, todo, reply>>

EndGrow ==
    /\ pc = "grow"
    /\ moved = capacity
    /\ entries' = fresh
    /\ capacity' = NextSize
    /\ fresh' = NewArray(0)
    /\ moved' = 0
    /\ pc' = "place"
    /\ UNCHANGED <<count, todo, reply>>

(* Fault: every set counts, overwrites too.                                *)
PlaceCountsAll(r) ==
    /\ pc = "place"
    /\ ~Diverges(entries, capacity, r.key)
    /\ LET i == FindEntry(entries, capacity, r.key)
       IN  /\ entries' = [entries EXCEPT ![i] = r]
           /\ reply' = Reply("set", entries[i].key = Empty, Nil)
    /\ count' = count + 1
    /\ todo' = todo \ {r}
    /\ pc' = IF todo = {r} THEN "ready" ELSE "check"
    /\ UNCHANGED <<capacity, fresh, moved>>

(* find_entry, then the write; table_add_all goes on to its next binding.  *)
Place(r) ==
    /\ pc = "place"
    /\ ~Diverges(entries, capacity, r.key)
    /\ LET i == FindEntry(entries, capacity, r.key)
           isNew == entries[i].key = Empty
       IN  /\ entries' = [entries EXCEPT ![i] = r]
           /\ count' = IF isNew THEN count + 1 ELSE count
           /\ reply' = Reply("set", isNew, Nil)
    /\ todo' = todo \ {r}
    /\ pc' = IF todo = {r} THEN "ready" ELSE "check"
    /\ UNCHANGED <<capacity, fresh, moved>>

-----------------------------------------------------------------------------
(* The calls that only look, and table_delete.                             *)

Present(k) == count # 0 /\ entries[FindEntry(entries, capacity, k)].key # Empty

(* The call returns: its table is empty, or its probe comes to an end.      *)
Answers(k) == count = 0 \/ ~Diverges(entries, capacity, k)

Get(k) ==
    /\ pc = "ready"
    /\ Answers(k)
    /\ reply' = IF Present(k)
                THEN Reply("get", TRUE, entries[FindEntry(entries, capacity, k)].value)
                ELSE Reply("get", FALSE, Nil)
    /\ UNCHANGED <<count, capacity, entries, pc, todo, fresh, moved>>

Delete(k) ==
    /\ pc = "ready"
    /\ Answers(k)
    /\ IF Present(k)
       THEN /\ count' = count - 1
            /\ entries' = [entries EXCEPT ![FindEntry(entries, capacity, k)] = Tombstone]
       ELSE UNCHANGED <<count, entries>>
    /\ reply' = Reply("delete", Present(k), Nil)
    /\ UNCHANGED <<capacity, pc, todo, fresh, moved>>

(* Fault: table_find_string looks at the home slot only.                   *)
FindStopsAtOnce(k, i) == TRUE

(* table_find_string stops at the first slot that holds no string, a        *)
(* tombstone included, or that holds the string it looks for.              *)
FindStops(k, i) == entries[i].key \notin Strings \/ entries[i].key = k

FindsString(k) ==
    \E d \in 0..capacity-1 :
        /\ entries[Slot(k, d, capacity)].key = k
        /\ \A e \in 0..d-1 : ~FindStops(k, Slot(k, e, capacity))

FindString(k) ==
    /\ pc = "ready"
    /\ reply' = Reply("find", count # 0 /\ FindsString(k), Nil)
    /\ UNCHANGED <<count, capacity, entries, pc, todo, fresh, moved>>

(* A call whose probe no slot ends.  (A probe of the array being filled     *)
(* always ends: the array has room, invariant RoomLeft.)                   *)
Spin ==
    /\ \/ pc = "ready" /\ \E k \in Keys : ~Answers(k)
       \/ pc = "place" /\ \E r \in todo : Diverges(entries, capacity, r.key)
    /\ pc' = "diverged"
    /\ UNCHANGED <<count, capacity, entries, todo, fresh, moved, reply>>

-----------------------------------------------------------------------------
Sources == UNION {[S -> Values] : S \in (SUBSET Strings) \ {{}}}

SetStep == BeginGrow \/ SkipGrow \/ SkipEmpty \/ MoveEntry \/ EndGrow \/ \E r \in todo : Place(r)

Next ==
    \/ \E k \in Keys, v \in Values : Set(k, v)
    \/ \E from \in Sources : AddAll(from)
    \/ SetStep
    \/ \E k \in Keys : Get(k) \/ Delete(k)
    \/ \E k \in Strings : FindString(k)
    \/ Spin
    \/ Free

Spec == Init /\ [][Next]_vars

-----------------------------------------------------------------------------
(* Properties.                                                             *)

(* Every variable keeps its type; the arrays are as long as the counters    *)
(* that bound their probes say.                                            *)
TypeOK ==
    /\ count \in Nat
    /\ capacity \in Nat
    /\ entries \in Array(capacity)
    /\ pc \in {"ready", "check", "grow", "place", "diverged"}
    /\ todo \subseteq [key : Keys, value : Values]
    /\ fresh \in Array(IF pc = "grow" THEN NextSize ELSE 0)
    /\ moved \in 0..capacity
    /\ reply \in [op : {"init", "set", "get", "delete", "find", "free"},
                  ok : BOOLEAN, value : Values]

(* table->count is the number of bindings, tombstones left out, through     *)
(* every overwrite, reuse of a tombstone, delete and rehash: the early       *)
(* `count == 0` returns and the load test rely on it.                      *)
CountIsLive == count = Cardinality(Live(IF pc = "grow" THEN fresh ELSE entries))

(* A key that can be found has one entry: a set that reuses a tombstone     *)
(* first makes sure the key is not further along the probe.                *)
Unique(array) ==
    \A i, j \in Live(array) : Equal(array[i].key, array[j].key) => i = j

OneEntryPerKey == Unique(entries) /\ Unique(fresh)

(* No never-used slot lies between a key's home and its entry, so that the  *)
(* search for it cannot give up early: what tombstones are for.            *)
Reachable(array, size) ==
    \A i \in Live(array) : array[i].key \notin Irreflexive =>
        \E d \in 0..size-1 :
            /\ Slot(array[i].key, d, size) = i
            /\ \A e \in 0..d-1 : array[Slot(array[i].key, e, size)] # NeverUsed

ProbesUnbroken ==
    /\ Reachable(entries, capacity)
    /\ pc = "grow" => Reachable(fresh, NextSize)

(* A table with room in it, and room for the binding about to be placed:    *)
(* table_set tests the load before the write, not after it.                *)
RoomLeft ==
    /\ pc # "grow" /\ capacity # 0 => count < capacity
    /\ pc = "grow" => count < NextSize - 1
    /\ pc = "place" => count < capacity - 1

(* The entries the rehash has passed are in the new array, and no others.   *)
RehashKeepsEntries ==
    pc = "grow" =>
        {fresh[i] : i \in Live(fresh)} = {entries[i] : i \in {j \in Live(entries) : j < moved}}

(* Every slot that holds no binding was never used.                        *)
NoTombstones(array) == \A i \in DOMAIN array : array[i].key = Empty => array[i] = NeverUsed

(* Nothing but tombstones makes a search go round for ever: while no slot is *)
(* one -- in the interned strings, in method tables, in the fields of an     *)
(* instance -- the room the load factor leaves is never-used slots.        *)
OnlyTombstonesSpin == pc = "diverged" => ~NoTombstones(entries)

(* The string a caller looks for by its content is found if it is a key, in  *)
(* a table like vm->strings: string keys only, nothing deleted.             *)
FindsWhatIsThere ==
    pc = "ready" /\ NoTombstones(entries) /\ (\A i \in Live(entries) : entries[i].key \in Strings) =>
        \A i \in Live(entries) : FindsString(entries[i].key)

(* What the callers see: the bindings of the entries that can be found.     *)
FoundIn(array) == {array[i].key : i \in Live(array)} \ Irreflexive

ContentsOf(array) ==
    [k \in FoundIn(array) |-> array[CHOOSE i \in Live(array) : array[i].key = k].value]

Contents == ContentsOf(entries)

Abstract == INSTANCE Map WITH map <- Contents

(* Every call that returns does what it would do to a finite map, and says  *)
(* so; growing changes nothing a caller can see.                           *)
ImplementsMap == Abstract!Spec
=============================================================================
