\* Calls of every kind on a table with tombstones.
SPECIFICATION Spec
CONSTANTS
    Keys <- SmallKeys
    Hash <- SmallHash
    Irreflexive = {"nan"}
    Strings = {"str1", "str2"}
    Values = {Nil, True}
    Empty = Empty
    Nil = Nil
    True = True
    TABLE_MAX_LOAD = 50
    TABLE_MIN_CAPACITY = 4
    TABLE_GROWTH_FACTOR = 2
    MaxEntries = 4
INVARIANTS
    TypeOK
    CountIsLive
    OneEntryPerKey
    ProbesUnbroken
    OnlyTombstonesSpin
    FindsWhatIsThere
PROPERTIES
    ImplementsMap
\* A probe that never ends stops the program.
CHECK_DEADLOCK FALSE
