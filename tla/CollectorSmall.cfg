\* Three objects with up to two references each.
SPECIFICATION FairSpec
CONSTANTS
    Objects = {o1, o2, o3}
    MaxKids = 2
INVARIANTS
    TypeOK
    NothingDangles
    MarksAwaitTracing
PROPERTIES
    ImplementsGc
    InternedForEver
    CollectionEnds
