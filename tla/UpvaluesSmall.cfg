SPECIFICATION Spec
CONSTANTS
    Nil = nil
    Values = {nil, one}
    Main = main
    Closures = {main, c1, c2}
    Upvalues = {u1, u2}
    Variables = {1, 2, 3, 4, 5, 6, 7}
    STACK_MAX = 4
    FRAMES_MAX = 2
    MaxCaptures = 2
    MaxArgs = 1
    PopsCaptured = FALSE
    FailsOpen = FALSE
SYMMETRY Symmetry
CHECK_DEADLOCK FALSE
INVARIANTS TypeOK OpenSorted OpenAreLive
PROPERTY ImplementsCells
