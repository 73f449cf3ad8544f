\* vm->strings may grow while a new string is put into it.
SPECIFICATION Spec
CONSTANTS
    Objects = {o1, o2, o3, o4}
    None = None
    StringsGrow = TRUE
    MaxStack = 3
    MaxKids = 2
    MaxCompilers = 2
    MaxStrings = 1
    MaxRunning = 3
SYMMETRY Symmetry
INVARIANT HandsAreRooted
