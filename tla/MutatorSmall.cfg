\* Three objects in use while the machine runs; the compiler needs a fourth.
SPECIFICATION Spec
CONSTANTS
    Objects = {o1, o2, o3, o4}
    None = None
    StringsGrow = FALSE
    MaxStack = 3
    MaxKids = 2
    MaxCompilers = 2
    MaxStrings = 1
    MaxRunning = 3
SYMMETRY Symmetry
INVARIANTS HandsAreRooted NothingDangles
