SPECIFICATION Spec
CONSTANTS
    A = A
    B = B
    init = init
    talk = talk
    Variables = {A, B}
    Names = {init, talk}
    InitName = init
    FieldNames = {talk}
    VariableKinds = {"class", "instance"}
    FieldKinds = {"class", "bound"}
    ClassBound = 3
    InstanceBound = 1
    CallBound = 2
INVARIANTS CopiesAreLookups SuperIsNextInLine
PROPERTIES ImplementsDispatch
SYMMETRY Symmetry
