SPECIFICATION Spec
CONSTANTS
    Identifiers <- OneName
    UINT8_MAX = 2
    MaxFunctions = 3
    MaxLevel = 1
    MaxTargets = 1
INVARIANTS TypeOK UpvaluesLead UpvaluesDistinct InstructionsLead
PROPERTY ImplementsLexical
