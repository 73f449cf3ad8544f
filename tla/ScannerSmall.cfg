SPECIFICATION Spec
CONSTANTS
    Sources <- MCSources
INVARIANTS TypeOK LinesCount TokensOfTheSource
PROPERTY ScanEnds
CHECK_DEADLOCK FALSE
