SPECIFICATION LoopsSpec
CONSTANTS
    MaxStatements = 3
    Captures = {FALSE}
    Programs = {"nested"}
INVARIANTS LoopsKeepTheirJumps
CHECK_DEADLOCK FALSE
