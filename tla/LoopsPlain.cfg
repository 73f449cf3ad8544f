SPECIFICATION LoopsSpec
CONSTANTS
    MaxStatements = 5
    Captures = {TRUE, FALSE}
    Programs = {}
INVARIANTS StackIsScope ClosesItsVariable LoopsKeepTheirJumps
CHECK_DEADLOCK FALSE
