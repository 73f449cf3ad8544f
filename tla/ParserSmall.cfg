SPECIFICATION Spec
CONSTANTS
    Sources <- MCSources
    Alphabets = {"arithmetic", "comparison", "targets", "arguments", "branches", "loops", "functions",
                 "parameters", "classes", "initializers", "receivers", "words", "recovery"}
    ARG_MAX = 2
INVARIANTS AcceptsPrograms RefusesNoProgram
PROPERTY CompileReturns
CHECK_DEADLOCK FALSE
