SPECIFICATION Spec
CONSTANTS
    A = A
    B = B
    fun = fun
    init = init
    talk = talk
    shout = shout
    initName = initName
    talkName = talkName
    Main = main
    Classes = {A, B}
    Closures = {main, fun, init, talk, shout}
    Names = {initName, talkName}
    InitName = initName
    Arity <- MCArity
    Methods <- MCMethods
    Ancestors <- MCAncestors
    FRAMES_MAX = 3
    StackBound = 5
    ArgBound = 1
    MethodsRead = FALSE
INVARIANTS TypeOK MethodsKnowThis
PROPERTY ImplementsCalls
