-------------------------------- MODULE Scope -------------------------------
(***************************************************************************)
(* Names, scopes and closures in the compiler (compiler.c): every function   *)
(* being compiled has an array of locals, whose positions are slots of its    *)
(* frame, and an array of upvalues, each taken from a local or an upvalue of   *)
(* the function around it.  Positions count from 1.                         *)
(*                                                                         *)
(* The source chooses which declaration, statement or name comes next.       *)
(* Compilation goes on after an error, though its code is thrown away.       *)
(***************************************************************************)
EXTENDS Integers, Sequences

CONSTANTS
    Identifiers,        \* names that a program may declare
    UINT8_MAX,
    MaxFunctions,       \* bound: functions nested, the script included
    MaxLevel,           \* bound: scopes and classes nested in a function
    MaxTargets          \* bound: assignments within assignments

ASSUME ScopeAssumption ==
    /\ UINT8_MAX \in Nat \ {0}
    /\ Identifiers \cap {"this", "super", ""} = {}
    /\ MaxFunctions \in Nat /\ MaxLevel \in Nat /\ MaxTargets \in Nat

VARIABLES
    functions,      \* the compilers, from the script to current
    phase,          \* where the grammar stands in current
    search,         \* named_variable in progress
    targets,        \* assignments whose value is being compiled
    error           \* the first error reported

vars == <<functions, phase, search, targets, error>>

Names == Identifiers \cup {"this", "super"}

Uninitialized == -1

Local(name, level) == [name |-> name, level |-> level, captured |-> FALSE]

(* Fault: every upvalue is taken from the frame of the function around.       *)
UpvalueOfFrame(index, is_local, of) == [index |-> index, is_local |-> TRUE, of |-> of]

(* of is a ghost: the local that the upvalue stands for, as <<function, slot>>. *)
Upvalue(index, is_local, of) == [index |-> index, is_local |-> is_local, of |-> of]

Global == <<0, 0>>

F == Len(functions)
compiler == functions[F]

Report(message) == error' = IF error = "" THEN message ELSE error

-----------------------------------------------------------------------------
(* Declarations.                                                           *)

(* declare_variable looks from the last local down to an outer scope.         *)
Redeclares(c, name) ==
    \E i \in DOMAIN c.locals :
        /\ c.locals[i].name = name
        /\ \A j \in i .. Len(c.locals) :
              c.locals[j].level = Uninitialized \/ c.locals[j].level >= c.level

(* Fault: one local too many.                                              *)
FullLate(c) == Len(c.locals) > UINT8_MAX + 1

Full(c) == Len(c.locals) > UINT8_MAX

add_local(c, name) ==
    IF Full(c) THEN c ELSE [c EXCEPT !.locals = Append(@, Local(name, Uninitialized))]

mark_initialized(c) ==
    IF c.level = 0 THEN c ELSE [c EXCEPT !.locals[Len(c.locals)].level = c.level]

declare_variable(c, name) == IF c.level = 0 THEN c ELSE add_local(c, name)

DeclareError(c, name) ==
    IF c.level = 0 THEN ""
    ELSE IF Redeclares(c, name) THEN "redeclared"
    ELSE IF Full(c) THEN "limit" ELSE ""

Idle == [step |-> "idle"]

In(place) ==
    /\ search = Idle
    /\ targets = <<>>
    /\ phase = place

VarDeclaration(name) ==
    /\ In("statement")
    /\ functions' = [functions EXCEPT ![F] = declare_variable(@, name)]
    /\ Report(DeclareError(compiler, name))
    /\ phase' = "initializer"
    /\ UNCHANGED <<search, targets>>

DefineVariable ==
    /\ In("initializer")
    /\ functions' = [functions EXCEPT ![F] = mark_initialized(@)]
    /\ phase' = "statement"
    /\ UNCHANGED <<search, targets, error>>

Declared(name) ==
    /\ functions' = [functions EXCEPT ![F] = mark_initialized(declare_variable(@, name))]
    /\ Report(DeclareError(compiler, name))
    /\ UNCHANGED <<search, targets>>

(* A function may refer to itself.                                          *)
FuncDeclaration(name) ==
    /\ In("statement")
    /\ F < MaxFunctions
    /\ Declared(name)
    /\ phase' = "function"

Parameter(name) ==
    /\ In("parameters")
    /\ Declared(name)
    /\ UNCHANGED phase

-----------------------------------------------------------------------------
(* Scopes.                                                                 *)

(* outer is a ghost: the level around what is opened.                       *)
Opened(what, outer) == [what |-> what, outer |-> outer]

Opening(c, what, levels) ==
    [c EXCEPT !.opened = Append(@, Opened(what, c.level)), !.level = @ + levels]

Opens(what, levels) == functions' = [functions EXCEPT ![F] = Opening(@, what, levels)]

Closing(c) == [c EXCEPT !.opened = SubSeq(@, 1, Len(@) - 1)]

Leaving(c, l, k) == [c EXCEPT !.level = l, !.locals = SubSeq(@, 1, k)]

(* scope_exit: locals go from the last one down to one of an outer scope.      *)
scope_exit ==
    LET l == compiler.level - 1
        locals == compiler.locals
    IN  \E k \in 0 .. Len(locals) :
            /\ k # 0 => locals[k].level <= l
            /\ \A i \in k + 1 .. Len(locals) : locals[i].level > l
            /\ functions' = [functions EXCEPT ![F] = Leaving(Closing(@), l, k)]

BlockBegin ==
    /\ In("statement")
    /\ Len(compiler.opened) < MaxLevel
    /\ Opens("block", 1)
    /\ UNCHANGED <<phase, search, targets, error>>

Closes(what) ==
    /\ compiler.opened # <<>>
    /\ compiler.opened[Len(compiler.opened)].what = what

BlockEnd ==
    /\ In("statement")
    /\ Closes("block")
    /\ scope_exit
    /\ UNCHANGED <<phase, search, targets, error>>

-----------------------------------------------------------------------------
(* Functions, methods and classes.                                         *)

(* compiler_init; the type is a function's or another's.                    *)
NewCompiler(type, level) ==
    [type |-> type, level |-> level, opened |-> <<>>, upvalues |-> <<>>,
     locals |-> <<Local(IF type = "function" THEN "" ELSE "this", 0)>>]

Begin(type) ==
    /\ functions' = Append(functions, NewCompiler(type, 1))
    /\ phase' = "parameters"
    /\ UNCHANGED <<search, targets, error>>

FunctionBegin ==
    /\ In("function")
    /\ Begin("function")

MethodBegin ==
    /\ In("class") \/ In("class body")
    /\ Begin("method")

BodyBegin ==
    /\ In("parameters")
    /\ phase' = "statement"
    /\ UNCHANGED <<functions, search, targets, error>>

(* end(); OP_CLOSURE takes the upvalues to the frame of the function around.  *)
End ==
    /\ In("statement")
    /\ F > 1
    /\ compiler.opened = <<>>
    /\ functions' = SubSeq(functions, 1, F - 1)
    /\ phase' = IF compiler.type = "function" THEN "statement" ELSE "class body"
    /\ UNCHANGED <<search, targets, error>>

ClassDeclaration(name) ==
    /\ In("statement")
    /\ F < MaxFunctions /\ Len(compiler.opened) < MaxLevel
    /\ Declared(name)
    /\ phase' = "class name"

ClassBegin ==
    /\ In("class name")
    /\ Opens("class", 0)
    /\ phase' = "class"
    /\ UNCHANGED <<search, targets, error>>

(* The superclass is a local `super' in a scope around the methods.          *)
SubclassBegin ==
    /\ In("class name")
    /\ Opens("subclass", 1)
    /\ phase' = "superclass"
    /\ UNCHANGED <<search, targets, error>>

Superclass ==
    /\ In("superclass")
    /\ functions' = [functions EXCEPT ![F] = mark_initialized(add_local(@, "super"))]
    /\ Report(IF Full(compiler) THEN "limit" ELSE "")
    /\ phase' = "class"
    /\ UNCHANGED <<search, targets>>

ClassEnd ==
    /\ In("class") \/ In("class body")
    /\ \/ Closes("subclass") /\ scope_exit
       \/ Closes("class") /\ functions' = [functions EXCEPT ![F] = Closing(@)]
    /\ phase' = "statement"
    /\ UNCHANGED <<search, targets, error>>

-----------------------------------------------------------------------------
(* Names: named_variable, step by step through the functions around.         *)

Step(step, name, at, index, of) ==
    [step |-> step, name |-> name, at |-> at, index |-> index, of |-> of]

(* Also the names of class declarations, and `this' and `super' wherever they  *)
(* stand: whether they are refused depends on what current_class is.         *)
Use(name) ==
    /\ search = Idle
    /\ phase \in {"statement", "initializer", "class name", "class", "class body"}
    /\ search' = Step("find", name, F, 0, Global)
    /\ UNCHANGED <<functions, phase, targets, error>>

(* Fault: the first one.                                                   *)
First(name, locals, i) ==
    /\ locals[i].name = name
    /\ \A j \in 1 .. i - 1 : locals[j].name # name

Last(name, locals, i) ==
    /\ locals[i].name = name
    /\ \A j \in i + 1 .. Len(locals) : locals[j].name # name

Captured(c, i) == [c EXCEPT !.locals[i].captured = TRUE]

(* resolve_local in the innermost function; then resolve_upvalue has the       *)
(* local of a function around captured.                                     *)
Found ==
    LET n == search.at
        locals == functions[n].locals
    IN  /\ search.step = "find"
        /\ \E i \in DOMAIN locals :
            /\ Last(search.name, locals, i)
            /\ Report(IF locals[i].level = Uninitialized THEN "own initializer" ELSE "")
            /\ IF n = F
               THEN /\ search' = Step("done", search.name, n, i, <<n, i>>)
                    /\ UNCHANGED functions
               ELSE /\ search' = Step("add", search.name, n + 1, i, <<n, i>>)
                    /\ functions' = [functions EXCEPT ![n] = Captured(@, i)]
        /\ UNCHANGED <<phase, targets>>

NotHere ==
    /\ search.step = "find"
    /\ \A i \in DOMAIN functions[search.at].locals :
          functions[search.at].locals[i].name # search.name
    /\ search' = IF search.at = 1
                 THEN Step("done", search.name, F, 0, Global)
                 ELSE Step("find", search.name, search.at - 1, 0, Global)
    /\ UNCHANGED <<functions, phase, targets, error>>

(* The way back: an upvalue in each function, and its index to the next.      *)
Return(index) ==
    search' = IF search.at = F
              THEN Step("done", search.name, F, index, search.of)
              ELSE Step("add", search.name, search.at + 1, index, search.of)

(* Fault: indices of locals and of upvalues are taken for the same.          *)
SameIndex(u, v) == u.index = v.index

(* Fault: an upvalue is made each time.                                     *)
NeverSame(u, v) == FALSE

SameUpvalue(u, v) == u.index = v.index /\ u.is_local = v.is_local

WithUpvalue(c, upvalue) == [c EXCEPT !.upvalues = Append(@, upvalue)]

AddUpvalue ==
    LET n == search.at
        upvalues == functions[n].upvalues
        upvalue == Upvalue(search.index, search.of[1] = n - 1, search.of)
        Same(u) == SameUpvalue(u, upvalue)
    IN  /\ search.step = "add"
        /\ \/ \E i \in DOMAIN upvalues :
                /\ Same(upvalues[i])
                /\ \A j \in 1 .. i - 1 : ~Same(upvalues[j])
                /\ Return(i)
                /\ UNCHANGED <<functions, error>>
           \/ /\ \A i \in DOMAIN upvalues : ~Same(upvalues[i])
              /\ IF Len(upvalues) > UINT8_MAX
                 THEN /\ Return(1)
                      /\ Report("limit")
                      /\ UNCHANGED functions
                 ELSE /\ Return(Len(upvalues) + 1)
                      /\ functions' = [functions EXCEPT ![n] = WithUpvalue(@, upvalue)]
                      /\ UNCHANGED error
        /\ UNCHANGED <<phase, targets>>

(* The instruction that reads it.                                          *)
Get ==
    /\ search.step = "done"
    /\ search' = Idle
    /\ UNCHANGED <<functions, phase, targets, error>>

(* `=' follows: the index is kept while the value, with its names, is compiled. *)
Assign ==
    /\ search.step = "done"
    /\ phase \in {"statement", "initializer"}
    /\ Len(targets) < MaxTargets
    /\ targets' = Append(targets, search)
    /\ search' = Idle
    /\ UNCHANGED <<functions, phase, error>>

Set ==
    /\ search = Idle
    /\ targets # <<>>
    /\ targets' = SubSeq(targets, 1, Len(targets) - 1)
    /\ UNCHANGED <<functions, phase, search, error>>

-----------------------------------------------------------------------------

Init ==
    /\ functions = <<NewCompiler("script", 0)>>
    /\ phase = "statement"
    /\ search = Idle
    /\ targets = <<>>
    /\ error = ""

Resolving == Found \/ NotHere \/ AddUpvalue \/ Get \/ Assign \/ Set

Next ==
    \/ \E name \in Identifiers :
          VarDeclaration(name) \/ FuncDeclaration(name) \/ Parameter(name) \/ ClassDeclaration(name)
    \/ DefineVariable
    \/ BlockBegin \/ BlockEnd
    \/ FunctionBegin \/ MethodBegin \/ BodyBegin \/ End
    \/ ClassBegin \/ SubclassBegin \/ Superclass \/ ClassEnd
    \/ \E name \in Names : Use(name)
    \/ Resolving

Spec == Init /\ [][Next]_vars

-----------------------------------------------------------------------------
(* Properties.                                                             *)

Positions == Nat \X Nat
Levels == Nat \cup {Uninitialized}
Locals == [name : Identifiers \cup {"this", "super", ""}, level : Levels, captured : BOOLEAN]
Upvalues == [index : Nat \ {0}, is_local : BOOLEAN, of : Positions]
Constructs == [what : {"block", "class", "subclass"}, outer : Nat]
Compilers ==
    [type : {"script", "function", "method"}, level : Nat,
     opened : Seq(Constructs), upvalues : Seq(Upvalues), locals : Seq(Locals)]
Steps ==
    [step : {"find", "add", "done"}, name : Names, at : Nat \ {0}, index : Nat, of : Positions]

(* Types, and both arrays of every function stay within their UINT8_MAX + 1     *)
(* elements, whatever errors came before.                                   *)
TypeOK ==
    /\ functions \in Seq(Compilers)
    /\ functions # <<>>
    /\ \A n \in DOMAIN functions :
            /\ Len(functions[n].locals) \in 1 .. UINT8_MAX + 1
            /\ Len(functions[n].upvalues) <= UINT8_MAX + 1
    /\ phase \in {"statement", "initializer", "parameters", "function", "class name",
                  "superclass", "class", "class body"}
    /\ search \in Steps \cup {Idle}
    /\ search # Idle => search.at \in DOMAIN functions
    /\ targets \in Seq(Steps)
    /\ error \in {"", "redeclared", "own initializer", "limit"}

(* The local or upvalue at an index of function n stands for the variable of.  *)
LeadsTo(n, index, is_local, of) ==
    IF is_local
    THEN of = <<n, index>> /\ index \in DOMAIN functions[n].locals
    ELSE index \in DOMAIN functions[n].upvalues /\ functions[n].upvalues[index].of = of

(* What OP_CLOSURE will take for an upvalue, from the frame or the upvalues of  *)
(* the function around, is the variable the upvalue was made for.            *)
UpvaluesLead ==
    error = "" => \A n \in DOMAIN functions : \A i \in DOMAIN functions[n].upvalues :
        LET u == functions[n].upvalues[i]
        IN  n > 1 /\ LeadsTo(n - 1, u.index, u.is_local, u.of)

(* A variable has at most one upvalue in a function: two closures over it share *)
(* a cell, and the limit is one of variables.                               *)
UpvaluesDistinct ==
    error = "" => \A n \in DOMAIN functions : \A i, j \in DOMAIN functions[n].upvalues :
        functions[n].upvalues[i].of = functions[n].upvalues[j].of => i = j

(* The index that an instruction gets is of the variable that the name was      *)
(* resolved to, also for an assignment whose value named other variables since. *)
IndexHolds(s) ==
    s.step = "done" /\ s.of # Global =>
        LeadsTo(F, s.index, s.of[1] = F, s.of)

InstructionsLead ==
    error = "" =>
        /\ search # Idle => IndexHolds(search)
        /\ \A i \in DOMAIN targets : IndexHolds(targets[i])

(* The scopes of the source that the compiler's arrays stand for.            *)
LexicalFunctions ==
    [n \in DOMAIN functions |->
        [level |-> functions[n].level,
         variables |->
            [i \in DOMAIN functions[n].locals |->
                LET local == functions[n].locals[i]
                IN  [name |-> local.name,
                     scope |-> IF local.level = Uninitialized
                               THEN functions[n].level ELSE local.level,
                     ready |-> local.level # Uninitialized,
                     taken |-> local.captured]]]]

LexicalAnswer ==
    IF search = Idle THEN <<>> ELSE IF search.step = "find" THEN <<>> ELSE search.of

L == INSTANCE Lexical WITH functions <- LexicalFunctions, answer <- LexicalAnswer

(* Every name resolves to the variable declared last in scope, the variables     *)
(* of a scope and no others go with it, those that inner functions use are known *)
(* when they go, and errors are reported for what is wrong in the source.       *)
ImplementsLexical == L!Spec
=============================================================================
