------------------------------- MODULE Parser -------------------------------
(***************************************************************************)
(* parser.c and the functions of compiler.c that read the source: recursive *)
(* descent over the token under the cursor, precedences, and recovery after  *)
(* an error.  The scanner decides lazily what the next token is.            *)
(*                                                                         *)
(* The C stack is todo, a sequence of what the functions in progress have    *)
(* still to do.  The code they emit is a sequence of trees: an instruction   *)
(* takes its operands off the end, as it will take their values off the     *)
(* stack when it runs.  Names are the matter of Scope: here no two clash.   *)
(***************************************************************************)
EXTENDS Naturals, Sequences, FiniteSets

CONSTANTS
    Sources,        \* what sources are made of: how often they may have each token,
                    \* how many tokens in all, and how many after the first error
    ARG_MAX

ASSUME ParserAssumption ==
    /\ \A s \in Sources : s.length \in Nat /\ s.after \in Nat
    /\ ARG_MAX \in Nat \ {0}

VARIABLES
    source,         \* an element of Sources
    left,           \* how many tokens the source may still have
    previous, current,
    had_error, panic,
    functions,      \* the compilers from the script inwards
    todo,           \* the work of the functions in progress, next piece first
    operands,       \* the code emitted, as long as there was no error
    read            \* ghost: the tokens read, up to the first error

parserVars == <<source, left, previous, current, had_error, panic, read>>
vars == <<parserVars, functions, todo, operands>>

(* Where the source ends within a block comment the scanner has error tokens  *)
(* without end, and parser_advance waits for another kind.                  *)
Unterminated == "/*"

(* A token of a kind; "init" is the identifier that names an initializer.    *)
Is(token, kind) == token = kind \/ (kind = "identifier" /\ token = "init")

-----------------------------------------------------------------------------
(* Pieces of work.                                                         *)

Do(function) == [do |-> function, what |-> "", n |-> 0]
With(function, n) == [do |-> function, what |-> "", n |-> n]
Consume(kind) == [do |-> "consume", what |-> kind, n |-> 0]
Emit(op, n) == [do |-> "emit", what |-> op, n |-> n]
Arguments(op, n) == [do |-> "arguments", what |-> op, n |-> n]
Function(type) == [do |-> "function", what |-> type, n |-> 0]

PREC_NONE == 0
PREC_ASSIGNMENT == 1
PREC_OR == 2
PREC_AND == 3
PREC_EQUALITY == 4
PREC_COMPARISON == 5
PREC_TERM == 6
PREC_FACTOR == 7
PREC_UNARY == 8
PREC_CALL == 9

Precedence(n) == With("precedence", n)
Expression == Precedence(PREC_ASSIGNMENT)

Literals == {"string", "number", "true", "false", "nil"}
StatementKeywords == {"class", "func", "var", "for", "if", "while", "print", "return"}

(* rules[token].precedence                                                 *)
PrecedenceOf(token) ==
    CASE token = "or" -> PREC_OR
      [] token = "and" -> PREC_AND
      [] token \in {"==", "!="} -> PREC_EQUALITY
      [] token \in {"<", "<=", ">", ">="} -> PREC_COMPARISON
      [] token \in {"+", "-", "<<", ">>"} -> PREC_TERM
      [] token \in {"*", "/", "%"} -> PREC_FACTOR
      [] token \in {"(", "[", "."} -> PREC_CALL
      [] OTHER -> PREC_NONE

HasPrefix(token) ==
    \/ Is(token, "identifier")
    \/ token \in Literals \cup {"(", "-", "!", "~", "this", "super"}

(* rules[token].prefix; no instruction is emitted for ~.                    *)
Prefix(token, precedence) ==
    CASE token = "(" -> <<Expression, Consume(")")>>
      [] token \in {"-", "!"} -> <<Precedence(PREC_UNARY), Emit(token, 1)>>
      [] token = "~" -> <<Precedence(PREC_UNARY)>>
      [] Is(token, "identifier") -> <<With("variable", precedence)>>
      [] token \in {"this", "super"} -> <<Do(token)>>
      [] token \in Literals -> <<Emit(token, 0)>>

BinaryCode(token) ==
    CASE token = "!=" -> <<Emit("==", 2), Emit("!", 1)>>
      [] token = ">=" -> <<Emit("<", 2), Emit("!", 1)>>
      [] token = "<=" -> <<Emit(">", 2), Emit("!", 1)>>
      [] OTHER -> <<Emit(token, 2)>>

(* Fault: the right operand takes operators of the same precedence.         *)
InfixRight(token, precedence) ==
    CASE token = "(" -> <<Arguments("call", 0)>>
      [] token = "[" -> <<With("index", precedence)>>
      [] token = "." -> <<Consume("identifier"), With("property", precedence)>>
      [] OTHER -> <<Precedence(PrecedenceOf(token))>> \o BinaryCode(token)

(* rules[token].infix; every token with a precedence has one.               *)
Infix(token, precedence) ==
    CASE token = "(" -> <<Arguments("call", 0)>>
      [] token = "[" -> <<With("index", precedence)>>
      [] token = "." -> <<Consume("identifier"), With("property", precedence)>>
      [] token \in {"and", "or"} -> <<Precedence(PrecedenceOf(token)), Emit(token, 2)>>
      [] OTHER -> <<Precedence(PrecedenceOf(token) + 1)>> \o BinaryCode(token)

-----------------------------------------------------------------------------
(* How a piece of work is done.                                            *)

At(function) ==
    /\ current # Unterminated
    /\ todo # <<>>
    /\ Head(todo).do = function

N == Head(todo).n
What == Head(todo).what

Continue(work) == todo' = work \o Tail(todo)

Upcoming ==
    LET seen(t) == Cardinality({i \in DOMAIN read : read[i] = t})
    IN  {"eof"} \cup
            (IF current = "eof" \/ left = 0 THEN {}
             ELSE {t \in DOMAIN source.tokens : seen(t) < source.tokens[t]})

(* parser_advance, with or without error tokens before the next one.        *)
Advance ==
    \E token \in Upcoming, bad \in (IF current = "eof" \/ left = 0 THEN {FALSE} ELSE BOOLEAN) :
        LET failed == bad \/ token = Unterminated
        IN  /\ previous' = current
            /\ current' = token
            /\ panic' = (panic \/ failed)
            /\ had_error' = (had_error \/ failed)
            /\ left' = IF token = "eof" THEN 0
                       ELSE IF had_error' /\ left > source.after THEN source.after
                       ELSE left - 1
            /\ read' = IF had_error' THEN <<>>
                       ELSE IF current = "eof" THEN read ELSE Append(read, token)
            /\ UNCHANGED source

Look(work) ==
    /\ Continue(work)
    /\ UNCHANGED <<parserVars, functions, operands>>

(* parser_match when the token is there.                                   *)
Take(kind, work) ==
    /\ Is(current, kind)
    /\ Advance
    /\ Continue(work)
    /\ UNCHANGED <<functions, operands>>

IfMatch(kind, yes, no) ==
    \/ Take(kind, yes)
    \/ ~Is(current, kind) /\ Look(no)

(* parser_error_at: a panic keeps quiet.                                    *)
Error(work) ==
    /\ panic' = TRUE
    /\ had_error' = (had_error \/ ~panic)
    /\ Continue(work)
    /\ UNCHANGED <<source, left, previous, current, read, functions, operands>>

ErrorIf(condition, work) ==
    \/ condition /\ Error(work)
    \/ ~condition /\ Look(work)

(* An instruction, or the code of a statement, takes the place of its n       *)
(* operands.                                                               *)
Node(op, n) ==
    operands' =
        IF had_error THEN <<>>
        ELSE LET rest == Len(operands) - n
             IN  Append(SubSeq(operands, 1, rest),
                        <<op>> \o SubSeq(operands, rest + 1, Len(operands)))

DoEmit ==
    /\ At("emit")
    /\ Node(What, N)
    /\ Continue(<<>>)
    /\ UNCHANGED <<parserVars, functions>>

DoConsume ==
    /\ At("consume")
    /\ \/ Take(What, <<>>)
       \/ ~Is(current, What) /\ Error(<<>>)

-----------------------------------------------------------------------------
(* Expressions.                                                            *)

ParserPrecedence ==
    /\ At("precedence")
    /\ Take(current, <<With("prefix", N)>>)

DoPrefix ==
    /\ At("prefix")
    /\ IF HasPrefix(previous)
       THEN Look(Append(Prefix(previous, N), With("infix", N)))
       ELSE Error(<<>>)

DoInfix ==
    /\ At("infix")
    /\ IF N <= PrecedenceOf(current)
       THEN Take(current, Append(Infix(current, N), With("infix", N)))
       ELSE IF N <= PREC_ASSIGNMENT /\ current = "="
       THEN Take("=", <<Do("invalid target")>>)
       ELSE Look(<<>>)

InvalidTarget ==
    /\ At("invalid target")
    /\ Error(<<>>)

(* `=` after something that may be assigned to.                             *)
Assigned == N <= PREC_ASSIGNMENT /\ current = "="

NamedVariable ==
    /\ At("variable")
    /\ IF Assigned
       THEN Take("=", <<Expression, Emit("set", 1)>>)
       ELSE Look(<<Emit("get", 0)>>)

Dot ==
    /\ At("property")
    /\ IF Assigned
       THEN Take("=", <<Expression, Emit("set property", 2)>>)
       ELSE IfMatch("(", <<Arguments("invoke", 0)>>, <<Emit("get property", 1)>>)

Index ==
    /\ At("index")
    /\ ErrorIf(current = "]", <<Expression, Consume("]"), With("element", N)>>)

Element ==
    /\ At("element")
    /\ IF Assigned
       THEN Take("=", <<Expression, Emit("table set", 3)>>)
       ELSE Look(<<Emit("table get", 2)>>)

(* The instruction at the end of n arguments.                              *)
CallCode(op, n) ==
    IF op = "super invoke"
    THEN <<Consume(")"), Emit("super", 0), Emit(op, n + 2)>>
    ELSE <<Consume(")"), Emit(op, n + 1)>>

ArgumentList ==
    /\ At("arguments")
    /\ IF current = ")" /\ N = 0
       THEN Look(CallCode(What, 0))
       ELSE Look(<<Expression, [Head(todo) EXCEPT !.do = "argument"]>>)

(* The count is one byte and goes on from 0 after ARG_MAX.                  *)
Argument ==
    /\ At("argument")
    /\ ErrorIf(N = ARG_MAX,
               <<[do |-> "more arguments", what |-> What, n |-> (N + 1) % (ARG_MAX + 1)]>>)

MoreArguments ==
    /\ At("more arguments")
    /\ IfMatch(",", <<Expression, [Head(todo) EXCEPT !.do = "argument"]>>, CallCode(What, N))

(* compiler_init leaves current_class as it finds it, in every compiler: it   *)
(* may be NULL or not.                                                     *)
This ==
    /\ At("this")
    /\ Error(<<>>) \/ Look(<<Emit("this", 0)>>)

Super ==
    LET work == <<Consume("."), Consume("identifier"), Emit("this", 0), Do("super call")>>
    IN  /\ At("super")
        /\ Error(work) \/ Look(work)

SuperCall ==
    /\ At("super call")
    /\ IfMatch("(", <<Arguments("super invoke", 0)>>,
                    <<Emit("super", 0), Emit("get super", 2)>>)

-----------------------------------------------------------------------------
(* Functions and classes.                                                  *)

compiler == functions[Len(functions)]

DoFunction ==
    /\ At("function")
    /\ functions' = Append(functions, [type |-> What, loops |-> 0])
    /\ Continue(<<Consume("("), Do("parameters")>>)
    /\ UNCHANGED <<parserVars, operands>>

Body(arity) == <<Consume(")"), Consume("{"), With("block", 0), With("end", arity + 1)>>

Parameters ==
    /\ At("parameters")
    /\ Look(IF current = ")" THEN Body(0) ELSE <<With("parameter", 1)>>)

(* Fault: one parameter less.                                              *)
ParameterFewer ==
    /\ At("parameter")
    /\ ErrorIf(N >= ARG_MAX,
               <<Consume("identifier"), Emit("parameter", 0), With("more parameters", N)>>)

Parameter ==
    /\ At("parameter")
    /\ ErrorIf(N > ARG_MAX,
               <<Consume("identifier"), Emit("parameter", 0), With("more parameters", N)>>)

MoreParameters ==
    /\ At("more parameters")
    /\ IfMatch(",", <<With("parameter", N + 1)>>, Body(N))

(* end(), and the closure in the code of the enclosing function.            *)
End ==
    /\ At("end")
    /\ functions' = SubSeq(functions, 1, Len(functions) - 1)
    /\ Node("function", N)
    /\ Continue(<<>>)
    /\ UNCHANGED parserVars

(* The superclass, if any, is the first part of a class.                    *)
Superclass ==
    /\ At("superclass")
    /\ IfMatch("<", <<Consume("identifier"), Emit("get", 0)>>, <<Emit("none", 0)>>)

(* Fault: only a brace ends the class body, not the end of the source.       *)
MethodsToBrace ==
    /\ At("methods")
    /\ Look(IF current = "}"
            THEN <<Consume("}"), Emit("class", N)>>
            ELSE <<Consume("identifier"), Do("method"),
                   With("methods", IF current = "eof" THEN N ELSE N + 1)>>)

Methods ==
    /\ At("methods")
    /\ Look(IF current \in {"}", "eof"}
            THEN <<Consume("}"), Emit("class", N)>>
            ELSE <<Consume("identifier"), Do("method"), With("methods", N + 1)>>)

Method ==
    /\ At("method")
    /\ Look(<<Function(IF previous = "init" THEN "initializer" ELSE "method")>>)

-----------------------------------------------------------------------------
(* Statements.                                                             *)

DoProgram ==
    /\ At("program")
    /\ IfMatch("eof", <<Emit("program", N)>>,
                      <<Do("declaration"), With("program", N + 1)>>)

Block ==
    /\ At("block")
    /\ Look(IF current \in {"}", "eof"}
            THEN <<Consume("}"), Emit("block", N)>>
            ELSE <<Do("declaration"), With("block", N + 1)>>)

VarDeclaration ==
    <<Consume("identifier"), Do("initializer"), Consume(";"), Emit("var", 1)>>

ExpressionStatement == <<Expression, Consume(";"), Emit("pop", 1)>>

Declaration ==
    /\ At("declaration")
    /\ \/ Take("class", <<Consume("identifier"), Do("superclass"), Consume("{"),
                          With("methods", 1), Do("recover")>>)
       \/ Take("func", <<Consume("identifier"), Function("function"), Do("recover")>>)
       \/ Take("var", Append(VarDeclaration, Do("recover")))
       \/ /\ current \notin {"class", "func", "var"}
          /\ Look(<<Do("statement"), Do("recover")>>)

Initializer ==
    /\ At("initializer")
    /\ IfMatch("=", <<Expression>>, <<Emit("nil", 0)>>)

Statement ==
    /\ At("statement")
    /\ \/ Take("print", <<Expression, Consume(";"), Emit("print", 1)>>)
       \/ Take("for", <<Do("loop"), Consume("("), Do("for initializer"), Do("for condition"),
                        Do("for increment"), Do("statement"), Do("end loop"), Emit("for", 4)>>)
       \/ Take("if", <<Consume("("), Expression, Consume(")"), Do("statement"), Do("else")>>)
       \/ Take("return", <<Do("return")>>)
       \/ Take("while", <<Do("loop"), Consume("("), Expression, Consume(")"),
                          Do("statement"), Do("end loop"), Emit("while", 2)>>)
       \/ Take("break", <<Consume(";"), Do("break")>>)
       \/ Take("continue", <<Consume(";"), Do("continue")>>)
       \/ Take("{", <<With("block", 0)>>)
       \/ /\ current \notin {"print", "for", "if", "return", "while", "break", "continue", "{"}
          /\ Look(ExpressionStatement)

(* compiler->block is set to a loop, and to the loop around it again.       *)
Loop ==
    /\ At("loop")
    /\ functions' = [functions EXCEPT ![Len(functions)].loops = @ + 1]
    /\ Continue(<<>>)
    /\ UNCHANGED <<parserVars, operands>>

EndLoop ==
    /\ At("end loop")
    /\ functions' = [functions EXCEPT ![Len(functions)].loops = @ - 1]
    /\ Continue(<<>>)
    /\ UNCHANGED <<parserVars, operands>>

ForInitializer ==
    /\ At("for initializer")
    /\ \/ Take("var", VarDeclaration)
       \/ Take(";", <<Emit("none", 0)>>)
       \/ current \notin {"var", ";"} /\ Look(ExpressionStatement)

ForCondition ==
    /\ At("for condition")
    /\ IfMatch(";", <<Emit("none", 0)>>, <<Expression, Consume(";")>>)

ForIncrement ==
    /\ At("for increment")
    /\ IfMatch(")", <<Emit("none", 0)>>, <<Expression, Consume(")")>>)

Else ==
    /\ At("else")
    /\ IfMatch("else", <<Do("statement"), Emit("if", 3)>>, <<Emit("if", 2)>>)

Return ==
    /\ At("return")
    /\ ErrorIf(compiler.type = "script", <<Do("return value")>>)

ReturnValue ==
    /\ At("return value")
    /\ \/ Take(";", <<Emit("return", 0)>>)
       \/ /\ current # ";"
          /\ ErrorIf(compiler.type = "initializer",
                     <<Expression, Consume(";"), Emit("return", 1)>>)

(* break_statement and continue_statement                                  *)
Leave(statement) ==
    /\ At(statement)
    /\ IF compiler.loops = 0 THEN Error(<<>>) ELSE Look(<<Emit(statement, 0)>>)

-----------------------------------------------------------------------------
(* Recovery at the end of a declaration: parser_synchronize.                *)

Recover ==
    /\ At("recover")
    /\ IF panic
       THEN /\ panic' = FALSE
            /\ Continue(<<Do("synchronize")>>)
            /\ UNCHANGED <<source, left, previous, current, had_error, read, functions, operands>>
       ELSE Look(<<>>)

Synchronize ==
    /\ At("synchronize")
    /\ IF current = "eof" \/ previous = ";" \/ current \in StatementKeywords
       THEN Look(<<>>)
       ELSE Take(current, <<Do("synchronize")>>)

-----------------------------------------------------------------------------
(* compile() up to the end of parser_init; the tokens of a zeroed parser      *)
(* are left parentheses.                                                   *)
Init ==
    /\ source \in Sources
    /\ left = source.length
    /\ previous = "("
    /\ current = "("
    /\ had_error = FALSE
    /\ panic = FALSE
    /\ functions = <<[type |-> "script", loops |-> 0]>>
    /\ todo = <<Do("init"), With("program", 0)>>
    /\ operands = <<>>
    /\ read = <<>>

ParserInit ==
    /\ At("init")
    /\ Take(current, <<>>)

ExpressionStep ==
    \/ ParserPrecedence \/ DoPrefix \/ DoInfix \/ InvalidTarget
    \/ NamedVariable \/ Dot \/ Index \/ Element
    \/ ArgumentList \/ Argument \/ MoreArguments
    \/ This \/ Super \/ SuperCall

FunctionStep ==
    \/ DoFunction \/ Parameters \/ Parameter \/ MoreParameters \/ End
    \/ Superclass \/ Methods \/ Method

StatementStep ==
    \/ DoProgram \/ Block \/ Declaration \/ Initializer \/ Statement
    \/ Loop \/ EndLoop \/ ForInitializer \/ ForCondition \/ ForIncrement
    \/ Else \/ Return \/ ReturnValue \/ Leave("break") \/ Leave("continue")

Next ==
    \/ ParserInit \/ DoEmit \/ DoConsume
    \/ ExpressionStep \/ FunctionStep \/ StatementStep
    \/ Recover \/ Synchronize

(* compile() runs until it returns.                                        *)
Spec == Init /\ [][Next]_vars /\ WF_vars(Next)

-----------------------------------------------------------------------------
(* Properties.                                                             *)

Returned == todo = <<>>

(* compile() comes to an end on every source, however wrong: after any error   *)
(* some function takes another token or gives way to one that does.  The one  *)
(* exception is a source that ends within a block comment.                  *)
CompileReturns == <>(Returned \/ current = Unterminated)
=============================================================================
