------------------------------ MODULE MCParser ------------------------------
(***************************************************************************)
(* The grammar of the language, as a table of rules, and the programs it has  *)
(* with the code each of them should become; Parser is compared with them.    *)
(***************************************************************************)
EXTENDS Parser, SequencesExt, TLC

CONSTANT Alphabets      \* names of the sources this instance tries

(* Each alphabet asks for its own kind of program: tokens it has at will, twice  *)
(* at most, and once; how many tokens, and how many after an error.           *)
MCSources ==
    LET w == "identifier"
        Has(name, freely, twice, once, length, after) ==
            IF name \in Alphabets
            THEN {[tokens |-> [t \in freely \cup twice \cup once |->
                                IF t \in once THEN 1 ELSE IF t \in twice THEN 2 ELSE length],
                   length |-> length, after |-> after]}
            ELSE {}
    IN  Has("arithmetic", {w, "*", "-", ";"}, {}, {"(", ")"}, 7, 0)
        \cup Has("comparison", {w, "<", ">=", "==", "!=", "and", "or", ";"}, {}, {"!"}, 6, 0)
        \cup Has("targets", {w, "=", "+", ".", ";"}, {}, {"(", ")", "[", "]"}, 7, 0)
        \cup Has("arguments", {w, "(", ")", ",", ";"}, {}, {"."}, 8, 0)
        \cup Has("branches", {"nil"}, {"if", "else", "(", ")", ";"}, {}, 13, 0)
        \cup Has("loops", {w, ";"}, {}, {"while", "for", "break", "continue", "(", ")"}, 9, 0)
        \cup Has("functions", {w, ";"}, {}, {"func", "return", "(", ")", "{", "}"}, 9, 0)
        \cup Has("parameters", {w, ","}, {}, {"func", "(", ")", "{", "}"}, 12, 0)
        \cup Has("classes", {w}, {"{", "}"}, {"class", "<", "(", ")"}, 10, 0)
        \cup Has("initializers", {}, {"init", "{", "}"}, {"class", "return", "(", ")", ";"}, 12, 0)
        \cup Has("receivers", {"this", "super", ".", w, ";"}, {}, {"(", ")"}, 7, 0)
        \cup Has("words", {"print", "var", "=", "nil", "number", "~", "%", "^", ";", "/*"}, {}, {}, 5, 0)
        \cup Has("recovery", {"class", "func", "if", w, "(", ")", "{", "}", ";", "/*"}, {}, {}, 4, 4)

-----------------------------------------------------------------------------
(* A rule: what it derives, from what, and what is built of the values of its  *)
(* parts.  An empty op hands the values on.                                 *)
Rule(of, parts, op) == [of |-> of, parts |-> parts, op |-> op]
Token(t) == [of |-> "token", as |-> t]
NT(of) == [of |-> of, as |-> ""]
In(of, context) == [of |-> of, as |-> context]

Contexts == {"script", "script loop", "function", "function loop",
             "initializer", "initializer loop"}
Looping(context) ==
    IF context \in {"script", "function", "initializer"} THEN context \o " loop" ELSE context

LeftBinary(of, tighter, ops) ==
    {Rule(NT(of), <<NT(of), Token(t), NT(tighter)>>, t) : t \in ops}
    \cup {Rule(NT(of), <<NT(tighter)>>, "")}

RightBinary(of, tighter, t) ==
    {Rule(NT(of), <<NT(tighter), Token(t), NT(of)>>, t), Rule(NT(of), <<NT(tighter)>>, "")}

Names == {Token("identifier"), Token("init")}

ExpressionRules ==
    LET E == NT("expression")
        P == NT("call")
    IN  UNION {
        {Rule(NT("primary"), <<x>>, "get") : x \in Names},
        {Rule(NT("primary"), <<Token(t)>>, t) : t \in Literals \cup {"this"}},
        {Rule(NT("primary"), <<Token("("), E, Token(")")>>, "")},
        {Rule(NT("primary"), <<Token("super"), Token("."), x>>, "get super") : x \in Names},
        {Rule(NT("primary"), <<Token("super"), Token("."), x>> \o a, "super invoke") :
            x \in Names, a \in {<<Token("("), Token(")")>>, <<Token("("), NT("arguments"), Token(")")>>}},
        {Rule(P, <<NT("primary")>>, "")},
        {Rule(P, <<P>> \o a, "call") :
            a \in {<<Token("("), Token(")")>>, <<Token("("), NT("arguments"), Token(")")>>}},
        {Rule(P, <<P, Token("."), x>> \o a, "invoke") :
            x \in Names,
            a \in {<<Token("("), Token(")")>>, <<Token("("), NT("arguments"), Token(")")>>}},
        {Rule(P, <<P, Token("."), x>>, "get property") : x \in Names},
        {Rule(P, <<P, Token("["), E, Token("]")>>, "table get")},
        {Rule(NT("unary"), <<Token(t), NT("unary")>>, t) : t \in {"-", "!"}},
        {Rule(NT("unary"), <<Token("~"), NT("unary")>>, "")},
        {Rule(NT("unary"), <<P>>, "")},
        LeftBinary("factor", "unary", {"*", "/", "%"}),
        LeftBinary("term", "factor", {"+", "-", "<<", ">>"}),
        LeftBinary("comparison", "term", {"<", "<=", ">", ">="}),
        LeftBinary("equality", "comparison", {"==", "!="}),
        RightBinary("conjunction", "equality", "and"),
        RightBinary("disjunction", "conjunction", "or"),
        {Rule(E, <<NT("disjunction")>>, "")},
        {Rule(E, <<x, Token("="), E>>, "set") : x \in Names},
        {Rule(E, <<P, Token("."), x, Token("="), E>>, "set property") : x \in Names},
        {Rule(E, <<P, Token("["), E, Token("]"), Token("="), E>>, "table set")},
        {Rule(NT("arguments"), <<E>>, ""),
         Rule(NT("arguments"), <<NT("arguments"), Token(","), E>>, "list")}}

StatementRules(context) ==
    LET E == NT("expression")
        S == In("statement", context)
        B == In("statement", Looping(context))
        V == NT("variable")
    IN  UNION {
        {Rule(S, <<Token("print"), E, Token(";")>>, "print"),
         Rule(S, <<E, Token(";")>>, "pop"),
         Rule(S, <<Token("if"), Token("("), E, Token(")"), S>>, "if"),
         Rule(S, <<Token("if"), Token("("), E, Token(")"), S, Token("else"), S>>, "if"),
         Rule(S, <<Token("while"), Token("("), E, Token(")"), B>>, "while"),
         Rule(S, <<In("block", context)>>, ""),
         Rule(In("block", context), <<Token("{"), Token("}")>>, "block"),
         Rule(In("block", context), <<Token("{"), In("declarations", context), Token("}")>>, "block"),
         Rule(In("declarations", context), <<In("declaration", context)>>, ""),
         Rule(In("declarations", context),
              <<In("declarations", context), In("declaration", context)>>, "list"),
         Rule(In("declaration", context), <<S>>, ""),
         Rule(In("declaration", context), <<V>>, ""),
         Rule(In("declaration", context), <<NT("class")>>, "")},
        {Rule(In("declaration", context), <<Token("func"), x, In("function", "function")>>, "") : x \in Names},
        {Rule(S, <<Token("for"), Token("("), NT("for initializer"), NT("for condition"),
                   NT("for increment"), B>>, "for")},
        IF context = Looping(context)
        THEN {Rule(S, <<Token(t), Token(";")>>, t) : t \in {"break", "continue"}} ELSE {},
        IF context \notin {"script", "script loop"}
        THEN {Rule(S, <<Token("return"), Token(";")>>, "return")} ELSE {},
        IF context \in {"function", "function loop"}
        THEN {Rule(S, <<Token("return"), E, Token(";")>>, "return")} ELSE {}}

DeclarationRules ==
    LET E == NT("expression")
        V == NT("variable")
        C == NT("class body")
        Parts(p) == {<<>>, <<p>>}
    IN  UNION {
        {Rule(V, <<Token("var"), x, Token(";")>>, "var nil") : x \in Names},
        {Rule(V, <<Token("var"), x, Token("="), E, Token(";")>>, "var") : x \in Names},
        {Rule(NT("for initializer"), <<V>>, ""),
         Rule(NT("for initializer"), <<Token(";")>>, "none"),
         Rule(NT("for initializer"), <<E, Token(";")>>, "pop"),
         Rule(NT("for condition"), <<Token(";")>>, "none"),
         Rule(NT("for condition"), <<E, Token(";")>>, ""),
         Rule(NT("for increment"), <<Token(")")>>, "none"),
         Rule(NT("for increment"), <<E, Token(")")>>, "")},
        {Rule(NT("parameters"), <<x>>, "parameter") : x \in Names},
        {Rule(NT("parameters"), <<NT("parameters"), Token(","), x>>, "parameters") : x \in Names},
        {Rule(In("function", type), <<Token("(")>> \o p \o <<Token(")"), In("block", type)>>, "function") :
            type \in {"function", "initializer"}, p \in Parts(NT("parameters"))},
        {Rule(NT("class"), <<Token("class"), x, Token("{")>> \o C1 \o <<Token("}")>>, "class") :
            x \in Names, C1 \in Parts(C)},
        {Rule(NT("class"), <<Token("class"), x, Token("<"), y, Token("{")>> \o C1 \o <<Token("}")>>,
              "subclass") : x \in Names, y \in Names, C1 \in Parts(C)},
        {Rule(NT("method"), <<Token("identifier"), In("function", "function")>>, ""),
         Rule(NT("method"), <<Token("init"), In("function", "initializer")>>, ""),
         Rule(C, <<NT("method")>>, ""), Rule(C, <<C, NT("method")>>, "list")},
        {Rule(NT("program"), <<Token("eof")>>, "program"),
         Rule(NT("program"), <<In("declarations", "script"), Token("eof")>>, "program")}}

(* What a phrase becomes, given the values of its parts.                    *)
Build(op, v) ==
    CASE op \in {"", "list"} -> v
      [] op = "!=" -> << <<"!", <<"==">> \o v>> >>
      [] op = ">=" -> << <<"!", <<"<">> \o v>> >>
      [] op = "<=" -> << <<"!", <<">">> \o v>> >>
      [] op = "get super" -> << <<op, <<"this">>, <<"super">> >> >>
      [] op = "super invoke" -> << <<op, <<"this">> >> \o v \o << <<"super">> >> >>
      [] op = "var nil" -> << <<"var", <<"nil">> >> >>
      [] op = "parameters" -> Append(v, <<"parameter">>)
      [] op = "class" -> << <<op, <<"none">> >> \o v>>
      [] op = "subclass" -> << <<"class", <<"get">> >> \o v>>
      [] OTHER -> << <<op>> \o v>>

(* Derived symbols in an order in which a rule with a single part comes after   *)
(* that part.                                                              *)
Order ==
    <<NT("primary"), NT("call"), NT("unary"), NT("factor"), NT("term"), NT("comparison"),
      NT("equality"), NT("conjunction"), NT("disjunction"), NT("expression"),
      NT("arguments"), NT("variable"), NT("for initializer"), NT("for condition"),
      NT("for increment"), NT("parameters")>>
    \o FoldLeft(LAMBDA s, c : s \o <<In("block", c), In("statement", c)>>, <<>>, SetToSeq(Contexts))
    \o <<In("function", "function"), In("function", "initializer"), NT("method"),
         NT("class body"), NT("class")>>
    \o FoldLeft(LAMBDA s, c : s \o <<In("declaration", c), In("declarations", c)>>, <<>>, SetToSeq(Contexts))
    \o <<NT("program")>>

Rules == ExpressionRules \cup DeclarationRules \cup UNION {StatementRules(c) : c \in Contexts}

(* The phrases of n tokens that the parts derive, given all shorter phrases.   *)
RECURSIVE Phrases(_, _, _, _)
Phrases(parts, n, table, tokens) ==
    IF parts = <<>> THEN IF n = 0 THEN {[t |-> <<>>, v |-> <<>>]} ELSE {}
    ELSE IF n < Len(parts) THEN {}
    ELSE LET part == Head(parts)
         IN  IF part.of = "token"
             THEN IF part.as \notin tokens THEN {}
                  ELSE {[t |-> <<part.as>> \o p.t, v |-> p.v] :
                            p \in Phrases(Tail(parts), n - 1, table, tokens)}
             ELSE UNION {{[t |-> q.t \o p.t, v |-> q.v \o p.v] :
                            q \in table[k][part], p \in Phrases(Tail(parts), n - k, table, tokens)} :
                            k \in 1 .. n - Len(parts) + 1}

Derive(symbol, n, table, tokens) ==
    UNION {{[t |-> p.t, v |-> Build(r.op, p.v)] : p \in Phrases(r.parts, n, table, tokens)} :
            r \in {r \in Rules : r.of = symbol}}

(* What a source can hold; at most ARG_MAX arguments, or parameters.          *)
Limited(symbol, phrases, most) ==
    {p \in phrases :
        /\ \A t \in ToSet(p.t) : Cardinality({i \in DOMAIN p.t : p.t[i] = t}) <= most[t]
        /\ symbol.of \in {"arguments", "parameters"} => Len(p.v) <= ARG_MAX}

Row(n, table, most) ==
    FoldLeft(LAMBDA tab, symbol :
                [tab EXCEPT ![n] =
                    (symbol :> Limited(symbol, Derive(symbol, n, tab, DOMAIN most), most)) @@ @],
             Append(table, <<>>), Order)[n]

RECURSIVE Table(_, _)
Table(n, most) ==
    IF n = 0 THEN <<>>
    ELSE LET table == Table(n - 1, most) IN Append(table, Row(n, table, most))

(* The programs a source may be, with an end.                               *)
ProgramsOf ==
    [s \in Sources |->
        LET table == Table(s.length + 1, s.tokens @@ ("eof" :> 1))
        IN  UNION {table[n][NT("program")] : n \in 1 .. s.length + 1}]

PrefixesOf ==
    [s \in Sources |-> UNION {{SubSeq(p.t, 1, k) : k \in 0 .. Len(p.t)} : p \in ProgramsOf[s]}]

-----------------------------------------------------------------------------
(* What compile() accepts is a program of the grammar, and the code it returns *)
(* is the code of that program: operators take the operands the precedences     *)
(* say, else belongs to the nearest if, arguments and methods are all there.   *)
AcceptsPrograms ==
    Returned /\ ~had_error => [t |-> read, v |-> operands] \in ProgramsOf[source]

(* An error is reported only where no program goes on as the source does.     *)
(* Uses of `this` and `super` may always be refused (current_class is not set).  *)
RefusesNoProgram ==
    had_error /\ read # <<>> =>
        \/ \E i \in 1 .. Len(read) : read[i] \in {"this", "super"}
        \/ read \notin PrefixesOf[source]
=============================================================================
