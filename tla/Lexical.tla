------------------------------ MODULE Lexical -------------------------------
(***************************************************************************)
(* What a name in the source stands for: the variable of that name declared  *)
(* last among those in scope, in the functions from the innermost outwards.  *)
(* Scope implements this with indices into arrays of locals and upvalues.    *)
(***************************************************************************)
EXTENDS Naturals, Sequences

CONSTANT Names      \* what a name in the source may be, `this' and `super' included

VARIABLES
    functions,  \* from the script inwards: the scope level, and the variables in scope
    answer,     \* the variable that a name in the source stands for
    error       \* the first error reported

vars == <<functions, answer, error>>

None == <<>>
Global == <<0, 0>>      \* a name without a declaration

Variable(name, scope, ready) ==
    [name |-> name, scope |-> scope, ready |-> ready, taken |-> FALSE]

(* A function starts in the scope of its parameters; a method has `this'.     *)
NewFunction(self, level) ==
    [level |-> level, variables |-> <<Variable(self, 0, TRUE)>>]

Init ==
    /\ functions = <<NewFunction("this", 0)>>
    /\ answer = None
    /\ error = ""

F == Len(functions)
Innermost == functions[F]
Same == answer = None /\ answer' = None

Begin ==
    /\ Same
    /\ \E self \in {"this", ""} : functions' = Append(functions, NewFunction(self, 1))
    /\ UNCHANGED error

End ==
    /\ Same
    /\ F > 1
    /\ functions' = SubSeq(functions, 1, F - 1)
    /\ UNCHANGED error

Enter ==
    /\ Same
    /\ functions' = [functions EXCEPT ![F].level = @ + 1]
    /\ UNCHANGED error

(* Exactly the variables of the innermost scope go.                         *)
Exit ==
    /\ Same
    /\ \E k \in 0 .. Len(Innermost.variables) :
        /\ \A i \in DOMAIN Innermost.variables :
              (i <= k) <=> (Innermost.variables[i].scope < Innermost.level)
        /\ functions' =
              [functions EXCEPT ![F] = [level |-> @.level - 1,
                                        variables |-> SubSeq(@.variables, 1, k)]]
    /\ UNCHANGED error

Redeclared(name) ==
    \E i \in DOMAIN Innermost.variables :
        /\ Innermost.variables[i].name = name
        /\ Innermost.variables[i].scope = Innermost.level

(* Outside all scopes a name is global and not declared.                    *)
Declare(name, ready) ==
    /\ Same
    /\ Innermost.level > 0
    /\ IF Redeclared(name)
       THEN error' = "redeclared"
       ELSE /\ functions' =
                  [functions EXCEPT ![F].variables = Append(@, Variable(name, Innermost.level, ready))]
            /\ UNCHANGED error

Define ==
    /\ Same
    /\ functions' = [functions EXCEPT ![F].variables[Len(Innermost.variables)].ready = TRUE]
    /\ UNCHANGED error

(* The variable at i in function n is the one that name stands for.          *)
Means(name, n, i) ==
    /\ functions[n].variables[i].name = name
    /\ \A j \in DOMAIN functions[n].variables : j > i => functions[n].variables[j].name # name
    /\ \A m \in DOMAIN functions : m > n =>
            \A j \in DOMAIN functions[m].variables : functions[m].variables[j].name # name

Resolve(name) ==
    /\ answer = None
    /\ \/ \E n \in DOMAIN functions : \E i \in DOMAIN functions[n].variables :
            /\ Means(name, n, i)
            /\ IF functions[n].variables[i].ready
               THEN /\ answer' = <<n, i>>
                    /\ functions' = [functions EXCEPT ![n].variables[i].taken = @ \/ n < F]
                    /\ UNCHANGED error
               ELSE error' = "own initializer"
       \/ /\ \A n \in DOMAIN functions : \A i \in DOMAIN functions[n].variables :
                functions[n].variables[i].name # name
          /\ answer' = Global
          /\ UNCHANGED <<functions, error>>

Resolved ==
    /\ answer' = None
    /\ UNCHANGED <<functions, error>>

(* A limit of the compiler may be reached at any time.                       *)
Limit == error' = "limit"

(* After an error the code is thrown away, and nothing matters any more.      *)
Next ==
    \/ /\ error = ""
       /\ \/ Begin \/ End \/ Enter \/ Exit \/ Define \/ Resolved \/ Limit
          \/ \E name \in Names : Resolve(name) \/ \E ready \in BOOLEAN : Declare(name, ready)
    \/ error # "" /\ error' = error

Spec == Init /\ [][Next]_vars
=============================================================================
