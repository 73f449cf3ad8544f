------------------------------ MODULE Mutator ------------------------------
(***************************************************************************)
(* The places that allocate, against the collector's roots.  Any call of    *)
(* reallocate that asks for more may run gc_collect, which looks at the      *)
(* machine and at the compilers and not at the C variables of the function    *)
(* that is allocating.  Each place is the list of what it does to its C      *)
(* variables and to the roots; the collection is Gc's, one step (Collector    *)
(* implements it).  Objects have no kind here: a place may meet any objects  *)
(* its C variables could lead to.                                          *)
(***************************************************************************)
EXTENDS Reach, Integers, FiniteSets, SequencesExt

CONSTANTS
    Objects,            \* addresses
    None,               \* no object
    StringsGrow,        \* whether vm->strings may be at its load limit
    MaxStack,           \* bound: values on the stack
    MaxKids,            \* bound: references an object holds
    MaxCompilers,       \* bound: functions open at once
    MaxStrings,         \* bound: strings interned
    MaxRunning          \* bound: objects in use while the machine runs

ASSUME MutatorAssumption ==
    /\ None \notin Objects
    /\ StringsGrow \in BOOLEAN
    /\ MaxStack \in Nat /\ MaxKids \in Nat
    /\ MaxCompilers \in Nat /\ MaxStrings \in Nat /\ MaxRunning \in Nat

VARIABLES
    heap,               \* the objects that exist
    refs,               \* what each of them refers to
    stack,              \* the values of vm->stack that are objects
    roots,              \* globals, closures of frames, open upvalues, init_string
    strings,            \* the keys of vm->strings
    compilers,          \* the functions of the open compilers, outermost first
    pinned,             \* constants marked since the last collection
    booted,             \* vm_init is over
    site,               \* the place that is running, or "none"
    at,                 \* its next step
    hand                \* its C variables, as long as they will be used

vars == <<heap, refs, stack, roots, strings, compilers, pinned, booted, site, at, hand>>

-----------------------------------------------------------------------------
(* Steps: what is done, the C variable it sets or "-", those it uses, a depth. *)

Step(op, var, uses, depth) == [op |-> op, var |-> var, uses |-> uses, depth |-> depth]

Peek(x, depth) == Step("peek", x, {}, depth)            \* stack_peek
Pop == Step("pop", "-", {}, 0)
PopTo(x) == Step("pop", x, {}, 0)
Push(x) == Step("push", "-", {x}, 0)
Replace(x, depth) == Step("replace", "-", {x}, depth)    \* vm->sp[-1 - depth] = x
Reset == Step("reset", "-", {}, 0)
Const(x) == Step("const", x, {}, 0)                     \* READ_CONSTANT, READ_STRING
Follow(x, y) == Step("follow", x, {y}, 0)               \* an object y refers to
Alloc == Step("alloc", "-", {}, 0)                       \* bytes for an array or a text
New(x, kids) == Step("new", x, kids, 0)                 \* object_..._new
Store(to, what) == Step("store", to, what \cup {to}, 0)
AddConstant(to, what) == Step("constant", to, {to, what}, 0)
Copy(to, from) == Step("copy", to, {to, from}, 0)
Root(xs) == Step("root", "-", xs, 0)
Interned(x) == Step("interned", x, {}, 0)               \* table_find_string finds it
Intern(x) == Step("intern", "-", {x}, 0)
Pin(x) == Step("pin", "-", {x}, 0)                       \* gc_mark_value in make_constant
Open(x) == Step("open", "-", {x}, 0)                     \* current = compiler
Compiling(x) == Step("compiling", x, {}, 0)             \* current->function
Close(x) == Step("close", x, {}, 0)                     \* current = current->enclosing
Read(x) == Step("read", "-", {x}, 0)

-----------------------------------------------------------------------------
(* Before the first line.                                                  *)

InitString == <<Alloc, New("name", {}), Root({"name"})>>

(* Fault: the name and the function wait in C variables.                   *)
DefineNativeUnpushed ==
    <<Alloc, New("name", {}), New("native", {}), Alloc, Root({"name", "native"})>>

DefineNative ==
    <<Alloc, New("name", {}), Push("name"), New("native", {}), Push("native"),
      Peek("name", 1), Peek("native", 0), Alloc, Root({"name", "native"}), Pop, Pop>>

-----------------------------------------------------------------------------
(* The compiler.                                                           *)

CompilerInit ==
    <<Alloc, New("function", {}), Open("function"),
      Alloc, New("name", {}), Store("function", {"name"})>>

WriteChunk == <<Alloc>>

(* Identifiers and string literals: the text, the object, make_constant.    *)
StringConstant ==
    <<Alloc, New("string", {}), Compiling("function"), Pin("string"),
      Alloc, AddConstant("function", "string")>>

(* Fault: the constant is not marked while its array may grow.              *)
EndFunctionUnpinned ==
    <<Alloc, Close("inner"), Compiling("outer"), Alloc, Store("outer", {"inner"}),
      Alloc, Read("inner")>>

EndFunction ==
    <<Alloc, Close("inner"), Compiling("outer"), Pin("inner"), Alloc, Store("outer", {"inner"}),
      Alloc, Read("inner")>>

EndFailed == <<Alloc, Close("function")>>

Interpret ==
    <<Alloc, Close("function"), Push("function"), Alloc, New("closure", {"function"}),
      Pop, Push("closure"), Root({"closure"})>>

-----------------------------------------------------------------------------
(* The machine.                                                            *)

RuntimeError == <<Alloc, New("message", {}), Push("message"), Reset>>

OpDefineGlobal == <<Const("name"), Peek("value", 0), Alloc, Root({"name", "value"}), Pop>>

(* One captured variable; the open upvalue is on the list of the machine.   *)
OpClosure ==
    <<Const("function"), Alloc, New("closure", {"function"}), Push("closure"),
      New("upvalue", {}), Root({"upvalue"}), Store("closure", {"upvalue"})>>

OpClass == <<Const("name"), New("class", {"name"}), Push("class")>>

OpInherit == <<Peek("super", 1), Peek("class", 0), Alloc, Copy("class", "super"), Pop>>

OpMethod ==
    <<Const("name"), Peek("method", 0), Peek("class", 1),
      Alloc, Store("class", {"name", "method"}), Pop>>

Instantiate == <<Peek("class", 0), New("instance", {"class"}), Replace("instance", 0)>>

BindMethod ==
    <<Peek("receiver", 0), Follow("class", "receiver"), Follow("method", "class"),
      New("bound", {"receiver", "method"}), Pop, Push("bound")>>

(* The superclass leaves the stack first; the closure that runs captured it. *)
GetSuper ==
    <<Const("super"), Push("super"), PopTo("super"), Peek("receiver", 0),
      Follow("method", "super"), New("bound", {"receiver", "method"}), Pop, Push("bound")>>

OpSetProperty ==
    <<Peek("instance", 1), Const("name"), Peek("value", 0), Alloc,
      Store("instance", {"name", "value"}), PopTo("value"), Pop, Push("value")>>

OpTableSet ==
    <<Peek("table", 2), Peek("key", 1), Peek("value", 0), Alloc,
      Store("table", {"key", "value"}), Pop, Pop, Pop, Push("value")>>

NativeTable == <<New("table", {}), Pop, Push("table")>>

(* vm_intern_string finds the text, or makes an object and table_set puts it *)
(* into vm->strings, which allocates when the table is at its load limit.   *)
ConcatFound ==
    <<Peek("right", 0), Peek("left", 1), Alloc, Read("left"), Read("right"),
      Interned("sum"), Pop, Pop, Push("sum")>>

ConcatNew ==
    <<Peek("right", 0), Peek("left", 1), Alloc, Read("left"), Read("right"), New("sum", {})>>
    \o (IF StringsGrow THEN <<Alloc>> ELSE <<>>)
    \o <<Intern("sum"), Pop, Pop, Push("sum")>>

Steps ==
    [init_string |-> InitString, define_native |-> DefineNative,
     compiler_init |-> CompilerInit, write_chunk |-> WriteChunk,
     string_constant |-> StringConstant, end_function |-> EndFunction,
     end_failed |-> EndFailed, interpret |-> Interpret,
     runtime_error |-> RuntimeError, define_global |-> OpDefineGlobal,
     closure |-> OpClosure, class |-> OpClass, inherit |-> OpInherit, method |-> OpMethod,
     instantiate |-> Instantiate, bind_method |-> BindMethod, get_super |-> GetSuper,
     set_property |-> OpSetProperty, table_set |-> OpTableSet, native_table |-> NativeTable,
     concat_found |-> ConcatFound, concat_new |-> ConcatNew]

Sites == DOMAIN Steps
Booting == {"init_string", "define_native"}
Compiler == {"compiler_init", "write_chunk", "string_constant", "end_function", "end_failed", "interpret"}
Machine == Sites \ (Booting \cup Compiler)

Names == UNION {{Steps[s][i].var : i \in DOMAIN Steps[s]} : s \in Sites}

-----------------------------------------------------------------------------
(* The collector.                                                          *)

MachineRoots == Range(stack) \cup roots \cup strings \cup Range(compilers)

Survivors == Reachable(refs, MachineRoots \cup pinned)

(* The heap an allocation leaves, with a collection in it or without.       *)
Collect(collects) ==
    IF collects
    THEN [heap |-> Survivors, refs |-> [o \in Objects |-> IF o \in Survivors THEN refs[o] ELSE {}],
          pinned |-> {}]
    ELSE [heap |-> heap, refs |-> refs, pinned |-> pinned]

-----------------------------------------------------------------------------
Nothing == [x \in Names |-> None]

Init ==
    /\ heap = {}
    /\ refs = [o \in Objects |-> {}]
    /\ stack = <<>>
    /\ roots = {}
    /\ strings = {}
    /\ compilers = <<>>
    /\ pinned = {}
    /\ booted = FALSE
    /\ site = "none"
    /\ at = 0
    /\ hand = Nothing

(* Where a place can be come upon: what its steps read is there, and what    *)
(* they make does not go over a bound.                                     *)
Having(s, op) == {i \in DOMAIN Steps[s] : Steps[s][i].op = op}

(* The height of the stack before step i.                                  *)
Height(s, i) ==
    Len(stack) + Cardinality(Having(s, "push") \cap 1..i-1) - Cardinality(Having(s, "pop") \cap 1..i-1)

(* The addresses new objects can have.                                     *)
Limit(s) == IF s \in Machine THEN MaxRunning ELSE Cardinality(Objects)

Fits(s) ==
    /\ \A i \in Having(s, "peek") \cup Having(s, "replace") : Steps[s][i].depth < Height(s, i)
    /\ \A i \in Having(s, "pop") : Height(s, i) > 0
    /\ \A i \in Having(s, "push") : Height(s, i) < MaxStack
    /\ Having(s, "const") # {} => roots # {}
    /\ Having(s, "interned") # {} => strings # {}
    /\ Having(s, "intern") # {} => Cardinality(strings) < MaxStrings
    /\ Cardinality(Survivors) + Cardinality(Having(s, "new")) <= Limit(s)
    /\ s \in Machine => Cardinality(Survivors) < MaxRunning         \* for an error's message

InTurn(s) ==
    \/ s \in Booting /\ ~booted
    \/ s = "compiler_init" /\ Len(compilers) < MaxCompilers /\ (compilers = <<>> => stack = <<>>)
    \/ s \in {"write_chunk", "string_constant"} /\ compilers # <<>>
    \/ s = "end_function" /\ Len(compilers) > 1
    \/ s \in {"end_failed", "interpret"} /\ Len(compilers) = 1
    \/ s \in Machine /\ booted /\ compilers = <<>>

Begin(s) ==
    /\ site = "none"
    /\ InTurn(s)
    /\ Fits(s)
    /\ site' = s
    /\ at' = 1
    /\ booted' = (booted \/ s = "compiler_init")
    /\ UNCHANGED <<heap, refs, stack, roots, strings, compilers, pinned, hand>>

Running(op) == site # "none" /\ Steps[site][at].op = op

This == Steps[site][at]

(* The place goes on with its C variables as in h, or is done.             *)
Advance(h) ==
    LET used == UNION {Steps[site][i].uses : i \in at + 1 .. Len(Steps[site])}
    IN  /\ hand' = [x \in Names |-> IF x \in used THEN h[x] ELSE None]
        /\ site' = IF at = Len(Steps[site]) THEN "none" ELSE site
        /\ at' = IF at = Len(Steps[site]) THEN 0 ELSE at + 1
        /\ UNCHANGED booted

Sets(o) == Advance([hand EXCEPT ![This.var] = o])

Used == {hand[x] : x \in This.uses}

heapVars == <<heap, refs, pinned>>
rootVars == <<stack, roots, strings, compilers>>

TopOfStack(depth) == stack[Len(stack) - depth]

(* What a string cannot be: the class or table a store goes to.             *)
WrongKind ==
    /\ TopOfStack(This.depth) \in strings
    /\ This.var \in {Steps[site][i].var : i \in Having(site, "store") \cup Having(site, "copy")}

(* Steps that only read.                                                   *)
ReadStep ==
    /\ \/ Running("peek") /\ ~WrongKind /\ Sets(TopOfStack(This.depth))
       \/ Running("const") /\ \E o \in Reachable(refs, roots) : Sets(o)
       \/ Running("interned") /\ \E o \in strings : Sets(o)
       \/ Running("compiling") /\ Sets(Last(compilers))
       \/ Running("follow") /\ \E y \in Used : \E o \in refs[y] : Sets(o)
       \/ Running("read") /\ Advance(hand)
    /\ UNCHANGED <<heapVars, rootVars>>

(* A name that leads nowhere and a value of the wrong kind are run-time       *)
(* errors.                                                                 *)
Undefined ==
    /\ \/ Running("follow") /\ \A y \in Used : refs[y] = {}
       \/ Running("peek") /\ WrongKind
    /\ site' = "runtime_error"
    /\ at' = 1
    /\ hand' = Nothing
    /\ UNCHANGED <<heapVars, rootVars, booted>>

StackStep ==
    /\ \/ Running("pop")
          /\ stack' = Front(stack)
          /\ IF This.var = "-" THEN Advance(hand) ELSE Sets(Last(stack))
       \/ Running("push") /\ (\E o \in Used : stack' = Append(stack, o)) /\ Advance(hand)
       \/ Running("replace")
          /\ \E o \in Used : stack' = [stack EXCEPT ![Len(stack) - This.depth] = o]
          /\ Advance(hand)
       \/ Running("reset") /\ stack' = <<>> /\ Advance(hand)
    /\ UNCHANGED <<heapVars, roots, strings, compilers>>

CompilerStep ==
    /\ \/ Running("open") /\ (\E o \in Used : compilers' = Append(compilers, o)) /\ Advance(hand)
       \/ Running("close") /\ compilers' = Front(compilers) /\ Sets(Last(compilers))
    /\ UNCHANGED <<heapVars, stack, roots, strings>>

RootStep ==
    /\ \/ Running("root") /\ roots' = roots \cup Used /\ UNCHANGED strings
       \/ Running("intern") /\ strings' = strings \cup Used /\ UNCHANGED roots
    /\ Advance(hand)
    /\ UNCHANGED <<heapVars, stack, compilers>>

PinStep ==
    /\ Running("pin")
    /\ pinned' = pinned \cup Used
    /\ Advance(hand)
    /\ UNCHANGED <<heap, refs, rootVars>>

(* References of one object: new ones may take the place of old ones, and a  *)
(* constant that equals one that is there already is not added.             *)
StoreStep ==
    LET to == hand[This.var]
        Becomes(new) ==
            \E kept \in SUBSET refs[to] :
                /\ Cardinality(kept \cup new) <= MaxKids
                /\ refs' = [refs EXCEPT ![to] = kept \cup new]
    IN  /\ \/ Running("store") /\ Becomes({hand[x] : x \in This.uses \ {This.var}})
           \/ Running("constant")
              /\ \/ Becomes({hand[x] : x \in This.uses \ {This.var}})
                 \/ UNCHANGED refs
           \/ Running("copy") /\ Becomes(UNION {refs[o] : o \in Used \ {to}})
        /\ Advance(hand)
        /\ UNCHANGED <<heap, pinned, rootVars>>

AllocStep(collects) ==
    /\ Running("alloc")
    /\ LET left == Collect(collects)
       IN  heap' = left.heap /\ refs' = left.refs /\ pinned' = left.pinned
    /\ Advance(hand)
    /\ UNCHANGED rootVars

NewStep(collects) ==
    /\ Running("new")
    /\ LET left == Collect(collects)
       IN  \E o \in Objects \ left.heap :
               /\ Cardinality(left.heap) < Limit(site)
               /\ heap' = left.heap \cup {o}
               /\ refs' = [left.refs EXCEPT ![o] = Used]
               /\ pinned' = left.pinned
               /\ Sets(o)
    /\ UNCHANGED rootVars

(* Instructions that allocate nothing: an object the program can reach is    *)
(* pushed, a value is popped, a variable or frame is given up.               *)
Load ==
    /\ booted /\ site = "none" /\ compilers = <<>>
    /\ Len(stack) < MaxStack
    /\ Cardinality(Survivors) < MaxRunning
    /\ \E o \in Reachable(refs, Range(stack) \cup roots) : stack' = Append(stack, o)
    /\ UNCHANGED <<heapVars, roots, strings, compilers, booted, site, at, hand>>

Drop ==
    /\ booted /\ site = "none" /\ compilers = <<>>
    /\ stack # <<>>
    /\ stack' = Front(stack)
    /\ UNCHANGED <<heapVars, roots, strings, compilers, booted, site, at, hand>>

GiveUp ==
    /\ site = "none" /\ compilers = <<>>
    /\ \E o \in roots : roots' = roots \ {o}
    /\ UNCHANGED <<heapVars, stack, strings, compilers, booted, site, at, hand>>

Next ==
    \/ \E s \in Sites : Begin(s)
    \/ ReadStep \/ Undefined
    \/ StackStep \/ CompilerStep \/ RootStep \/ PinStep \/ StoreStep
    \/ \E collects \in BOOLEAN : AllocStep(collects) \/ NewStep(collects)
    \/ Load \/ Drop \/ GiveUp

Spec == Init /\ [][Next]_vars

-----------------------------------------------------------------------------
(* Properties.                                                             *)

(* Wherever a collection may start, the objects the running function still   *)
(* uses are ones the collector finds from its roots: nothing is taken from   *)
(* under a C variable.                                                     *)
HandsAreRooted ==
    Running("alloc") \/ Running("new") =>
        \A x \in Names : hand[x] # None => hand[x] \in Survivors

(* No root, and nothing a root leads to, was freed: the functions compiled   *)
(* so far, constants just added and half-built objects included.            *)
NothingDangles == Reachable(refs, MachineRoots \cup pinned) \subseteq heap
=============================================================================
