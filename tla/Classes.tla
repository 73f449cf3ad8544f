------------------------------ MODULE Classes -------------------------------
(***************************************************************************)
(* vm.c: the declaration of classes, instruction by instruction, and the     *)
(* calls that find a method.  A class keeps no link to its superclass:       *)
(* OP_INHERIT copies the methods, and the closures of a class body keep the  *)
(* superclass in the variable `super` they capture.                         *)
(*                                                                         *)
(* Values are those that take part in dispatch; anything else is nil.  A     *)
(* class is declared in a global variable, so by the script and not by a      *)
(* function, and `value` is the one value on top of the stack.  A variable    *)
(* that is not defined yet, and a field that is not there, is nil.  Operands, *)
(* arities, the limit on frames and what reading a method as a property does  *)
(* are the matter of Interp.                                               *)
(***************************************************************************)
EXTENDS Naturals, Sequences

CONSTANTS
    Variables,      \* global variables
    Names,          \* names of methods and fields
    InitName,       \* vm->init_string
    FieldNames,     \* bound: names of the fields programs assign
    VariableKinds,  \* bound: kinds of the values they assign to variables
    FieldKinds,     \* bound: and to fields
    ClassBound,     \* bound: classes created
    InstanceBound,  \* bound: instances created
    CallBound       \* bound: calls in progress

ASSUME ClassesAssumption ==
    /\ InitName \in Names /\ FieldNames \subseteq Names
    /\ VariableKinds \subseteq {"nil", "class", "instance", "bound"}
    /\ FieldKinds \subseteq {"class", "instance", "bound"}
    /\ ClassBound \in Nat /\ InstanceBound \in Nat /\ CallBound \in Nat

VARIABLES
    methods,    \* klass->methods of each class, in the order of creation
    own,        \* history: the names each class has declared itself
    line,       \* history: each class, its superclass, the superclass of that...
    instances,  \* class and fields of each instance
    variables,  \* vm->globals
    value,      \* what the last expression left on the stack
    frames,     \* receiver and closure of each call
    klass,      \* the class under declaration, 0 if there is none
    super       \* its superclass, in the local variable `super`, 0 if it has none

vars == <<methods, own, line, instances, variables, value, frames, klass, super>>

(* The closure of a method: the class whose declaration made it, and the      *)
(* value of the variable `super` there, 0 if that class has no superclass.   *)
Closure(c, n, s) == [home |-> c, name |-> n, super |-> s]
NoMethod == Closure(0, InitName, 0)

Value(kind, of, method) == [kind |-> kind, of |-> of, method |-> method]
Nil == Value("nil", 0, NoMethod)
Class(c) == Value("class", c, NoMethod)
Instance(i) == Value("instance", i, NoMethod)
BoundMethod(i, m) == Value("bound", i, m)

NoFields == [n \in Names |-> Nil]
NoMethods == [n \in Names |-> NoMethod]

Init ==
    /\ methods = <<>>
    /\ own = <<>>
    /\ line = <<>>
    /\ instances = <<>>
    /\ variables = [x \in Variables |-> Nil]
    /\ value = Nil
    /\ frames = <<>>
    /\ klass = 0
    /\ super = 0

Heap == <<methods, own, line, instances, variables>>       \* what a call leaves alone

(* vm_backtrace: the stack is reset, the globals stay.                      *)
RuntimeError ==
    /\ value' = Nil
    /\ frames' = <<>>
    /\ klass' = 0
    /\ super' = 0
    /\ UNCHANGED Heap

-----------------------------------------------------------------------------
(* Declarations.  Nothing else runs until a class body has ended: its global  *)
(* variable still holds the class when the body reads it again.             *)

(* The statement before has popped its value.                              *)
OpClass(x) ==
    /\ klass = 0 /\ frames = <<>>
    /\ Len(methods) < ClassBound
    /\ methods' = Append(methods, NoMethods)
    /\ own' = Append(own, {})
    /\ line' = Append(line, <<Len(methods) + 1>>)
    /\ klass' = Len(methods) + 1
    /\ variables' = [variables EXCEPT ![x] = Class(klass')]
    /\ value' = Nil
    /\ UNCHANGED <<instances, frames, super>>

(* table_add_all                                                           *)
Copied(from, to) == [n \in Names |-> IF from[n] # NoMethod THEN from[n] ELSE to[n]]

(* Comes before the methods of the class; the compiler refuses a class that   *)
(* names itself.                                                           *)
OpInherit(y) ==
    LET superclass == variables[y].of
    IN  /\ klass # 0
        /\ super = 0
        /\ methods[klass] = NoMethods
        /\ \/ /\ variables[y].kind = "class" /\ superclass # klass
              /\ methods' = [methods EXCEPT ![klass] = Copied(methods[superclass], @)]
              /\ line' = [line EXCEPT ![klass] = @ \o line[superclass]]
              /\ super' = superclass
              /\ UNCHANGED <<own, instances, variables, value, frames, klass>>
           \/ variables[y].kind # "class" /\ RuntimeError

(* Fault: an inherited method is not overridden.                            *)
OpMethodOnce(n) ==
    /\ klass # 0
    /\ methods' = [methods EXCEPT
                      ![klass][n] = IF @ = NoMethod THEN Closure(klass, n, super) ELSE @]
    /\ own' = [own EXCEPT ![klass] = @ \cup {n}]
    /\ UNCHANGED <<line, instances, variables, value, frames, klass, super>>

(* OP_CLOSURE and OP_METHOD.                                               *)
OpMethod(n) ==
    /\ klass # 0
    /\ methods' = [methods EXCEPT ![klass][n] = Closure(klass, n, super)]
    /\ own' = [own EXCEPT ![klass] = @ \cup {n}]
    /\ UNCHANGED <<line, instances, variables, value, frames, klass, super>>

(* Fault: the variable `super` outlives the class.                          *)
EndClassKeepsSuper ==
    /\ klass # 0
    /\ klass' = 0
    /\ UNCHANGED <<Heap, value, frames, super>>

(* The end of the body pops the class, and scope_exit the variable `super`.   *)
EndClass ==
    /\ klass # 0
    /\ klass' = 0
    /\ super' = 0
    /\ UNCHANGED <<Heap, value, frames>>

-----------------------------------------------------------------------------
(* Calls.                                                                  *)

Running == klass = 0 /\ frames # <<>>
Frame == frames[Len(frames)]
This == Frame.this
Super == Frame.method.super

(* The receiver, slot 0 of the call, is no longer an operand of its caller.   *)
Enter(i, m) ==
    /\ Len(frames) < CallBound
    /\ frames' = Append(frames, [this |-> i, method |-> m])
    /\ value' = Nil
    /\ UNCHANGED <<klass, super>>

Have(v) == value' = v /\ UNCHANGED <<frames, klass, super>>

(* A class gives an instance to its initializer, or else to the caller.      *)
CallClass(c) ==
    LET i == Len(instances) + 1
        m == methods[c][InitName]
    IN  /\ i <= InstanceBound
        /\ instances' = Append(instances, [class |-> c, fields |-> NoFields])
        /\ UNCHANGED <<methods, own, line, variables>>
        /\ IF m # NoMethod THEN Enter(i, m) ELSE Have(Instance(i))

CallValue(v) ==
    \/ v.kind = "class" /\ CallClass(v.of)
    \/ v.kind = "bound" /\ Enter(v.of, v.method) /\ UNCHANGED Heap
    \/ v.kind \in {"nil", "instance"} /\ RuntimeError

InvokeFromClass(i, c, n) ==
    LET m == methods[c][n]
    IN  IF m # NoMethod THEN Enter(i, m) /\ UNCHANGED Heap ELSE RuntimeError

OpCall == klass = 0 /\ CallValue(value)

(* A field comes before a method.                                          *)
OpInvoke(n) ==
    LET field == instances[value.of].fields[n]
    IN  /\ klass = 0
        /\ \/ value.kind # "instance" /\ RuntimeError
           \/ /\ value.kind = "instance"
              /\ IF field # Nil THEN CallValue(field)
                 ELSE InvokeFromClass(value.of, instances[value.of].class, n)

OpSuperInvoke(n) ==
    /\ Running
    /\ Super # 0
    /\ InvokeFromClass(This, Super, n)

(* Fault: a method of super is taken from the class of the receiver.        *)
OpGetSuperVirtual(n) ==
    LET m == methods[instances[This].class][n]
    IN  /\ Running
        /\ Super # 0
        /\ IF m # NoMethod THEN Have(BoundMethod(This, m)) /\ UNCHANGED Heap
           ELSE RuntimeError

OpGetSuper(n) ==
    LET m == methods[Super][n]
    IN  /\ Running
        /\ Super # 0
        /\ IF m # NoMethod THEN Have(BoundMethod(This, m)) /\ UNCHANGED Heap
           ELSE RuntimeError

(* An initializer returns `this`.                                          *)
OpReturn ==
    /\ Running
    /\ frames' = SubSeq(frames, 1, Len(frames) - 1)
    /\ value' = IF Frame.method.name = InitName THEN Instance(This) ELSE value
    /\ UNCHANGED <<Heap, klass, super>>

-----------------------------------------------------------------------------
(* Other expressions.                                                      *)

GetThis == Running /\ Have(Instance(This)) /\ UNCHANGED Heap

OpGetGlobal(x) ==
    /\ klass = 0
    /\ Have(variables[x])
    /\ UNCHANGED Heap

OpSetGlobal(x) ==
    /\ klass = 0
    /\ value.kind \in VariableKinds
    /\ variables' = [variables EXCEPT ![x] = value]
    /\ UNCHANGED <<methods, own, line, instances, value, frames, klass, super>>

(* The instance is that of a global variable.                              *)
OpSetProperty(x, n) ==
    /\ klass = 0
    /\ \/ variables[x].kind # "instance" /\ RuntimeError
       \/ /\ variables[x].kind = "instance"
          /\ value.kind \in FieldKinds
          /\ instances' = [instances EXCEPT ![variables[x].of].fields[n] = value]
          /\ UNCHANGED <<methods, own, line, variables, value, frames, klass, super>>

Next ==
    \/ \E x \in Variables :
          \/ OpClass(x) \/ OpInherit(x) \/ OpGetGlobal(x) \/ OpSetGlobal(x)
          \/ \E n \in FieldNames : OpSetProperty(x, n)
    \/ \E n \in Names :
          OpMethod(n) \/ OpInvoke(n) \/ OpSuperInvoke(n) \/ OpGetSuper(n)
    \/ EndClass \/ OpCall \/ OpReturn \/ GetThis

Spec == Init /\ [][Next]_vars

-----------------------------------------------------------------------------
(* Properties.                                                             *)

Closures == [home : 0 .. ClassBound, name : Names, super : 0 .. ClassBound]
Values == [kind : {"nil", "class", "instance", "bound"}, of : Nat, method : Closures]
Objects == [class : 1 .. ClassBound, fields : [Names -> Values]]
Frames == [this : Nat, method : Closures]

Held ==
    {value} \cup {variables[x] : x \in Variables}
    \cup {instances[i].fields[n] : i \in DOMAIN instances, n \in Names}

(* What a value, an instance or a call refers to exists.                    *)
Exists(v) ==
    /\ v.kind = "class" => v.of \in DOMAIN methods
    /\ v.kind \in {"instance", "bound"} => v.of \in DOMAIN instances

TypeOK ==
    /\ methods \in Seq([Names -> Closures]) /\ Len(methods) <= ClassBound
    /\ own \in Seq(SUBSET Names) /\ Len(own) = Len(methods)
    /\ line \in Seq(Seq(1 .. ClassBound)) /\ Len(line) = Len(methods)
    /\ instances \in Seq(Objects)
    /\ \A i \in DOMAIN instances : instances[i].class \in DOMAIN methods
    /\ variables \in [Variables -> Values] /\ value \in Values
    /\ \A v \in Held : Exists(v)
    /\ frames \in Seq(Frames)
    /\ \A k \in DOMAIN frames : frames[k].this \in DOMAIN instances
    /\ klass \in 0 .. Len(methods) /\ super \in 0 .. Len(methods)

(* The calls in progress and the bound methods held, as Dispatch sees them.   *)
Message(i, m) ==
    [class |-> instances[i].class, method |-> [home |-> m.home, name |-> m.name]]
Calls == [k \in 1 .. Len(frames) |-> Message(frames[k].this, frames[k].method)]
Bound == {Message(v.of, v.method) : v \in {w \in Held : w.kind = "bound"}}

Promise == INSTANCE Dispatch WITH calls <- Calls, bound <- Bound

(* The table of a class, copied when it was declared, answers every name as a *)
(* search along its superclasses would, whatever has been declared again or   *)
(* assigned since.                                                         *)
CopiesAreLookups ==
    \A c \in 1 .. Len(methods), n \in Names :
        LET m == methods[c][n]
        IN  /\ (m # NoMethod) <=> Promise!Provides(line[c], n)
            /\ m # NoMethod => /\ m.home = Promise!Resolve(line[c], n).home
                               /\ m.name = n

(* Method m is that of a class on the line of c, and its variable `super` is   *)
(* the class above the one that declared it, if there is one.               *)
Superclass(c) == IF Len(line[c]) > 1 THEN line[c][2] ELSE 0
Belongs(c, m) ==
    /\ \E k \in DOMAIN line[c] : line[c][k] = m.home
    /\ m.super = Superclass(m.home)

(* A method runs for, or is bound to, an instance of its class or of one      *)
(* below, and its `super` is the superclass of the class that declared it.   *)
SuperIsNextInLine ==
    /\ \A k \in DOMAIN frames :
          Belongs(instances[frames[k].this].class, frames[k].method)
    /\ \A v \in Held : v.kind = "bound" => Belongs(instances[v.of].class, v.method)

(* A message to super runs what the classes above the declaring one have for  *)
(* it, or ends in an error: a class below never comes in, although the        *)
(* receiver is one of its instances.                                       *)
SuperLooksAbove ==
    [][\A n \in Names : OpSuperInvoke(n) =>
          IF Promise!Provides(Promise!Above(Frame.method.home), n)
          THEN Promise!SendSuper(n) ELSE Promise!Stop]_vars

(* Copied tables and captured variables make single inheritance.            *)
ImplementsDispatch == Promise!Spec
=============================================================================
