------------------------------- MODULE Interp -------------------------------
(***************************************************************************)
(* vm.c: the instructions, calls and returns on one stack of values shared  *)
(* by all call frames, the protocol of run-time errors, and vm_interpret,    *)
(* which the REPL calls for line after line on the same machine.            *)
(*                                                                         *)
(* A value is its kind and, for what can be called, what a call needs.  What *)
(* variables, fields and tables hold is left open: reading one gives any     *)
(* value a program can store.  Methods are those of classes already declared *)
(* (module Classes).  Captured variables are the matter of Upvalues, and a   *)
(* jump leaves the state of this module alone.                             *)
(***************************************************************************)
EXTENDS Naturals, Sequences, Functions

CONSTANTS
    Classes, Closures, Names,
    Main,           \* the closure of a script
    InitName,       \* vm->init_string
    Arity,          \* function->arity
    Methods,        \* klass->methods of every class
    Ancestors,      \* the superclasses of every class
    FRAMES_MAX,
    StackBound,     \* bound: programs use no more of vm->stack
    ArgBound,       \* bound: arguments of a call
    MethodsRead     \* programs read a method as a property

(* The method closures a class declares or inherits, overridden ones too.    *)
Understands(c) == UNION {Range(Methods[a]) : a \in {c} \cup Ancestors[c]}

ASSUME InterpAssumption ==
    /\ Main \in Closures /\ Arity \in [Closures -> Nat] /\ Arity[Main] = 0
    /\ InitName \in Names
    /\ \A c \in Classes :
          /\ DOMAIN Methods[c] \subseteq Names
          /\ Range(Methods[c]) \subseteq Closures \ {Main}
          /\ Ancestors[c] \subseteq Classes
    /\ FRAMES_MAX \in Nat \ {0} /\ StackBound \in Nat /\ ArgBound \in Nat
    /\ MethodsRead \in BOOLEAN

VARIABLES
    stack,          \* vm->stack up to vm->sp
    frames,         \* closure and slots of each call frame
    mode,           \* "running" inside vm_run
    code            \* what vm_interpret last returned

vars == <<stack, frames, mode, code>>

Number == [kind |-> "number"]
String == [kind |-> "string"]
Table == [kind |-> "table"]
Native == [kind |-> "native"]
Class(c) == [kind |-> "class", class |-> c]
Instance(c) == [kind |-> "instance", class |-> c]
Closure(f) == [kind |-> "closure", closure |-> f]
BoundMethod(c, f) == [kind |-> "bound", class |-> c, method |-> f]

MethodClosures == UNION {Range(Methods[c]) : c \in Classes}

(* What a variable, a field or a table entry may hold: neither a script nor  *)
(* a method outside of a bound method.                                     *)
Storable ==
    {Number, String, Table, Native}
    \cup {Class(c) : c \in Classes}
    \cup {Instance(c) : c \in Classes}
    \cup {Closure(f) : f \in Closures \ (MethodClosures \cup {Main})}
    \cup UNION {{BoundMethod(c, f) : f \in Understands(c)} : c \in Classes}

Values == Storable \cup {Closure(Main)}

Last(s) == s[Len(s)]
ButLast(s, n) == SubSeq(s, 1, Len(s) - n)

Slots == Last(frames).slots
Peek(distance) == stack[Len(stack) - distance]

(* The running call has n operands besides its slot 0.                      *)
Holds(n) == mode = "running" /\ Len(stack) >= Slots + n

Init ==
    /\ stack = <<>>
    /\ frames = <<>>
    /\ mode = "idle"
    /\ code = "ok"

-----------------------------------------------------------------------------
(* How an instruction ends.                                                *)

(* The handler returns true.                                               *)
Go(s) ==
    /\ Len(s) <= StackBound
    /\ stack' = s
    /\ UNCHANGED <<frames, mode, code>>

(* The handler returns false: vm_run takes an empty stack for the end of the *)
(* script, and vm_backtrace resets the machine if it finds a message on top. *)
Finish(s, f) ==
    /\ mode' = "idle"
    /\ IF s = <<>>
       THEN code' = "ok" /\ stack' = s /\ frames' = f
       ELSE /\ code' = "error"
            /\ IF Last(s) = String
               THEN stack' = <<>> /\ frames' = <<>>
               ELSE stack' = s /\ frames' = f

RuntimeError(s) == Finish(Append(s, String), frames)

-----------------------------------------------------------------------------
(* Calls.                                                                  *)

(* Fault: the frames are not counted.                                       *)
EnterUnbounded(s, f, arg_count) ==
    \/ /\ arg_count = Arity[f]
       /\ stack' = s
       /\ frames' = Append(frames, [closure |-> f, slots |-> Len(s) - arg_count])
       /\ UNCHANGED <<mode, code>>
    \/ /\ arg_count # Arity[f]
       /\ RuntimeError(s)

(* Fault: the frame begins at the first argument.                           *)
EnterPastCallee(s, f, arg_count) ==
    \/ /\ arg_count = Arity[f]
       /\ Len(frames) < FRAMES_MAX
       /\ stack' = s
       /\ frames' = Append(frames, [closure |-> f, slots |-> Len(s) - arg_count + 1])
       /\ UNCHANGED <<mode, code>>
    \/ /\ arg_count # Arity[f] \/ Len(frames) = FRAMES_MAX
       /\ RuntimeError(s)

Call(s, f, arg_count) ==
    \/ /\ arg_count = Arity[f]
       /\ Len(frames) < FRAMES_MAX
       /\ stack' = s
       /\ frames' = Append(frames, [closure |-> f, slots |-> Len(s) - arg_count])
       /\ UNCHANGED <<mode, code>>
    \/ /\ arg_count # Arity[f] \/ Len(frames) = FRAMES_MAX
       /\ RuntimeError(s)

WithReceiver(v, arg_count) == [stack EXCEPT ![Len(stack) - arg_count] = v]

CallBound(callee, arg_count) ==
    /\ callee.kind = "bound"
    /\ Call(WithReceiver(Instance(callee.class), arg_count), callee.method, arg_count)

(* Fault: an initializer gets the class for a receiver.                     *)
CallClassItself(callee, arg_count) ==
    /\ callee.kind = "class"
    /\ IF InitName \in DOMAIN Methods[callee.class]
       THEN Call(stack, Methods[callee.class][InitName], arg_count)
       ELSE IF arg_count = 0 THEN Go(WithReceiver(Instance(callee.class), 0))
       ELSE RuntimeError(stack)

CallClass(callee, arg_count) ==
    LET klass == callee.class
        s == WithReceiver(Instance(klass), arg_count)
    IN  /\ callee.kind = "class"
        /\ \/ /\ InitName \in DOMAIN Methods[klass]
              /\ Call(s, Methods[klass][InitName], arg_count)
           \/ /\ InitName \notin DOMAIN Methods[klass]
              /\ IF arg_count = 0 THEN Go(s) ELSE RuntimeError(s)

CallNative(callee, arg_count) ==
    /\ callee = Native
    /\ \E result \in {Number, Table} : Go(Append(ButLast(stack, arg_count + 1), result))

CallValue(s, callee, arg_count) ==
    \/ CallBound(callee, arg_count)
    \/ CallClass(callee, arg_count)
    \/ CallNative(callee, arg_count)
    \/ callee.kind = "closure" /\ Call(s, callee.closure, arg_count)
    \/ /\ callee.kind \notin {"bound", "class", "native", "closure"}
       /\ RuntimeError(s)

InvokeFromClass(s, klass, name, arg_count) ==
    \/ /\ name \in DOMAIN Methods[klass]
       /\ Call(s, Methods[klass][name], arg_count)
    \/ name \notin DOMAIN Methods[klass] /\ RuntimeError(s)

OpCall(arg_count) ==
    /\ Holds(arg_count + 1)
    /\ CallValue(stack, Peek(arg_count), arg_count)

(* A field of that name comes before a method.                              *)
OpInvoke(name, arg_count) ==
    LET receiver == Peek(arg_count)
    IN  /\ Holds(arg_count + 1)
        /\ IF receiver.kind # "instance" THEN RuntimeError(stack)
           ELSE \/ \E v \in Storable :
                      CallValue(WithReceiver(v, arg_count), v, arg_count)
                \/ InvokeFromClass(stack, receiver.class, name, arg_count)

(* `this`, the arguments and the local `super`, which OP_INHERIT has tested. *)
SuperOperands(arg_count) ==
    /\ Holds(arg_count + 2)
    /\ Peek(0).kind = "class"
    /\ Peek(arg_count + 1).kind = "instance"
    /\ Peek(0).class \in Ancestors[Peek(arg_count + 1).class]

OpSuperInvoke(name, arg_count) ==
    /\ SuperOperands(arg_count)
    /\ InvokeFromClass(ButLast(stack, 1), Peek(0).class, name, arg_count)

(* An initializer returns its receiver: compiler.c puts it on the stack.  A  *)
(* script returns when its blocks have ended; a failed line may have left    *)
(* something there.                                                        *)
OpReturn ==
    LET below == ButLast(stack, 1)
        callers == ButLast(frames, 1)
    IN  /\ Holds(1)
        /\ (\E c \in Classes : InitName \in DOMAIN Methods[c]
                               /\ Last(frames).closure = Methods[c][InitName])
           => Peek(0) = stack[Slots]
        /\ Last(frames).closure = Main => Len(stack) = Slots + 1 \/ MethodsRead
        /\ IF callers = <<>> THEN Finish(ButLast(below, 1), callers)
           ELSE /\ stack' = Append(SubSeq(stack, 1, Slots - 1), Peek(0))
                /\ frames' = callers
                /\ UNCHANGED <<mode, code>>

-----------------------------------------------------------------------------
(* Instructions that take operands off the stack and put a result there.    *)

(* OP_CONSTANT, OP_NIL, OP_TRUE, OP_FALSE, OP_CLOSURE, OP_GET_UPVALUE, and   *)
(* OP_GET_GLOBAL of a variable that exists.                                 *)
OpPush(v) ==
    /\ Holds(0)
    /\ Go(Append(stack, v))

OpGetLocal(slot) ==
    /\ Holds(0)
    /\ slot \in Slots .. Len(stack)
    /\ Go(Append(stack, stack[slot]))

OpSetLocal(slot) ==
    /\ Holds(1)
    /\ slot \in Slots + 1 .. Len(stack)
    /\ Go([stack EXCEPT ![slot] = Peek(0)])

(* OP_POP, OP_CLOSE_UPVALUE, OP_PRINT and OP_DEFINE_GLOBAL.                 *)
OpPop ==
    /\ Holds(1)
    /\ Go(ButLast(stack, 1))

(* OP_GET_GLOBAL and OP_SET_GLOBAL of a variable that does not exist.       *)
UndefinedVariable ==
    /\ Holds(0)
    /\ RuntimeError(stack)

OpEqual ==
    /\ Holds(2)
    /\ Go(Append(ButLast(stack, 2), Number))

(* OP_GREATER .. OP_SHR                                                     *)
BinaryOp ==
    /\ Holds(2)
    /\ IF Peek(0) = Number /\ Peek(1) = Number
       THEN Go(Append(ButLast(stack, 2), Number))
       ELSE RuntimeError(stack)

OpAdd ==
    /\ Holds(2)
    /\ IF Peek(0) = Peek(1) /\ Peek(0) \in {Number, String}
       THEN Go(Append(ButLast(stack, 2), Peek(0)))
       ELSE RuntimeError(stack)

OpNot ==
    /\ Holds(1)
    /\ Go(Append(ButLast(stack, 1), Number))

OpNegate ==
    /\ Holds(1)
    /\ IF Peek(0) = Number THEN Go(stack) ELSE RuntimeError(stack)

(* A missing key leaves nil in place of the operands, below the message.    *)
OpTableGet ==
    /\ Holds(2)
    /\ IF Peek(1) # Table THEN RuntimeError(stack)
       ELSE \/ \E v \in Storable : Go(Append(ButLast(stack, 2), v))
            \/ RuntimeError(Append(ButLast(stack, 2), Number))

OpTableSet ==
    /\ Holds(3)
    /\ IF Peek(2) # Table THEN RuntimeError(stack)
       ELSE Go(Append(ButLast(stack, 3), Peek(0)))

-----------------------------------------------------------------------------
(* Properties and methods.                                                 *)

(* bind_method on the instance on top of s; it does not say what its caller  *)
(* returns.                                                                *)
Bound(s, klass, name) ==
    Append(ButLast(s, 1), BoundMethod(Last(s).class, Methods[klass][name]))

(* vm_op_get_property returns false after bind_method, whatever it did.      *)
OpGetProperty(name) ==
    LET klass == Peek(0).class
    IN  /\ Holds(1)
        /\ \/ Peek(0).kind # "instance" /\ RuntimeError(stack)
           \/ /\ Peek(0).kind = "instance"
              /\ \/ \E v \in Storable : Go(Append(ButLast(stack, 1), v))
                 \/ name \notin DOMAIN Methods[klass] /\ RuntimeError(stack)
                 \/ /\ MethodsRead
                    /\ name \in DOMAIN Methods[klass]
                    /\ Finish(Bound(stack, klass, name), frames)

OpSetProperty ==
    /\ Holds(2)
    /\ IF Peek(1).kind # "instance" THEN RuntimeError(stack)
       ELSE Go(Append(ButLast(stack, 2), Peek(0)))

OpGetSuper(name) ==
    LET klass == Peek(0).class
    IN  /\ SuperOperands(0)
        /\ IF name \in DOMAIN Methods[klass]
           THEN Go(Bound(ButLast(stack, 1), klass, name))
           ELSE RuntimeError(ButLast(stack, 1))

-----------------------------------------------------------------------------
(* vm_interpret pushes the closure of the script and calls it; it does not    *)
(* look at what call() returns.                                            *)
Interpret ==
    /\ mode = "idle"
    /\ mode' = "running"
    /\ UNCHANGED code
    /\ LET s == Append(stack, Closure(Main))
       IN  \/ /\ Len(frames) < FRAMES_MAX
              /\ stack' = s
              /\ frames' = Append(frames, [closure |-> Main, slots |-> Len(s)])
           \/ /\ Len(frames) = FRAMES_MAX
              /\ stack' = Append(s, String)
              /\ UNCHANGED frames

CompileError ==
    /\ mode = "idle"
    /\ code' = "error"
    /\ UNCHANGED <<stack, frames, mode>>

-----------------------------------------------------------------------------
CallStep ==
    \/ \E n \in 0 .. ArgBound :
          \/ OpCall(n)
          \/ \E name \in Names : OpInvoke(name, n) \/ OpSuperInvoke(name, n)
    \/ OpReturn

OperandStep ==
    \/ \E v \in Storable : OpPush(v)
    \/ \E slot \in 1 .. Len(stack) : OpGetLocal(slot) \/ OpSetLocal(slot)
    \/ OpPop
    \/ UndefinedVariable
    \/ OpEqual \/ BinaryOp \/ OpAdd \/ OpNot \/ OpNegate
    \/ OpTableGet \/ OpTableSet

PropertyStep ==
    \/ \E name \in Names : OpGetProperty(name) \/ OpGetSuper(name)
    \/ OpSetProperty

Next == CallStep \/ OperandStep \/ PropertyStep \/ Interpret \/ CompileError

Spec == Init /\ [][Next]_vars

-----------------------------------------------------------------------------
(* Properties.                                                             *)

TypeOK ==
    /\ stack \in Seq(Values)
    /\ frames \in Seq([closure : Closures, slots : Nat \ {0}])
    /\ Len(frames) <= FRAMES_MAX
    /\ mode \in {"idle", "running"}
    /\ code \in {"ok", "error"}

(* A method runs with `this`, its slot 0, an instance that understands it,   *)
(* whether it was invoked, bound, inherited, called through super or as the  *)
(* initializer of a class; and what it returns can only be judged by that.   *)
MethodsKnowThis ==
    \A i \in 1 .. Len(frames) :
        frames[i].closure \in MethodClosures =>
            LET this == stack[frames[i].slots]
            IN  this.kind = "instance" /\ frames[i].closure \in Understands(this.class)

(* The operands of a call: from its slot 0 up to the frame above it.        *)
Operands(i) ==
    SubSeq(stack, frames[i].slots,
           IF i = Len(frames) THEN Len(stack) ELSE frames[i + 1].slots - 1)

Abstract == INSTANCE Calls WITH
    calls <- [i \in 1 .. Len(frames) |->
                [closure |-> frames[i].closure, operands |-> Operands(i)]]

(* One stack and one sp serve every call as if it had a stack of its own,     *)
(* each line of the REPL ends in a clean machine, and vm_run tells a script   *)
(* that ended from one that failed.                                        *)
ImplementsCalls == Abstract!Spec
=============================================================================
