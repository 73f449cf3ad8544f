------------------------------ MODULE Upvalues ------------------------------
(***************************************************************************)
(* vm.c: local variables on the value stack, the closures that capture them *)
(* and vm->open_upvalues, the list that ties a captured variable to its slot *)
(* until close_upvalues moves it into the upvalue.  What the values are does *)
(* not matter here, and neither does what a program computes: between any    *)
(* two steps of this module it may do anything that leaves the stack alone. *)
(***************************************************************************)
EXTENDS Naturals, Sequences, Functions

CONSTANTS
    Values, Nil,
    Closures,       \* addresses of closures, made once each
    Main,           \* the closure of a script; it captures nothing
    Upvalues,       \* addresses of upvalues
    Variables,      \* names for the variables of a run
    STACK_MAX,
    FRAMES_MAX,
    MaxCaptures,    \* bound: upvalues of a closure
    MaxArgs,        \* bound: arguments of a call
    PopsCaptured,   \* programs pop captured variables (continue, for)
    FailsOpen       \* programs fail at run time while upvalues are open

ASSUME UpvaluesAssumption ==
    /\ Nil \in Values
    /\ Main \in Closures
    /\ Variables # {}
    /\ STACK_MAX \in Nat
    /\ FRAMES_MAX \in Nat \ {0}
    /\ PopsCaptured \in BOOLEAN
    /\ FailsOpen \in BOOLEAN

VARIABLES
    stack,          \* vm->stack; slots from sp on keep what was there
    sp,
    frames,         \* closure and slots of each call frame
    open,           \* vm->open_upvalues, from its head
    location,       \* upvalue->location: a slot, or 0 for its own `closed`
    closed,         \* upvalue->closed
    upvalues,       \* closure->upvalues
    created,        \* upvalues that exist
    made,           \* closures that exist
    building,       \* the closure OP_CLOSURE is filling in, or Main
    names,          \* history: the variable each slot holds
    of              \* history: the variable an upvalue stands for

machine == <<stack, sp, frames, names>>
heap == <<open, location, closed, upvalues, created, made, building, of>>
vars == <<machine, heap>>

frame == frames[Len(frames)]
Slots == frame.slots
Upvalue(k) == upvalues[frame.closure][k]

Deref(u) == IF location[u] = 0 THEN closed[u] ELSE stack[location[u]]

IsOpen(slot) == \E u \in created : location[u] = slot

(* How many upvalues from the head of the list on lie above a slot: where    *)
(* the walks of capture_upvalue and close_upvalues stop.                   *)
Above(slot) ==
    CHOOSE n \in 0 .. Len(open) :
        /\ \A i \in 1 .. n : location[open[i]] > slot
        /\ n < Len(open) => location[open[n + 1]] <= slot

(* The variables that closures have captured; a new variable is none of     *)
(* these and in none of the slots below it.                                *)
Captured ==
    UNION {{of[upvalues[c][k]] : k \in DOMAIN upvalues[c]} : c \in Closures}

Live == Range(names) \cup Captured

Unused(below) == Variables \ (Range(below) \cup Captured)

Fresh(below) == CHOOSE x \in Variables : x \in Unused(below)

Init ==
    /\ stack = [i \in 1 .. STACK_MAX |-> Nil]
    /\ sp = 0
    /\ frames = <<>>
    /\ open = <<>>
    /\ location = [u \in Upvalues |-> 0]
    /\ closed = [u \in Upvalues |-> Nil]
    /\ upvalues = [c \in Closures |-> <<>>]
    /\ created = {}
    /\ made = {Main}
    /\ building = Main
    /\ names = <<>>
    /\ of = [u \in Upvalues |-> CHOOSE x \in Variables : TRUE]

-----------------------------------------------------------------------------
(* Instructions on the stack alone.                                        *)

(* stack_push does not compare sp with STACK_MAX; the runs stay below it.    *)
Push(v) ==
    /\ sp < STACK_MAX
    /\ Unused(names) # {}
    /\ stack' = [stack EXCEPT ![sp + 1] = v]
    /\ sp' = sp + 1
    /\ names' = Append(names, Fresh(names))

(* An instruction runs in a frame, and OP_CLOSURE to its end.               *)
Ready == frames # <<>> /\ building = Main

OpConstant(v) ==
    /\ Ready
    /\ Push(v)
    /\ UNCHANGED <<frames, heap>>

OpGetLocal(slot) ==
    /\ Ready
    /\ slot \in Slots .. sp
    /\ Push(stack[slot])
    /\ UNCHANGED <<frames, heap>>

OpSetLocal(slot) ==
    /\ Ready
    /\ slot \in Slots + 1 .. sp - 1
    /\ stack' = [stack EXCEPT ![slot] = stack[sp]]
    /\ UNCHANGED <<sp, frames, names, heap>>

(* scope_exit emits OP_POP for the variables no function captures; continue  *)
(* and the end of a for loop emit it for the others too.                   *)
OpPop ==
    /\ Ready
    /\ sp > Slots
    /\ IsOpen(sp) => PopsCaptured
    /\ sp' = sp - 1
    /\ names' = SubSeq(names, 1, sp - 1)
    /\ UNCHANGED <<stack, frames, heap>>

OpGetUpvalue(k) ==
    /\ Ready
    /\ k \in DOMAIN upvalues[frame.closure]
    /\ Push(Deref(Upvalue(k)))
    /\ UNCHANGED <<frames, heap>>

OpSetUpvalue(k) ==
    /\ Ready
    /\ k \in DOMAIN upvalues[frame.closure]
    /\ sp > Slots
    /\ LET u == Upvalue(k)
       IN  IF location[u] = 0
           THEN closed' = [closed EXCEPT ![u] = stack[sp]] /\ UNCHANGED stack
           ELSE stack' = [stack EXCEPT ![location[u]] = stack[sp]] /\ UNCHANGED closed
    /\ UNCHANGED <<sp, frames, names, open, location, upvalues, created, made, building, of>>

-----------------------------------------------------------------------------
(* OP_CLOSURE: the closure is pushed, then its upvalues are filled in.      *)

(* Fault: the closure is filled in and not put on the list of objects.       *)
OpClosureUnlinked(c, v) ==
    /\ Ready
    /\ c \notin made
    /\ Push(v)
    /\ building' = c
    /\ UNCHANGED <<frames, open, location, closed, upvalues, created, made, of>>

OpClosure(c, v) ==
    /\ Ready
    /\ c \notin made
    /\ Push(v)
    /\ made' = made \cup {c}
    /\ building' = c
    /\ UNCHANGED <<frames, open, location, closed, upvalues, created, of>>

(* add_upvalue lists no variable twice.                                     *)
Attach(u) ==
    /\ Len(upvalues[building]) < MaxCaptures
    /\ u \notin Range(upvalues[building])
    /\ upvalues' = [upvalues EXCEPT ![building] = Append(@, u)]
    /\ UNCHANGED <<machine, closed, made, building>>

(* capture_upvalue finds the upvalue of the slot on the list ...            *)
CaptureOpen(slot) ==
    LET n == Above(slot)
    IN  /\ building # Main
        /\ slot \in Slots .. sp
        /\ n < Len(open)
        /\ location[open[n + 1]] = slot
        /\ Attach(open[n + 1])
        /\ UNCHANGED <<open, location, created, of>>

(* Fault: the new upvalue goes to the head of the list.                     *)
CaptureAtHead(slot, u) ==
    LET n == Above(slot)
    IN  /\ building # Main
        /\ slot \in Slots .. sp
        /\ ~ (n < Len(open) /\ location[open[n + 1]] = slot)
        /\ u \notin created
        /\ created' = created \cup {u}
        /\ open' = <<u>> \o open
        /\ location' = [location EXCEPT ![u] = slot]
        /\ of' = [of EXCEPT ![u] = names[slot]]
        /\ Attach(u)

(* ... or makes one and links it in at its place.                           *)
CaptureNew(slot, u) ==
    LET n == Above(slot)
    IN  /\ building # Main
        /\ slot \in Slots .. sp
        /\ ~ (n < Len(open) /\ location[open[n + 1]] = slot)
        /\ u \notin created
        /\ created' = created \cup {u}
        /\ open' = Append(SubSeq(open, 1, n), u) \o SubSeq(open, n + 1, Len(open))
        /\ location' = [location EXCEPT ![u] = slot]
        /\ of' = [of EXCEPT ![u] = names[slot]]
        /\ Attach(u)

CaptureOuter(k) ==
    /\ building # Main
    /\ k \in DOMAIN upvalues[frame.closure]
    /\ Attach(Upvalue(k))
    /\ UNCHANGED <<open, location, created, of>>

ClosureMade ==
    /\ building # Main
    /\ building' = Main
    /\ UNCHANGED <<machine, open, location, closed, upvalues, created, made, of>>

-----------------------------------------------------------------------------
(* The end of variables.                                                   *)

(* Fault: the variable is not copied into the upvalue.                      *)
CloseWithoutCopy(last) ==
    LET n == Above(last - 1)
        gone == {open[i] : i \in 1 .. n}
    IN  /\ location' = [u \in Upvalues |-> IF u \in gone THEN 0 ELSE location[u]]
        /\ UNCHANGED closed
        /\ open' = SubSeq(open, n + 1, Len(open))

CloseUpvalues(last) ==
    LET n == Above(last - 1)
        gone == {open[i] : i \in 1 .. n}
    IN  /\ closed' = [u \in Upvalues |->
                        IF u \in gone THEN stack[location[u]] ELSE closed[u]]
        /\ location' = [u \in Upvalues |-> IF u \in gone THEN 0 ELSE location[u]]
        /\ open' = SubSeq(open, n + 1, Len(open))

OpCloseUpvalue ==
    /\ Ready
    /\ sp > Slots
    /\ CloseUpvalues(sp)
    /\ sp' = sp - 1
    /\ names' = SubSeq(names, 1, sp - 1)
    /\ UNCHANGED <<stack, frames, upvalues, created, made, building, of>>

(* Callee and arguments are temporaries, which no closure captures.         *)
Call(c, arg_count) ==
    /\ Ready
    /\ Len(frames) < FRAMES_MAX
    /\ sp - arg_count > Slots
    /\ \A slot \in sp - arg_count .. sp : ~ IsOpen(slot)
    /\ frames' = Append(frames, [closure |-> c, slots |-> sp - arg_count])
    /\ UNCHANGED <<stack, sp, names, heap>>

(* Fault: the variables of the frame stay open.                             *)
ReturnOpen ==
    /\ Ready
    /\ Len(frames) > 1
    /\ sp > Slots
    /\ frames' = SubSeq(frames, 1, Len(frames) - 1)
    /\ sp' = Slots
    /\ stack' = [stack EXCEPT ![Slots] = stack[sp]]
    /\ names' = LET below == SubSeq(names, 1, Slots - 1)
                IN  Append(below, Fresh(below))
    /\ UNCHANGED heap

(* The result is a temporary.                                              *)
OpReturn ==
    /\ Ready
    /\ Len(frames) > 1
    /\ sp > Slots
    /\ ~ IsOpen(sp)
    /\ Unused(SubSeq(names, 1, Slots - 1)) # {}
    /\ CloseUpvalues(Slots)
    /\ frames' = SubSeq(frames, 1, Len(frames) - 1)
    /\ sp' = Slots
    /\ stack' = [stack EXCEPT ![Slots] = stack[sp]]
    /\ names' = LET below == SubSeq(names, 1, Slots - 1)
                IN  Append(below, Fresh(below))
    /\ UNCHANGED <<upvalues, created, made, building, of>>

(* The script returns from its only frame; its blocks have ended.           *)
ScriptReturn ==
    /\ Ready
    /\ Len(frames) = 1
    /\ sp = Slots + 1
    /\ CloseUpvalues(Slots)
    /\ frames' = <<>>
    /\ sp' = sp - 2
    /\ names' = SubSeq(names, 1, sp - 2)
    /\ UNCHANGED <<stack, upvalues, created, made, building, of>>

(* vm_interpret with the next line or script.                               *)
Interpret(v) ==
    /\ frames = <<>>
    /\ Push(v)
    /\ frames' = <<[closure |-> Main, slots |-> sp + 1]>>
    /\ UNCHANGED heap

(* A run-time error: vm_backtrace calls stack_reset, which forgets the list  *)
(* of open upvalues without closing them.                                  *)
Fail ==
    /\ Ready
    /\ open # <<>> => FailsOpen
    /\ sp' = 0
    /\ frames' = <<>>
    /\ open' = <<>>
    /\ names' = <<>>
    /\ UNCHANGED <<stack, location, closed, upvalues, created, made, building, of>>

-----------------------------------------------------------------------------
StackStep ==
    \/ \E v \in Values : OpConstant(v)
    \/ \E slot \in 1 .. sp : OpGetLocal(slot) \/ OpSetLocal(slot)
    \/ OpPop
    \/ \E k \in 1 .. MaxCaptures : OpGetUpvalue(k) \/ OpSetUpvalue(k)

ClosureStep ==
    \/ \E c \in Closures, v \in Values : OpClosure(c, v)
    \/ \E slot \in 1 .. sp :
          CaptureOpen(slot) \/ \E u \in Upvalues : CaptureNew(slot, u)
    \/ \E k \in 1 .. MaxCaptures : CaptureOuter(k)
    \/ ClosureMade

CallStep ==
    \/ OpCloseUpvalue
    \/ \E c \in made, n \in 0 .. MaxArgs : Call(c, n)
    \/ OpReturn
    \/ ScriptReturn
    \/ \E v \in Values : Interpret(v)
    \/ Fail

Next == StackStep \/ ClosureStep \/ CallStep

Spec == Init /\ [][Next]_vars

-----------------------------------------------------------------------------
(* Properties.                                                             *)

TypeOK ==
    /\ stack \in [1 .. STACK_MAX -> Values]
    /\ sp \in 0 .. STACK_MAX
    /\ frames \in Seq([closure : made, slots : 1 .. STACK_MAX])
    /\ open \in Seq(created)
    /\ location \in [Upvalues -> 0 .. STACK_MAX]
    /\ closed \in [Upvalues -> Values]
    /\ upvalues \in [Closures -> Seq(created)]
    /\ created \subseteq Upvalues
    /\ made \subseteq Closures /\ Main \in made
    /\ building \in made
    /\ names \in Seq(Variables)
    /\ of \in [Upvalues -> Variables]

(* The list is strictly descending: close_upvalues may stop at the first     *)
(* upvalue below `last`, and no slot has two upvalues to drift apart.       *)
OpenSorted ==
    \A i, j \in 1 .. Len(open) :
        i < j => location[open[i]] > location[open[j]]

(* An upvalue is on the list exactly as long as it points into the stack,    *)
(* and then at a slot that is in use: it cannot read or write a variable     *)
(* other than the one it captured.                                         *)
OpenAreLive ==
    /\ Range(open) = {u \in created : location[u] # 0}
    /\ \A u \in created : location[u] <= sp

(* A frame begins at or below the top, above the frame that called it, and   *)
(* its return leaves the caller's slots alone.                             *)
FramesNest ==
    /\ frames # <<>> => Slots <= sp
    /\ \A i, j \in 1 .. Len(frames) : i < j => frames[i].slots < frames[j].slots

(* The value of a variable: in its slot if it has one, or in its upvalue.    *)
Store ==
    [x \in Live |->
        IF x \in Range(names)
        THEN stack[CHOOSE i \in DOMAIN names : names[i] = x]
        ELSE closed[CHOOSE u \in created : of[u] = x]]

Abstract == INSTANCE Cells WITH
    store <- Store,
    scope <- names,
    calls <- frames,
    captured <- [c \in Closures |->
                    [k \in DOMAIN upvalues[c] |-> of[upvalues[c][k]]]]

(* Slots and upvalues, open and closed, are the variables of the program:    *)
(* every read gives what was last written to that variable by any function. *)
ImplementsCells == Abstract!Spec
=============================================================================
