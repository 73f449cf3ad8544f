------------------------------- MODULE Loops -------------------------------
(***************************************************************************)
(* How the compiler turns blocks, if, while, for, break and continue into  *)
(* jumps (compiler.c), and where those jumps lead when the code runs       *)
(* (vm.c).                                                                 *)
(*                                                                         *)
(* First a program is compiled, one statement at a time, the parser's      *)
(* recursion being the stack `open' of statements that are not finished;   *)
(* then its code runs, every condition being true or false.  Code is the   *)
(* array of bytes of the chunk: code[o + 1] is the byte at offset o, with  *)
(* the operand's value kept in the cell of the opcode, and a cell of no    *)
(* instruction for each byte of the operand.  An expression is one         *)
(* instruction, VALUE.  The statement that is the body of another one is   *)
(* always a block.                                                         *)
(***************************************************************************)
EXTENDS Integers, Sequences, FiniteSets, FiniteSetsExt

CONSTANTS
    MaxStatements, \* statements of the program, at most, a for counting as
                \* two (a bound)
    Captures,   \* may a local variable be captured by a closure: a set of Booleans
    Programs    \* the programs to compile beyond the plain ones, a set of
                \* "nested", "breaks", "break in scope", "break in for",
                \* "captured counter"

ASSUME LoopsAssumption ==
    /\ MaxStatements \in Nat
    /\ Captures \subseteq BOOLEAN
    /\ Programs \subseteq {"nested", "breaks", "break in scope",
                           "break in for", "captured counter"}

VARIABLES
    code,       \* chunk.code
    locals,     \* compiler->locals: the level of each, and whether it is captured
    scope,      \* compiler->scope_level
    open,       \* the statements being compiled, innermost last
    written,    \* the statements begun, as MaxStatements counts them
    loops,      \* for each loop (ghost): its first offset, its loop_bottom, and
                \* the offset that follows it; 0 while it is being compiled
    phase,      \* "compile" or "run"
    pc,         \* frame->ip, as an offset
    stack       \* the frame's stack above its slot 0: the local variable each
                \* value belongs to, by its place in locals, 0 for a temporary

compiling == <<code, locals, scope, open, written, loops>>
running   == <<pc, stack>>
loops_vars == <<code, locals, scope, open, written, loops, phase, pc, stack>>

DUMMY_JUMP_TARGET == 65535
u8(n)  == n % 256
u16(n) == n % 65536

-----------------------------------------------------------------------------
(* Emitting code.                                                          *)

Jumps == {"JUMP", "JUMP_IF_FALSE", "LOOP"}

(* The bytes an instruction takes.                                         *)
Size(op) == IF op \in Jumps THEN 3 ELSE IF op \in {"VALUE", "DEFINE_GLOBAL"} THEN 2 ELSE 1

(* A cell: its opcode and its operand; the local variable whose value it   *)
(* makes or discards (0 for none); for the jump of a break or back to a    *)
(* loop's start, that loop; for a VALUE, how many locals are in scope.     *)
(* The last three are what the properties are about; the code has no such  *)
(* bytes.                                                                  *)
Cell(op, arg, slot, loop, depth) ==
    [op |-> op, arg |-> arg, slot |-> slot, loop |-> loop, depth |-> depth]
Operand == Cell("operand", 0, 0, 0, 0)

Instruction(cell) == <<cell>> \o [i \in 1..Size(cell.op) - 1 |-> Operand]

Value(slot, depth) == Instruction(Cell("VALUE", 0, slot, 0, depth))
Temporary(depth)   == Value(0, depth)
Pop                == Instruction(Cell("POP", 0, 0, 0, 0))

emit_jump(op, loop) == Instruction(Cell(op, DUMMY_JUMP_TARGET, 0, loop, 0))

(* emit_loop, with the code that comes before it.                          *)
emit_loop(c, loop_start, loop) ==
    c \o Instruction(Cell("LOOP", Len(c) - loop_start + 3, 0, loop, 0))

(* Fault: the operand's place is taken for the opcode's.                   *)
patch_jump_operand(c, at) == [c EXCEPT ![at + 1].arg = Len(c) - at - 2]

patch_jump(c, at) == [c EXCEPT ![at + 1].arg = Len(c) - at - 3]

(* The locals that stay when all above a level go, and the code that       *)
(* discards the others.                                                    *)
Kept(ls, level) == SubSeq(ls, 1, Cardinality({i \in DOMAIN ls : ls[i].level <= level}))

(* Fault: the locals go in the order they came.                            *)
scope_exit_forward(ls, level) ==
    [n \in 1..Len(ls) - Len(Kept(ls, level)) |->
        LET i == Len(Kept(ls, level)) + n
        IN  Cell(IF ls[i].captured THEN "CLOSE_UPVALUE" ELSE "POP", 0, i, 0, 0)]

scope_exit(ls, level) ==
    [n \in 1..Len(ls) - Len(Kept(ls, level)) |->
        LET i == Len(ls) + 1 - n
        IN  Cell(IF ls[i].captured THEN "CLOSE_UPVALUE" ELSE "POP", 0, i, 0, 0)]

(* The end of while_statement and for_statement.  A turn of the loop looks  *)
(* for the placeholder of an opcode from byte `from' on, sets its distance, *)
(* and goes on from the sum of the two offsets, which is kept in a byte.    *)
PatchNext(state, op, bottom, adjust) ==
    LET last  == Len(state.code) - 3
        found == {p \in state.from..last :
                     state.code[p + 1].op = op /\ state.code[p + 1].arg = DUMMY_JUMP_TARGET}
        p     == Min(found)
    IN  IF state.from >= last \/ found = {} THEN state
        ELSE [code |-> [state.code EXCEPT ![p + 1].arg = u16(bottom - p - state.from + adjust)],
              from |-> u8(state.from + p)]

(* The loop ends after as many turns as there are placeholders.             *)
PatchFrom(c, op, bottom, adjust) ==
    LET after[turn \in 0..Len(c)] ==
            IF turn = 0 THEN [code |-> c, from |-> 0]
            ELSE PatchNext(after[turn - 1], op, bottom, adjust)
    IN  after[Len(c)].code

(* Fault: the bytes of a break's own jump are not taken off.               *)
PatchLoopFar(c, bottom, adjust) ==
    PatchFrom(PatchFrom(c, "JUMP_IF_FALSE", bottom, -3), "JUMP", bottom, 0)

PatchLoop(c, bottom, adjust) ==
    PatchFrom(PatchFrom(c, "JUMP_IF_FALSE", bottom, -3), "JUMP", bottom, adjust)

-----------------------------------------------------------------------------
(* Compiling.                                                              *)

LoopKinds == {"while", "for"}
Innermost == open[Len(open)]
Outer     == SubSeq(open, 1, Len(open) - 1)

(* compiler->block: the loop a break or a continue is about, by its place  *)
(* in open; 0 for NULL.                                                    *)
Block == Max({0} \cup {i \in DOMAIN open : open[i].kind \in LoopKinds})

(* statement(): another one begins, which counts as so many.               *)
Statements(size) ==
    /\ phase = "compile"
    /\ written + size <= MaxStatements /\ written' = written + size
Statement == Statements(1)

(* The innermost statement that is not finished ends.                      *)
Ends(kind) ==
    /\ phase = "compile" /\ open # <<>> /\ Innermost.kind = kind
    /\ open' = Outer
    /\ UNCHANGED written

Open(kind, level, at, loop) ==
    open' = Append(open, [kind |-> kind, level |-> level, at |-> at, loop |-> loop])

LoopsInit ==
    /\ code = <<>> /\ locals = <<>> /\ scope = 0 /\ open = <<>> /\ written = 0
    /\ loops = <<>> /\ phase = "compile" /\ pc = 0 /\ stack = <<>>

(* var x = e;                                                              *)
VarDeclaration ==
    /\ Statement
    /\ IF scope = 0
       THEN /\ code' = code \o Temporary(Len(locals))
                            \o Instruction(Cell("DEFINE_GLOBAL", 0, 0, 0, 0))
            /\ UNCHANGED locals
       ELSE /\ code' = code \o Value(Len(locals) + 1, Len(locals))
            /\ \E c \in Captures :
                  locals' = Append(locals, [level |-> scope, captured |-> c])
    /\ UNCHANGED <<scope, open, loops, phase, running>>

(* e;                                                                      *)
ExpressionStatement ==
    /\ Statement
    /\ code' = code \o Temporary(Len(locals)) \o Pop
    /\ UNCHANGED <<locals, scope, open, loops, phase, running>>

(* { ... }                                                                 *)
BlockBegin ==
    /\ Statement
    /\ Open("block", scope, 0, 0)
    /\ scope' = scope + 1
    /\ UNCHANGED <<code, locals, loops, phase, running>>

BlockEnd ==
    /\ Ends("block")
    /\ code' = code \o scope_exit(locals, Innermost.level)
    /\ locals' = Kept(locals, Innermost.level)
    /\ scope' = Innermost.level
    /\ UNCHANGED <<loops, phase, running>>

(* if (e) { ...                                                            *)
IfBegin ==
    /\ Statement
    /\ LET condition == code \o Temporary(Len(locals))
       IN  /\ code' = condition \o emit_jump("JUMP_IF_FALSE", 0) \o Pop
           /\ Open("then", scope, Len(condition), 0)
    /\ scope' = scope + 1
    /\ UNCHANGED <<locals, loops, phase, running>>

(* ... }  or  ... } else { ...                                             *)
ThenEnd ==
    /\ phase = "compile" /\ open # <<>> /\ Innermost.kind = "then"
    /\ LET body      == code \o scope_exit(locals, Innermost.level)
           else_jump == Len(body)
           skipped   == patch_jump(body \o emit_jump("JUMP", 0), Innermost.at) \o Pop
       IN  \/ /\ code' = patch_jump(skipped, else_jump)
              /\ scope' = Innermost.level
              /\ open' = Outer
           \/ /\ code' = skipped
              /\ open' = Append(Outer, [Innermost EXCEPT !.kind = "else", !.at = else_jump])
              /\ UNCHANGED scope
    /\ locals' = Kept(locals, Innermost.level)
    /\ UNCHANGED <<written, loops, phase, running>>

ElseEnd ==
    /\ Ends("else")
    /\ code' = patch_jump(code \o scope_exit(locals, Innermost.level), Innermost.at)
    /\ locals' = Kept(locals, Innermost.level)
    /\ scope' = Innermost.level
    /\ UNCHANGED <<loops, phase, running>>

(* The plain programs have a loop at the top or in blocks only.            *)
LoopMayStart ==
    "nested" \in Programs \/ \A i \in DOMAIN open : open[i].kind = "block"

NewLoop == Len(loops) + 1

(* while (e) { ...   The loop has a scope, and its block another.          *)
WhileBegin ==
    /\ Statement /\ LoopMayStart
    /\ code' = code \o Temporary(Len(locals)) \o emit_jump("JUMP_IF_FALSE", 0) \o Pop
    /\ Open("while", scope, Len(code), NewLoop)
    /\ loops' = Append(loops, [top |-> Len(code), bottom |-> 0, after |-> 0])
    /\ scope' = scope + 2
    /\ UNCHANGED <<locals, phase, running>>

WhileEnd ==
    /\ Ends("while")
    /\ LET body == code \o scope_exit(locals, Innermost.level + 1)
           all  == emit_loop(body, Innermost.at, Innermost.loop)
       IN  /\ code' = PatchLoop(all \o Pop, Len(all), -2)
           /\ loops' = [loops EXCEPT ![Innermost.loop].bottom = Len(all),
                                     ![Innermost.loop].after  = Len(all) + 1]
    /\ locals' = Kept(locals, Innermost.level)
    /\ scope' = Innermost.level
    /\ UNCHANGED <<phase, running>>

(* for (initializer; condition; increment) { ...   Each part may be left   *)
(* out.  An initializer that is an expression leaves nothing behind, and   *)
(* is an expression statement here.                                        *)
ForBegin ==
    /\ Statements(2) /\ LoopMayStart
    /\ \E variable, condition, increment \in BOOLEAN :
       LET depth == IF variable THEN Len(locals) + 1 ELSE Len(locals)
           started == IF variable THEN code \o Value(depth, Len(locals)) ELSE code
           tested == IF condition
                     THEN started \o Temporary(depth) \o emit_jump("JUMP_IF_FALSE", 0) \o Pop
                     ELSE started
           stepped == emit_loop(tested \o emit_jump("JUMP", 0) \o Temporary(depth) \o Pop,
                                Len(started), NewLoop)
       IN  /\ IF increment
              THEN /\ code' = patch_jump(stepped, Len(tested))
                   /\ Open("for", scope, Len(tested) + Size("JUMP"), NewLoop)
              ELSE /\ code' = tested
                   /\ Open("for", scope, Len(started), NewLoop)
           /\ IF variable
              THEN \E c \in Captures :
                      /\ "captured counter" \in Programs \/ ~c
                      /\ locals' = Append(locals, [level |-> scope + 1, captured |-> c])
              ELSE UNCHANGED locals
    /\ loops' = Append(loops, [top |-> Len(code), bottom |-> 0, after |-> 0])
    /\ scope' = scope + 2
    /\ UNCHANGED <<phase, running>>

ForEnd ==
    /\ Ends("for")
    /\ LET body    == code \o scope_exit(locals, Innermost.level + 1)
           all     == emit_loop(body, Innermost.at, Innermost.loop)
           patched == PatchLoop(all, Len(all), 0)
       IN  /\ code' = patched \o scope_exit(Kept(locals, Innermost.level + 1), Innermost.level)
                              \o Pop
           /\ loops' = [loops EXCEPT ![Innermost.loop].bottom = Len(all),
                                     ![Innermost.loop].after  = Len(code')]
    /\ locals' = Kept(locals, Innermost.level)
    /\ scope' = Innermost.level
    /\ UNCHANGED <<phase, running>>

(* block.loop_scope_level: of the loop's own scope, in a for.              *)
LoopScopeLevel(b) == IF b.kind = "for" THEN b.level + 1 ELSE b.level

(* continue;                                                               *)
ContinueStatement ==
    /\ Statement /\ Block # 0
    /\ LET b == open[Block]
           discard == Len(locals) - Len(Kept(locals, LoopScopeLevel(b)))
       IN  code' = emit_loop(code \o [n \in 1..discard |-> Pop[1]], b.at, b.loop)
    /\ UNCHANGED <<locals, scope, open, loops, phase, running>>

(* A break of a plain program is the first of its loop, which is a while,  *)
(* and leaves no local variable behind.                                    *)
BreakIsPlain(b) ==
    /\ "break in for" \in Programs \/ b.kind = "while"
    /\ "break in scope" \in Programs \/ Kept(locals, LoopScopeLevel(b)) = locals
    /\ "breaks" \in Programs
       \/ \A o \in DOMAIN code : ~(code[o].op = "JUMP" /\ code[o].loop = b.loop)

(* break;                                                                  *)
BreakStatement ==
    /\ Statement /\ Block # 0
    /\ LET b == open[Block]
       IN  BreakIsPlain(b) /\ code' = code \o emit_jump("JUMP", b.loop)
    /\ UNCHANGED <<locals, scope, open, loops, phase, running>>

(* end(): the code of a script ends with nil and a return.                 *)
End ==
    /\ phase = "compile" /\ open = <<>>
    /\ code' = code \o Instruction(Cell("NIL", 0, 0, 0, 0))
                    \o Instruction(Cell("RETURN", 0, 0, 0, 0))
    /\ phase' = "run"
    /\ UNCHANGED <<locals, scope, open, written, loops, running>>

-----------------------------------------------------------------------------
(* Running.                                                                *)

(* The instruction at pc; none beyond the end of the code, or amid the     *)
(* operand of another.                                                     *)
At(op) == phase = "run" /\ pc < Len(code) /\ code[pc + 1].op = op
Arg    == code[pc + 1].arg

OpPush ==
    /\ At("VALUE") \/ At("NIL")
    /\ stack' = Append(stack, code[pc + 1].slot)
    /\ pc' = pc + Size(code[pc + 1].op)
    /\ UNCHANGED <<compiling, phase>>

OpPop ==
    /\ At("POP") \/ At("CLOSE_UPVALUE") \/ At("DEFINE_GLOBAL")
    /\ stack # <<>>
    /\ stack' = SubSeq(stack, 1, Len(stack) - 1)
    /\ pc' = pc + Size(code[pc + 1].op)
    /\ UNCHANGED <<compiling, phase>>

OpJump ==
    /\ At("JUMP")
    /\ pc' = pc + 3 + Arg
    /\ UNCHANGED <<compiling, phase, stack>>

OpJumpIfFalse ==
    /\ At("JUMP_IF_FALSE")
    /\ \E condition \in BOOLEAN : pc' = IF condition THEN pc + 3 ELSE pc + 3 + Arg
    /\ UNCHANGED <<compiling, phase, stack>>

OpLoop ==
    /\ At("LOOP")
    /\ pc' = pc + 3 - Arg
    /\ UNCHANGED <<compiling, phase, stack>>

Compile ==
    \/ VarDeclaration \/ ExpressionStatement \/ BlockBegin \/ BlockEnd
    \/ IfBegin \/ ThenEnd \/ ElseEnd
    \/ WhileBegin \/ WhileEnd \/ ForBegin \/ ForEnd
    \/ ContinueStatement \/ BreakStatement \/ End
Run == OpPush \/ OpPop \/ OpJump \/ OpJumpIfFalse \/ OpLoop
LoopsNext == Compile \/ Run
LoopsSpec == LoopsInit /\ [][LoopsNext]_loops_vars

-----------------------------------------------------------------------------
(* Properties.                                                             *)

(* Whatever way the conditions go, the next instruction is one the         *)
(* compiler wrote: no jump leads outside the code or amid an operand, no   *)
(* POP takes a value below those of the frame, and where an expression     *)
(* starts the values on the stack are the local variables the compiler     *)
(* counts, in its order -- so that the slot it writes for a variable is    *)
(* the slot of that variable (compiler.c, patch_jump, the ends of          *)
(* while_statement and for_statement, continue_statement, scope_exit).     *)
StackIsScope ==
    phase = "run" =>
        /\ pc < Len(code) /\ code[pc + 1].op # "operand"
        /\ code[pc + 1].op \in {"POP", "CLOSE_UPVALUE", "DEFINE_GLOBAL"} => stack # <<>>
        /\ code[pc + 1].op = "VALUE" => stack = [i \in 1..code[pc + 1].depth |-> i]

(* When the scope of a captured variable ends, the value OP_CLOSE_UPVALUE  *)
(* moves to the upvalues is the one of that variable (compiler.c,          *)
(* scope_exit; vm.c, vm_op_close_upvalue).                                 *)
ClosesItsVariable ==
    At("CLOSE_UPVALUE") => stack # <<>> /\ stack[Len(stack)] = code[pc + 1].slot

(* Once a loop is compiled, each of its breaks leads to the code that      *)
(* follows its body and each of its jumps back to the code before the end  *)
(* of its body; no other loop's code changes that later (compiler.c,       *)
(* while_statement, for_statement, break_statement, continue_statement).   *)
LoopsKeepTheirJumps ==
    \A o \in DOMAIN code :
        LET cell == code[o]
            l    == loops[cell.loop]
            at   == o - 1 + Size(cell.op)
        IN  cell.loop # 0 /\ l.after # 0 =>
                IF cell.op = "LOOP" THEN at - cell.arg \in l.top..l.bottom - 1
                ELSE at + cell.arg \in l.bottom..l.after
=============================================================================
