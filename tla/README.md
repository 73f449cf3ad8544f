# dplang in TLA+

dplang is a small dynamic language: a scanner, a single-pass compiler to
bytecode, a stack machine with closures and classes, a mark-and-sweep collector
and one hash table that serves everything (globals, interned strings, methods,
fields, the language's own tables).  These modules model it from the characters of the
source to the objects on the heap; TLC checks them on small instances and TLAPS
proves invariants and refinements for every instance.

## Inventory

| component | source | state | operations | what is hard |
|---|---|---|---|---|
| hash table | `table.c` | count, capacity, entries | init, free, set, get, delete, add_all, find_string, rehash | tombstones, probes that wrap, counters that leave tombstones out |
| collector | `memory.c` | list of objects, gray stack, marks | mark, trace, weak pass, sweep, collect | marks made outside a collection, objects not yet on the list, what counts as a root |
| allocation sites | `vm.c`, `object.c`, `compiler.c` | objects held by C variables only | every place that makes an object or grows an array | an allocation may collect what is not rooted yet |
| closures and upvalues | `vm.c` | stack, frames, list of open upvalues, upvalues of closures | capture, close, get, set, call, return | variables that outlive their slot, closures that share them, an order the walks rely on |
| instructions, calls, errors | `vm.c` | stack, frames, code of the last line | every opcode, call, return, run-time error, line of the REPL | overlapping frames, one stack, a protocol of return values and messages |
| class declarations | `vm.c` | methods of classes | OP_CLASS, OP_METHOD, OP_INHERIT | methods are copied, not looked up along the superclasses; `super` is a captured variable |
| scopes and variables | `compiler.c` | locals, upvalues and scope level of each nested compiler | declare, define, resolve, scope enter and exit | resolution through nested functions, uninitialised locals, shadowing, arrays that fill |
| statements and jumps | `compiler.c` | code, open loops | if, while, for, break, continue | placeholders found by a search through the code, locals dropped on the way out |
| parser and grammar | `parser.c`, `compiler.c` | current and previous token, panic, had_error | advance, consume, match, synchronize, one function per construct | precedence, assignment targets, termination on erroneous input |
| scanner | `scanner.c` | position, line, inside_comment | scan_token | comments that end with the source, keywords compared by hand-written lengths |
| byte accounting | `memory.c`, `object.c` | total_allocated, next_gc | reallocate | sizes that must match between allocation and release |
| chunks, value arrays | `chunk.c`, `value.c` | growing arrays | write, add constant | bounds of one-byte operands |
| built-ins, printing, dump, main | `builtins.c`, `object.c`, `main.c`, `vm.c` | none | pure functions and I/O | nothing concurrent; edge cases of numbers |

The parser pulls tokens from the scanner one by one; the compiler is called back by the
parser's precedence table and writes into chunks; `vm_interpret` runs the result.
Everything allocates through `reallocate`, which may run a whole collection before it
returns; the collector reads the machine, the compiler chain and the tables as its
roots.  The program is single-threaded: what can interleave is a collection with an
operation that allocates, and one line of the REPL with what earlier lines left
behind.  Nothing is persisted and nothing times out.

## Modules

| module | models | promise it is checked against |
|---|---|---|
| `Table` | `table.c`, one action per call; `table_set` in steps (load test, entry-by-entry rehash, write) | `Map`, a finite map with an answer for every call |
| `Collector` (with `Reach`) | `memory.c`'s collection, one step per object, and the program as the collector sees it | `Gc`, a one-step collection of exactly what is unreachable |
| `Mutator` (with `Reach`) | the places that allocate, as lists of what they do to their C variables and the roots | no object in use is freed |
| `Upvalues` | capture and close of upvalues, closures, frames, the instructions that move slots | `Cells`, one cell per variable, shared by whoever captured it |
| `Interp` | the opcode handlers' effect on stack and frames, `call`, `call_value`, `invoke`, `bind_method`, run-time errors, `vm_run`, `vm_interpret` | `Calls`, a stack of its own for every call |
| `Classes` | OP_CLASS, OP_INHERIT, OP_METHOD, and how calls, `invoke` and `super` find a method | `Dispatch`, single inheritance |
| `Scope` | the compiler's locals and upvalues, scopes, and the resolution of names | `Lexical`, the innermost declaration in scope |
| `Loops` | the compiler's statements with jumps, and the code they become, run in every way | the stack is the compiler's list of locals |
| `Parser` | `parser.c` and the recursive descent of `compiler.c` with the instructions it emits | the grammar in `MCParser`, a table of rules with the code each should become |
| `Scanner` | `scanner.c`, one step per comment, blank or token | the declaration of tokens in `MCScanner` |
| `MC...` | instances: hash functions, symmetry sets, a small class hierarchy, the grammar, the sources | |
| `TableProofs`, `CollectorProofs`, `UpvaluesProofs`, `ScopeProofs`, `ClassesProofs`, `InterpProofs`, `MutatorProofs`, `FrontEndProofs` | theorems (`FrontEndProofs` has those about `Scanner` and about `Loops`, the ends of the way from a text to code; the two share no state) | |

How they fit together.  `Mutator` takes a collection to be `Gc`'s single step, which
`Collector` is proved to implement; `Collector` in turn lets the program reach objects through roots only,
and what its C variables hold in between is what `Mutator` is about.  `Interp` takes the methods of
classes as given constants; `Classes` says which they are.  `Upvalues` takes the captures
of a closure as its program's choice, with the restriction that `Scope` is proved to keep
(`UpvaluesDistinct`: no variable is listed twice).  `Parser` leaves names to `Scope`, jumps to `Loops`, and lets tokens appear
lazily; `Scanner` says which tokens a text has.

### How state and actions correspond to the code

**Table.**  `count`, `capacity`, `entries` are the fields of `struct table`.  `pc`, `todo`,
`fresh` and `moved` are the local state of `table_set` and `adjust_capacity` (the new array
and the loop index).  `table_add_all` is a `todo` of several bindings; `table_delete`
and `table_get` are one step because they never grow.  A probe is the least
number of steps after which `find_entry` stops; if there is none the code
loops for ever and the model goes to `"diverged"`.  Keys have a hash (a
constant function), and may be irreflexive: `value_equal` never holds for NaN and for objects
that are no strings.  `reply` is the answer of the last call that returned.

**Collector.**  Objects are addresses; `refs` is what `gc_blacken_object` would mark.
`raw` holds objects between `object_allocate` and `object_enable_gc`.  `roots` stands for
the stack, frames, open upvalues, globals and the compiler chain, `strings` for
`vm->strings`.  Between collections the program makes, links, stores and drops; `Pin` is
`make_constant`'s `gc_mark_value` outside of a collection.  `MarkRoots`,
`Blacken`, `RemoveWhite`, `Keep`/`Free` and `EndCollect` are `gc_collect`.

**Mutator.**  A place (`site`) is a sequence of steps: what is read into a C variable, pushed,
popped, stored, allocated.  `at` is the next step and `hand` the C variables, each kept as long as a
later step uses it.  A step `alloc` or `new` may run a collection first.  Objects have no kind: a place may
meet any objects its C variables could lead to, so the model has more
heaps than the program, and never fewer.  `Undefined` is the run-time error of a lookup that fails or a value of
the wrong kind.  `Load`, `Drop` and `GiveUp` are the instructions that allocate nothing.  `define_native` and
`vm_init` run before the first line only.

**Upvalues.**  `stack` is the array with what is left above `sp`; `open` is the linked list
from its head; `location` is a slot or 0 for the upvalue's own `closed`.  `OP_CLOSURE`
is a push followed by one action per captured variable (`building` names the closure
meanwhile), which is finer than the code: nothing else can run in between.  `names` and `of`
are history variables that say which variable a slot or an upvalue stands for; no
guard but the choice of a fresh name reads them.  The guards that come from the compiler: a closure lists no
variable twice (`add_upvalue`), callee and arguments are temporaries that nothing
captured, and `OP_POP` is not used on captured variables unless `PopsCaptured`.

**Interp.**  A value is its kind plus, for callables, what the call needs.  What variables,
fields and tables hold is left open: reading one gives any storable value.  A
handler that returns true is `Go`, one that returns false is `Finish`, which does what `vm_run`
and `vm_backtrace` do with the stack it left.  The guards from the compiler: operands of an
instruction lie above slot 0 of the frame, an initializer returns its receiver, a
script returns with its blocks ended, `super` is an ancestor of the receiver's class.
`MethodsRead` says whether programs read a method as a property.

**Classes.**  `methods` is the table of each class, `klass` and `super` the class being declared
and the local variable that the closures of its body capture.  `own` and `line` are history variables: which names
a class declared itself, and its superclasses in order.  Classes are declared in
global variables and by the script, and a declaration may fail half-way (a superclass that is no class) or be
repeated under the same name while instances, bound methods and running calls of the old class go on.

**Scope.**  `functions` is the chain of `struct compiler` from the script to `current`, each with its arrays of
locals and upvalues; `phase` is where the grammar stands, `search` is `named_variable` resolving a
name, one `resolve_local` or `resolve_upvalue` per step, on its way out and back in.  `targets` are assignments whose value is
still being compiled, with the index they keep.  `of` in an upvalue is a ghost: the local it was made for.

**Loops.**  `code` is `chunk.code` byte by byte (an instruction's cell carries its operand, the
operand's bytes follow as cells of no instruction), so offsets, distances and the search for
placeholders are the code's own.  The recursion of the parser is the stack
`open`, whose entries hold what the C functions keep in local variables (`then_jump`,
`else_jump`, `struct block`).  A run follows a compilation: conditions go both ways, and the stack
holds for each value the local it belongs to.  `slot`, `loop` and `depth` of a cell and the variable
`loops` are ghosts the properties read.  Bodies are blocks, an expression is one instruction, and operand
bytes that happen to look like a placeholder are left out, as is code beyond 65,535 bytes.

**Parser.**  The C stack is `todo`, the work the functions in progress have still to do.  The next token is chosen when
the code asks for it, within what the instance allows of each kind.  What is emitted is built into trees
(`operands`), an instruction taking its operands off the end as the machine will take their values.
Unreadable characters are tokens `parser_advance` skips; a block comment without an end makes the scanner return
errors for ever, and there the model stops.  Names never clash here (that is `Scope`'s matter); the limits on constants and
jumps, a class that inherits from itself and literals that are too long for their type are left out.

**Scanner.**  `source` is the text, `current` and `line` the fields of the scanner, `tokens` what the calls
returned.  Characters are ASCII, and of the capitals those that literals use.  After the end of the source every
further call returns the same token, which the model leaves out.

## Runs

| run | question | bounds |
|---|---|---|
| `table_small` | do all calls in any order keep the table a map, with tombstones, collisions, wrapping probes, two growths and a NaN key?  Is every search that does not end due to tombstones, and every interned string found? | sizes 4, 8, 16; at most 4 live entries; load factor 50 so that a growth happens with few keys |
| `collector_small` | does a collection free exactly what is unreachable, and nothing in use at any step, and does it end? | 3 objects with up to 2 references |
| `mutator_small` | does any allocation free what its caller, a half-built object or a function being compiled still uses, while `vm->strings` need not grow? | 4 addresses (3 while the machine runs), 3 stack slots, 2 references, 2 compilers, 1 interned string |
| `mutator_grow` (violation) | is the new string of an addition safe when `vm->strings` grows for it? | as above, with `StringsGrow` |
| `upvalues_small` | are slots and upvalues together the variables of the program? | 4 slots, 2 frames, 2 closures, 2 upvalues, 7 variable names |
| `interp_small` | does one stack serve every call as its own, do methods know `this`, does every line end clean? | 5 slots, 3 frames, a class, a subclass, a function, up to 1 argument |
| `classes_small` | do copied method tables and captured superclasses give single inheritance? | 3 classes in 2 variables, 1 instance, 2 names of which one initializer, 2 calls deep |
| `scope_small` | do names, indices and upvalues lead to the variable the source means? | 1 declared name beside `this` and `super`, 3 functions deep, 1 scope each, arrays of 3 |
| `loops_plain` | does every program of plain loops, ifs and blocks keep its jumps and its stack straight, however it runs? | 5 statements, a `for` counting as two |
| `loops_nested` (violation) | do nested loops work, as the list of finished features says? | 3 statements |
| `parser_small` | is exactly the grammar accepted, and become the right code, and does `compile` return on everything else? | thirteen alphabets, up to 13 tokens |
| `scanner_small` | are the tokens the longest ones their declaration admits, with the right lines? | texts up to 4, 5 or 6 characters over three alphabets, and 18 keywords with a letter more, less or other |

Why the bounds are enough.  Three objects give every shape a trace can
meet: a root, a chain, a cycle, a shared and an unreachable object.  Table sizes
4 to 16 with colliding hashes give probes that wrap, meet tombstones of others and
cross a rehash.  No place of `Mutator` makes more than two objects beside those it
finds, and with four addresses each place runs to its end with collections that free something.  Two closures and two upvalues give sharing, nesting and
transitive capture; four slots give a frame below and above a captured variable.
Three frames give a caller, a callee and one in between, and reach `FRAMES_MAX`.
Three classes give a line of three, two subclasses of one, and a class declared again while
its subclass lives; methods are told apart by the class that declared them, so two names are enough for a
message that is overridden beside one that is inherited.  Three functions give an upvalue taken from an upvalue; arrays of three fill up.
Five statements give a loop with a local, an if inside it, a break or continue there, and an expression
after it that finds the stack as it was left; a `for` brings its own local and parts.
Each alphabet of `MCParser` is the tokens of a few constructs, long enough for two of them inside or after one another.
The proofs below do not depend on any of these bounds.

Deadlock is checked except in the table run (a probe that never
ends stops the program), the Upvalues run (addresses and names are
finite, so a run comes to where nothing more can be made), and the runs of Loops, Parser and Scanner (which
come to their end).

Fairness is assumed where the code is a plain call that runs until it returns: weak fairness of
the collector's steps (`gc_collect`), of the parser's (`compile`) and of the scanner's.  Under it every collection
ends, `compile` returns on every source but one with an unterminated block comment, and the scanner gets
to the end of every source.  No liveness is claimed of programs: they may loop.

### Where the code departs from what it is meant to do

Two runs end in a violation; `PROJECT.json` quotes under `findings` what the repository says there.  The
other departures are excluded from the passing runs by a constant or shown as what they are:

| constant | value that shows it | what happens |
|---|---|---|
| `StringsGrow` (`Mutator`) | `TRUE` (run `mutator_grow`) | `vm_intern_string` holds the new string in a C variable while `table_set` may collect (`vm.c:266`); `HandsAreRooted` fails |
| `Programs` (`Loops`) | `{"nested"}` (run `loops_nested`) | a loop inside a loop or an if takes the other's placeholder (`compiler.c:785`); `LoopsKeepTheirJumps` fails |
| | `{"breaks"}` | the second break of a loop jumps short by the offset of the first; `LoopsKeepTheirJumps` fails with 4 statements |
| | `{"break in scope"}` | break does not discard the locals of the blocks it leaves; `StackIsScope` fails with 5 |
| | `{"break in for"}` | break lands three bytes after the end of a `for` (`compiler.c:694`); `StackIsScope` fails with 4 |
| | `{"captured counter"}` | at the end of a `for` the condition is above the counter, so `OP_CLOSE_UPVALUE` closes the wrong slot (`compiler.c:702`); `ClosesItsVariable` fails with 4 |
| `PopsCaptured` (`Upvalues`) | `TRUE` | `continue` pops captured locals without closing them (`compiler.c:598`), and the end of a `for` its counter; `OpenAreLive` fails |
| `FailsOpen` (`Upvalues`) | `TRUE` | a run-time error drops the list of open upvalues (`vm.c:33`); `OpenAreLive` fails |
| `MethodsRead` (`Interp`) | `TRUE` | reading a method as a property stops the line without a message or a reset (`vm.c:494`); `ImplementsCalls` fails |

In `table_small` nothing is excluded: `table->count` leaves tombstones out, so sets and
deletes of different keys can use up the never-used slots, and a search for an absent key then never ends
(`pc = "diverged"`).  `OnlyTombstonesSpin` says that nothing else makes a search endless.  The same happens with the
sizes of the source: eight keys, each set and deleted in turn, at a capacity of 8.

The behaviours in the table were reproduced with the built program.

## Proofs

*Table.*  `TableInv` is the conjunction of the run's invariants with what makes
them inductive (the array being filled is itself a table with unbroken probes; the
bindings moved so far are those before `moved`).  It rests on lemmas about probes: where
a search stops, that placing an entry at `find_entry`'s slot and putting a tombstone keep every
other search, and that a table with room has a never-used slot when it has no
tombstones.  From it: type correctness, the counters, unique keys, unbroken probes, room,
the rehash, that only tombstones make a search endless, that interned strings are found, and the refinement of `Map` step by step.
The constants need only the assumptions in `Table` (the load factor leaves room at
the least capacity).

*Collector.*  The invariant adds what a sweep in progress has still to walk and that the marked set
is closed once the gray stack is empty.  The refinement to `Gc` maps the heap to what a
collection in progress will leave; it rests on `Reachable` being the least closed set.

*Upvalues.*  `ListInv` is `TypeOK`, the descending order of the list, that exactly the
listed upvalues point into the live stack, the nesting of frames, and that every slot has
a name.  Order and liveness need each other: `close_upvalues` stops early, which is right only
for a descending list, and a descending list stays so only if all that pointed at a
dropped slot were closed.  `CellInv` adds which variable is where: no two slots hold one variable, an open upvalue
stands for the variable of its slot, a closed one for a variable of no slot, no variable has two upvalues (the walk of
`capture_upvalue` finds the one there is because the list descends), and a script runs at the bottom of the
stack.  So a variable has one place, and `ImplementsItsCells` shows each step to be a step of `Cells`: an
assignment through a slot or an upvalue changes what all who can name that variable read and nothing else, and
`close_upvalues` changes nothing.  The theorems assume that programs neither pop captured
variables nor fail while upvalues are open, the two ways the code itself breaks the invariant.

*Scope.*  `Shape` says that locals and upvalues stay within their arrays, and that the slot of the function
itself belongs to no scope, which is why leaving a scope never empties the array.  `UpvaluesLead` (what `OP_CLOSURE` takes
for an upvalue is the variable it was made for) needs that locals that are captured outlive the functions
inside, `UpvaluesDistinct` that `add_upvalue`'s comparison of index and kind is a comparison of variables, and
`InstructionsLead` that the index of an assignment's target survives what its value adds.
`ImplementsItsLexical` is the refinement of `Lexical`.  It needs `Lexes`: while no error was reported, the locals of a
function are in the order of their scopes, but for the one whose initializer is being compiled, and a search for a name
has passed only functions without it.  That order is why both searches from the last local down may stop at the first of
an outer scope: `declare_variable` then sees the whole scope, and `scope_exit` drops exactly its variables.  From the
first error on `Lexical` promises nothing, because the code is thrown away.

*Interp.*  `InterpInv` adds to the types that frames begin one above the other and in the stack, and that a running machine
has a frame.  So no instruction reaches the slot 0 of any call, and a frame, wherever it was
made, keeps the receiver it was given; these theorems hold with `MethodsRead` too, where a
line may leave frames behind.  `ImplementsItsCalls` is the refinement of `Calls`: the part of the stack from a frame's
slots to the next frame's is what that call owns, and each instruction is one of five changes of such parts (it
takes operands and may put a value in their place, assigns to one, enters a callee, returns, stops).  It needs `Tidy`, that
nothing is left between lines and that the first frame is the script's at the bottom of the stack,
and therefore assumes `~MethodsRead`, without which both are false (`src/vm.c:494`).

*Classes.*  `CopiesAreLookups` is inductive together with the facts that a superclass is complete when it is copied
(only the class declared last changes) and that lines are suffixes of one another.  `SuperIsNextInLine` ties every running or bound method to
the line of its receiver; with it each call, bound method and message to super is a step of `Dispatch`.

*Mutator.*  The texts of the places keep a discipline: a C variable that is live at an allocation was taken from a
root, or a root was made to lead to it, and nothing in between can take a root away or cut a way from one.  Four
cases are not in the text alone (`Others`: pinned constants, the constant just stored, the captured superclass that is
popped).  `PlacesSound` checks this text by text; what the discipline is worth is proved once
per operation.  `MutatorInv` adds to it that objects, roots and C variables refer only to objects that exist, that the C variables in use are
those the text says, that the stack is always as high as the rest of the text needs, and that the places that need a compiler run under one.  The theorems assume
`~StringsGrow`: in the other case `HandsAreRooted` is false (`src/vm.c:266`), as the run `mutator_grow` shows.

*Scanner.*  `ScanInv` says that the scanner is at the text or its terminator, that `line` counts the newlines passed, whichever loop
passed them, and that the tokens so far are tokens of the text, in order.  Each loop is described by the position where it
stops, the least at which its test fails, which exists since it stops at the terminator; so no loop runs over the
end.  `SpecMovesOn` is the safe half of `ScanEnds`: a step takes the scanner forward or returns the last token.  The
only assumption, `ScannerAssumption`, is that the text does not contain its terminator.

*Loops.*  The invariant `LoopsInv` has three parts.  `Scoped` is about the compiler alone: locals are in the order of their
scopes, the scopes of the open statements lie one inside the other, a loop is inside blocks only.  `Wrote` is about what
was emitted so far: there is a *shape*, a stack for each offset, such that every instruction leads from the shape of its
offset to that of the next, and of its target when it has one (`Coherent`); the code ends with the compiler's locals on the stack; every
placeholder not yet patched belongs to one open statement, whose end will lead it to an offset with the stack it has
where it stands; and the jumps of each loop lead where the loop's record says (`LoopCells`).  Each emitting function has
a lemma that extends the shape, each end of a statement one that patches into it.  A loop's search for
placeholders finds the exit of its own test and its own break and nothing else, because the rest belong to statements that a
plain program has already closed; its byte-wide index does no harm where there is one of each, and the turns it takes are at most as many as
the code has bytes (`PatchFrom`).  When `end()` is reached no statement is open, so nothing awaits a target, and
the whole code has a shape (`Completed`): a run then keeps to it whichever way its conditions go.  From it: `StackIsScope`,
`ClosesItsVariable` and `LoopsKeepTheirJumps`, for any number of statements, nested as deep as may be.  The
theorems assume `Programs = {}`, since each of the other programs breaks one of them (the table above), and hold while the code is
`Short`: in 65,535 bytes and more, `patch_jump` may write the placeholder itself as a distance (it refuses larger ones,
which the model leaves out), and the ends of loops cut theirs to 16 bits without a check.

Only model-checked: `Parser` and the scanner's `TokensOfTheSource` (their
references are recursive or compare with enumerated sources), out of this prover's reach, and all liveness (TLAPS
proves none under fairness).  `LoopsInv` quantifies over shapes, functions on all offsets, so it is proved without having been a run's invariant;
the three properties it implies are.

## Not modelled

- Byte accounting (`total_allocated`, `next_gc`): the models let a collection start at any
  allocation, so no property depends on when the counters would start one.  The drift of the
  counters (`object.c:110`) is listed as a hazard.
- The growth of the gray stack, of chunks and of value arrays: reallocated arrays, whose only effect on the rest is the
  allocation, which `Mutator` has.
- The text of string literals and their escapes, numeric values and the arithmetic of numbers, formatting and
  printing.  Hazards in them are listed without a property.
- `and` and `or` as jumps (`Parser` has their operands), limits on constants and on the length of jumps.
- The bytecode dump, the disassembler, `main.c`'s reading of files and lines: pure I/O.
- Depth of the C stack and of `vm->stack` (`stack_push` does not test it): what lies behind an array is not in the models.
- The test framework and the build files.
