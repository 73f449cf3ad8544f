--------------------------- MODULE MutatorProofs ---------------------------
(***************************************************************************)
(* Mutator for every number of objects and every bound, while vm->strings is *)
(* below its load limit: whenever a collection may start, each object in the *)
(* hands of the running function is one the collector finds from its roots,  *)
(* and nothing that can be reached is ever freed.                           *)
(*                                                                         *)
(* The proof is a discipline that the texts of the places keep, checked text *)
(* by text, and its soundness, proved once for each operation.              *)
(***************************************************************************)
EXTENDS Mutator, FiniteSetTheorems, SequenceTheorems, TLAPS

-----------------------------------------------------------------------------
(* The discipline.                                                         *)

(* A step that takes x from a root, or makes a root lead to it.              *)
Anchors(step, x) ==
    \/ step.op \in {"peek", "const", "compiling", "interned", "follow"} /\ step.var = x
    \/ step.op \in {"push", "open"} /\ step.uses = {x}
    \/ step.op \in {"root", "intern"} /\ x \in step.uses

(* A step that can neither take a root away nor cut a way from one.          *)
Keeps(step, x) ==
    /\ step.op \notin {"pop", "close", "replace", "reset", "store", "constant", "copy"}
    /\ step.op = "new" => step.var # x

(* Before step i of a text, a root leads to x.                              *)
Anchored(text, i, x) ==
    \E j \in 1 .. i - 1 : Anchors(text[j], x) /\ \A k \in j + 1 .. i - 1 : Keeps(text[k], x)

(* Before step i, x has been set and will be used.                          *)
Live(text, i, x) ==
    /\ \E j \in 1 .. i - 1 : text[j].var = x
    /\ \E k \in i .. Len(text) : x \in text[k].uses

Setting == {"peek", "const", "compiling", "interned", "follow", "new", "pop", "close"}

(* A text uses what it has set.                                            *)
WellFormed(text) ==
    /\ Len(text) \in Nat \ {0} /\ DOMAIN text = 1 .. Len(text)
    /\ \A i \in 1 .. Len(text) :
          /\ text[i].depth \in Nat
          /\ "-" \notin text[i].uses
          /\ \A x \in text[i].uses : \E j \in 1 .. i - 1 : text[j].var = x
          /\ text[i].op \notin Setting => text[i].var \in {"-"} \cup text[i].uses
          /\ text[i].op \in {"store", "constant", "copy"} => text[i].var \in text[i].uses
          /\ text[i].op \in Setting \ {"pop"} => text[i].var # "-"
          /\ text[i].op = "reset" => i = Len(text)

(* Where it is not the text alone that shows it: a constant is marked, or    *)
(* just stored; a captured superclass is popped.                           *)
Others ==
    {<<"string_constant", 5, "string">>, <<"end_function", 5, "inner">>,
     <<"end_function", 7, "inner">>, <<"get_super", 5, "super">>}

(* Wherever a collection may start, roots lead to all that is in use.         *)
Disciplined(s, text) ==
    \A i \in 1 .. Len(text) :
        /\ text[i].op \in {"alloc", "new"} =>
              \A x : Live(text, i, x) => Anchored(text, i, x) \/ <<s, i, x>> \in Others
        /\ text[i].op = "follow" =>
              \A x \in text[i].uses : Anchored(text, i, x) \/ <<s, i, x>> \in Others

(* The places that ask for the function of the open compiler, or close it.    *)
NeedsCompiler(s, text) ==
    \A i \in 1 .. Len(text) :
        /\ text[i].op = "compiling" => s \in {"string_constant", "end_function"} /\ i = 3
        /\ text[i].op = "close" => s \in {"end_function", "end_failed", "interpret"} /\ i = 2

Sound(s) ==
    LET text == Steps[s]
    IN  WellFormed(text) /\ Disciplined(s, text) /\ NeedsCompiler(s, text)

-----------------------------------------------------------------------------
(* The texts.                                                              *)

LEMMA InitStringSound == Sound("init_string")
<1> DEFINE text == Steps["init_string"]
<1>0. text = InitString
  BY DEF Steps
<1> HIDE DEF text
<1>1. /\ DOMAIN text = 1 .. 3 /\ Len(text) = 3
      /\ text[1].op = "alloc" /\ text[1].var = "-" /\ text[1].uses = {} /\ text[1].depth = 0
      /\ text[2].op = "new" /\ text[2].var = "name" /\ text[2].uses = {} /\ text[2].depth = 0
      /\ text[3].op = "root" /\ text[3].var = "-" /\ text[3].uses = {"name"} /\ text[3].depth = 0
  BY <1>0 DEF InitString, Alloc, New, Root, Step
<1>2. WellFormed(text)
  BY <1>1 DEF WellFormed, Setting
<1>3. NeedsCompiler("init_string", text)
  BY <1>1 DEF NeedsCompiler
<1>4. Disciplined("init_string", text)
  BY <1>1 DEF Disciplined, Live, Anchored, Anchors, Keeps, Others
<1>5. QED BY <1>2, <1>3, <1>4 DEF Sound, text

LEMMA DefineNativeSound == Sound("define_native")
<1> DEFINE text == Steps["define_native"]
<1>0. text = DefineNative
  BY DEF Steps
<1> HIDE DEF text
<1>1. /\ DOMAIN text = 1 .. 11 /\ Len(text) = 11
      /\ text[1].op = "alloc" /\ text[1].var = "-" /\ text[1].uses = {} /\ text[1].depth = 0
      /\ text[2].op = "new" /\ text[2].var = "name" /\ text[2].uses = {} /\ text[2].depth = 0
      /\ text[3].op = "push" /\ text[3].var = "-" /\ text[3].uses = {"name"} /\ text[3].depth = 0
      /\ text[4].op = "new" /\ text[4].var = "native" /\ text[4].uses = {} /\ text[4].depth = 0
      /\ text[5].op = "push" /\ text[5].var = "-" /\ text[5].uses = {"native"} /\ text[5].depth = 0
      /\ text[6].op = "peek" /\ text[6].var = "name" /\ text[6].uses = {} /\ text[6].depth = 1
      /\ text[7].op = "peek" /\ text[7].var = "native" /\ text[7].uses = {} /\ text[7].depth = 0
      /\ text[8].op = "alloc" /\ text[8].var = "-" /\ text[8].uses = {} /\ text[8].depth = 0
      /\ text[9].op = "root" /\ text[9].var = "-" /\ text[9].uses = {"name", "native"} /\ text[9].depth = 0
      /\ text[10].op = "pop" /\ text[10].var = "-" /\ text[10].uses = {} /\ text[10].depth = 0
      /\ text[11].op = "pop" /\ text[11].var = "-" /\ text[11].uses = {} /\ text[11].depth = 0
  BY <1>0 DEF DefineNative, Alloc, New, Peek, Pop, Push, Root, Step
<1>2. WellFormed(text)
  BY <1>1 DEF WellFormed, Setting
<1>3. NeedsCompiler("define_native", text)
  BY <1>1 DEF NeedsCompiler
<1>4. Disciplined("define_native", text)
  <2>1. \A i \in 1 .. Len(text) : (text[i].op \in {"alloc", "new"} => i \in {1, 2, 4, 8}) /\ text[i].op # "follow"
    BY <1>1
  <2>2. ASSUME NEW x, Live(text, 1, x) PROVE Anchored(text, 1, x)
    BY <1>1, <2>2 DEF Live, Anchored, Anchors, Keeps
  <2>3. ASSUME NEW x, Live(text, 2, x) PROVE Anchored(text, 2, x)
    BY <1>1, <2>3 DEF Live, Anchored, Anchors, Keeps
  <2>4. ASSUME NEW x, Live(text, 4, x) PROVE Anchored(text, 4, x)
    BY <1>1, <2>4 DEF Live, Anchored, Anchors, Keeps
  <2>5. ASSUME NEW x, Live(text, 8, x) PROVE Anchored(text, 8, x)
    BY <1>1, <2>5 DEF Live, Anchored, Anchors, Keeps
  <2>6. QED BY <2>1, <2>2, <2>3, <2>4, <2>5 DEF Disciplined
<1>5. QED BY <1>2, <1>3, <1>4 DEF Sound, text

LEMMA CompilerInitSound == Sound("compiler_init")
<1> DEFINE text == Steps["compiler_init"]
<1>0. text = CompilerInit
  BY DEF Steps
<1> HIDE DEF text
<1>1. /\ DOMAIN text = 1 .. 6 /\ Len(text) = 6
      /\ text[1].op = "alloc" /\ text[1].var = "-" /\ text[1].uses = {} /\ text[1].depth = 0
      /\ text[2].op = "new" /\ text[2].var = "function" /\ text[2].uses = {} /\ text[2].depth = 0
      /\ text[3].op = "open" /\ text[3].var = "-" /\ text[3].uses = {"function"} /\ text[3].depth = 0
      /\ text[4].op = "alloc" /\ text[4].var = "-" /\ text[4].uses = {} /\ text[4].depth = 0
      /\ text[5].op = "new" /\ text[5].var = "name" /\ text[5].uses = {} /\ text[5].depth = 0
      /\ text[6].op = "store" /\ text[6].var = "function" /\ text[6].uses = {"name", "function"} /\ text[6].depth = 0
  BY <1>0 DEF CompilerInit, Alloc, New, Open, Store, Step
<1>2. WellFormed(text)
  BY <1>1 DEF WellFormed, Setting
<1>3. NeedsCompiler("compiler_init", text)
  BY <1>1 DEF NeedsCompiler
<1>4. Disciplined("compiler_init", text)
  BY <1>1 DEF Disciplined, Live, Anchored, Anchors, Keeps, Others
<1>5. QED BY <1>2, <1>3, <1>4 DEF Sound, text

LEMMA WriteChunkSound == Sound("write_chunk")
<1> DEFINE text == Steps["write_chunk"]
<1>0. text = WriteChunk
  BY DEF Steps
<1> HIDE DEF text
<1>1. /\ DOMAIN text = 1 .. 1 /\ Len(text) = 1
      /\ text[1].op = "alloc" /\ text[1].var = "-" /\ text[1].uses = {} /\ text[1].depth = 0
  BY <1>0 DEF WriteChunk, Alloc, Step
<1>2. WellFormed(text)
  BY <1>1 DEF WellFormed, Setting
<1>3. NeedsCompiler("write_chunk", text)
  BY <1>1 DEF NeedsCompiler
<1>4. Disciplined("write_chunk", text)
  BY <1>1 DEF Disciplined, Live, Anchored, Anchors, Keeps, Others
<1>5. QED BY <1>2, <1>3, <1>4 DEF Sound, text

LEMMA StringConstantText ==
    LET text == Steps["string_constant"]
    IN  /\ DOMAIN text = 1 .. 6 /\ Len(text) = 6
        /\ text[1].op = "alloc" /\ text[1].var = "-" /\ text[1].uses = {}
        /\ text[2].op = "new" /\ text[2].var = "string" /\ text[2].uses = {}
        /\ text[3].op = "compiling" /\ text[3].var = "function" /\ text[3].uses = {}
        /\ text[4].op = "pin" /\ text[4].var = "-" /\ text[4].uses = {"string"}
        /\ text[5].op = "alloc" /\ text[5].var = "-" /\ text[5].uses = {}
        /\ text[6].op = "constant" /\ text[6].var = "function" /\ text[6].uses = {"function", "string"}
BY DEF Steps, StringConstant, AddConstant, Alloc, Compiling, New, Pin, Step

LEMMA StringConstantSound == Sound("string_constant")
<1> DEFINE text == Steps["string_constant"]
<1>0. text = StringConstant
  BY DEF Steps
<1> HIDE DEF text
<1>1. /\ DOMAIN text = 1 .. 6 /\ Len(text) = 6
      /\ text[1].op = "alloc" /\ text[1].var = "-" /\ text[1].uses = {} /\ text[1].depth = 0
      /\ text[2].op = "new" /\ text[2].var = "string" /\ text[2].uses = {} /\ text[2].depth = 0
      /\ text[3].op = "compiling" /\ text[3].var = "function" /\ text[3].uses = {} /\ text[3].depth = 0
      /\ text[4].op = "pin" /\ text[4].var = "-" /\ text[4].uses = {"string"} /\ text[4].depth = 0
      /\ text[5].op = "alloc" /\ text[5].var = "-" /\ text[5].uses = {} /\ text[5].depth = 0
      /\ text[6].op = "constant" /\ text[6].var = "function" /\ text[6].uses = {"function", "string"} /\ text[6].depth = 0
  BY <1>0 DEF StringConstant, AddConstant, Alloc, Compiling, New, Pin, Step
<1>2. WellFormed(text)
  BY <1>1 DEF WellFormed, Setting
<1>3. NeedsCompiler("string_constant", text)
  BY <1>1 DEF NeedsCompiler
<1>4. Disciplined("string_constant", text)
  BY <1>1 DEF Disciplined, Live, Anchored, Anchors, Keeps, Others
<1>5. QED BY <1>2, <1>3, <1>4 DEF Sound, text

LEMMA EndFunctionText ==
    LET text == Steps["end_function"]
    IN  /\ DOMAIN text = 1 .. 8 /\ Len(text) = 8
        /\ text[1].op = "alloc" /\ text[1].var = "-" /\ text[1].uses = {}
        /\ text[2].op = "close" /\ text[2].var = "inner" /\ text[2].uses = {}
        /\ text[3].op = "compiling" /\ text[3].var = "outer" /\ text[3].uses = {}
        /\ text[4].op = "pin" /\ text[4].var = "-" /\ text[4].uses = {"inner"}
        /\ text[5].op = "alloc" /\ text[5].var = "-" /\ text[5].uses = {}
        /\ text[6].op = "store" /\ text[6].var = "outer" /\ text[6].uses = {"inner", "outer"}
        /\ text[7].op = "alloc" /\ text[7].var = "-" /\ text[7].uses = {}
        /\ text[8].op = "read" /\ text[8].var = "-" /\ text[8].uses = {"inner"}
BY DEF Steps, EndFunction, Alloc, Close, Compiling, Pin, Read, Store, Step

LEMMA EndFunctionSound == Sound("end_function")
<1> DEFINE text == Steps["end_function"]
<1>0. text = EndFunction
  BY DEF Steps
<1> HIDE DEF text
<1>1. /\ DOMAIN text = 1 .. 8 /\ Len(text) = 8
      /\ text[1].op = "alloc" /\ text[1].var = "-" /\ text[1].uses = {} /\ text[1].depth = 0
      /\ text[2].op = "close" /\ text[2].var = "inner" /\ text[2].uses = {} /\ text[2].depth = 0
      /\ text[3].op = "compiling" /\ text[3].var = "outer" /\ text[3].uses = {} /\ text[3].depth = 0
      /\ text[4].op = "pin" /\ text[4].var = "-" /\ text[4].uses = {"inner"} /\ text[4].depth = 0
      /\ text[5].op = "alloc" /\ text[5].var = "-" /\ text[5].uses = {} /\ text[5].depth = 0
      /\ text[6].op = "store" /\ text[6].var = "outer" /\ text[6].uses = {"inner", "outer"} /\ text[6].depth = 0
      /\ text[7].op = "alloc" /\ text[7].var = "-" /\ text[7].uses = {} /\ text[7].depth = 0
      /\ text[8].op = "read" /\ text[8].var = "-" /\ text[8].uses = {"inner"} /\ text[8].depth = 0
  BY <1>0 DEF EndFunction, Alloc, Close, Compiling, Pin, Read, Store, Step
<1>2. WellFormed(text)
  BY <1>1 DEF WellFormed, Setting
<1>3. NeedsCompiler("end_function", text)
  BY <1>1 DEF NeedsCompiler
<1>4. Disciplined("end_function", text)
  BY <1>1 DEF Disciplined, Live, Anchored, Anchors, Keeps, Others
<1>5. QED BY <1>2, <1>3, <1>4 DEF Sound, text

LEMMA EndFailedText ==
    LET text == Steps["end_failed"]
    IN  /\ DOMAIN text = 1 .. 2 /\ Len(text) = 2
        /\ text[1].op = "alloc" /\ text[1].var = "-" /\ text[1].uses = {}
        /\ text[2].op = "close" /\ text[2].var = "function" /\ text[2].uses = {}
BY DEF Steps, EndFailed, Alloc, Close, Step

LEMMA EndFailedSound == Sound("end_failed")
<1> DEFINE text == Steps["end_failed"]
<1>0. text = EndFailed
  BY DEF Steps
<1> HIDE DEF text
<1>1. /\ DOMAIN text = 1 .. 2 /\ Len(text) = 2
      /\ text[1].op = "alloc" /\ text[1].var = "-" /\ text[1].uses = {} /\ text[1].depth = 0
      /\ text[2].op = "close" /\ text[2].var = "function" /\ text[2].uses = {} /\ text[2].depth = 0
  BY <1>0 DEF EndFailed, Alloc, Close, Step
<1>2. WellFormed(text)
  BY <1>1 DEF WellFormed, Setting
<1>3. NeedsCompiler("end_failed", text)
  BY <1>1 DEF NeedsCompiler
<1>4. Disciplined("end_failed", text)
  BY <1>1 DEF Disciplined, Live, Anchored, Anchors, Keeps, Others
<1>5. QED BY <1>2, <1>3, <1>4 DEF Sound, text

LEMMA InterpretText ==
    LET text == Steps["interpret"]
    IN  /\ DOMAIN text = 1 .. 8 /\ Len(text) = 8
        /\ text[1].op = "alloc" /\ text[1].var = "-" /\ text[1].uses = {}
        /\ text[2].op = "close" /\ text[2].var = "function" /\ text[2].uses = {}
        /\ text[3].op = "push" /\ text[3].var = "-" /\ text[3].uses = {"function"}
        /\ text[4].op = "alloc" /\ text[4].var = "-" /\ text[4].uses = {}
        /\ text[5].op = "new" /\ text[5].var = "closure" /\ text[5].uses = {"function"}
        /\ text[6].op = "pop" /\ text[6].var = "-" /\ text[6].uses = {}
        /\ text[7].op = "push" /\ text[7].var = "-" /\ text[7].uses = {"closure"}
        /\ text[8].op = "root" /\ text[8].var = "-" /\ text[8].uses = {"closure"}
BY DEF Steps, Interpret, Alloc, Close, New, Pop, Push, Root, Step

LEMMA InterpretSound == Sound("interpret")
<1> DEFINE text == Steps["interpret"]
<1>0. text = Interpret
  BY DEF Steps
<1> HIDE DEF text
<1>1. /\ DOMAIN text = 1 .. 8 /\ Len(text) = 8
      /\ text[1].op = "alloc" /\ text[1].var = "-" /\ text[1].uses = {} /\ text[1].depth = 0
      /\ text[2].op = "close" /\ text[2].var = "function" /\ text[2].uses = {} /\ text[2].depth = 0
      /\ text[3].op = "push" /\ text[3].var = "-" /\ text[3].uses = {"function"} /\ text[3].depth = 0
      /\ text[4].op = "alloc" /\ text[4].var = "-" /\ text[4].uses = {} /\ text[4].depth = 0
      /\ text[5].op = "new" /\ text[5].var = "closure" /\ text[5].uses = {"function"} /\ text[5].depth = 0
      /\ text[6].op = "pop" /\ text[6].var = "-" /\ text[6].uses = {} /\ text[6].depth = 0
      /\ text[7].op = "push" /\ text[7].var = "-" /\ text[7].uses = {"closure"} /\ text[7].depth = 0
      /\ text[8].op = "root" /\ text[8].var = "-" /\ text[8].uses = {"closure"} /\ text[8].depth = 0
  BY <1>0 DEF Interpret, Alloc, Close, New, Pop, Push, Root, Step
<1>2. WellFormed(text)
  BY <1>1 DEF WellFormed, Setting
<1>3. NeedsCompiler("interpret", text)
  BY <1>1 DEF NeedsCompiler
<1>4. Disciplined("interpret", text)
  BY <1>1 DEF Disciplined, Live, Anchored, Anchors, Keeps, Others
<1>5. QED BY <1>2, <1>3, <1>4 DEF Sound, text

LEMMA RuntimeErrorText ==
    LET text == Steps["runtime_error"]
    IN  /\ DOMAIN text = 1 .. 4 /\ Len(text) = 4
        /\ text[1].op = "alloc" /\ text[1].var = "-" /\ text[1].uses = {}
        /\ text[2].op = "new" /\ text[2].var = "message" /\ text[2].uses = {}
        /\ text[3].op = "push" /\ text[3].var = "-" /\ text[3].uses = {"message"}
        /\ text[4].op = "reset" /\ text[4].var = "-" /\ text[4].uses = {}
BY DEF Steps, RuntimeError, Alloc, New, Push, Reset, Step

LEMMA RuntimeErrorSound == Sound("runtime_error")
<1> DEFINE text == Steps["runtime_error"]
<1>0. text = RuntimeError
  BY DEF Steps
<1> HIDE DEF text
<1>1. /\ DOMAIN text = 1 .. 4 /\ Len(text) = 4
      /\ text[1].op = "alloc" /\ text[1].var = "-" /\ text[1].uses = {} /\ text[1].depth = 0
      /\ text[2].op = "new" /\ text[2].var = "message" /\ text[2].uses = {} /\ text[2].depth = 0
      /\ text[3].op = "push" /\ text[3].var = "-" /\ text[3].uses = {"message"} /\ text[3].depth = 0
      /\ text[4].op = "reset" /\ text[4].var = "-" /\ text[4].uses = {} /\ text[4].depth = 0
  BY <1>0 DEF RuntimeError, Alloc, New, Push, Reset, Step
<1>2. WellFormed(text)
  BY <1>1 DEF WellFormed, Setting
<1>3. NeedsCompiler("runtime_error", text)
  BY <1>1 DEF NeedsCompiler
<1>4. Disciplined("runtime_error", text)
  BY <1>1 DEF Disciplined, Live, Anchored, Anchors, Keeps, Others
<1>5. QED BY <1>2, <1>3, <1>4 DEF Sound, text

LEMMA DefineGlobalSound == Sound("define_global")
<1> DEFINE text == Steps["define_global"]
<1>0. text = OpDefineGlobal
  BY DEF Steps
<1> HIDE DEF text
<1>1. /\ DOMAIN text = 1 .. 5 /\ Len(text) = 5
      /\ text[1].op = "const" /\ text[1].var = "name" /\ text[1].uses = {} /\ text[1].depth = 0
      /\ text[2].op = "peek" /\ text[2].var = "value" /\ text[2].uses = {} /\ text[2].depth = 0
      /\ text[3].op = "alloc" /\ text[3].var = "-" /\ text[3].uses = {} /\ text[3].depth = 0
      /\ text[4].op = "root" /\ text[4].var = "-" /\ text[4].uses = {"name", "value"} /\ text[4].depth = 0
      /\ text[5].op = "pop" /\ text[5].var = "-" /\ text[5].uses = {} /\ text[5].depth = 0
  BY <1>0 DEF OpDefineGlobal, Alloc, Const, Peek, Pop, Root, Step
<1>2. WellFormed(text)
  BY <1>1 DEF WellFormed, Setting
<1>3. NeedsCompiler("define_global", text)
  BY <1>1 DEF NeedsCompiler
<1>4. Disciplined("define_global", text)
  BY <1>1 DEF Disciplined, Live, Anchored, Anchors, Keeps, Others
<1>5. QED BY <1>2, <1>3, <1>4 DEF Sound, text

LEMMA ClosureSound == Sound("closure")
<1> DEFINE text == Steps["closure"]
<1>0. text = OpClosure
  BY DEF Steps
<1> HIDE DEF text
<1>1. /\ DOMAIN text = 1 .. 7 /\ Len(text) = 7
      /\ text[1].op = "const" /\ text[1].var = "function" /\ text[1].uses = {} /\ text[1].depth = 0
      /\ text[2].op = "alloc" /\ text[2].var = "-" /\ text[2].uses = {} /\ text[2].depth = 0
      /\ text[3].op = "new" /\ text[3].var = "closure" /\ text[3].uses = {"function"} /\ text[3].depth = 0
      /\ text[4].op = "push" /\ text[4].var = "-" /\ text[4].uses = {"closure"} /\ text[4].depth = 0
      /\ text[5].op = "new" /\ text[5].var = "upvalue" /\ text[5].uses = {} /\ text[5].depth = 0
      /\ text[6].op = "root" /\ text[6].var = "-" /\ text[6].uses = {"upvalue"} /\ text[6].depth = 0
      /\ text[7].op = "store" /\ text[7].var = "closure" /\ text[7].uses = {"upvalue", "closure"} /\ text[7].depth = 0
  BY <1>0 DEF OpClosure, Alloc, Const, New, Push, Root, Store, Step
<1>2. WellFormed(text)
  BY <1>1 DEF WellFormed, Setting
<1>3. NeedsCompiler("closure", text)
  BY <1>1 DEF NeedsCompiler
<1>4. Disciplined("closure", text)
  BY <1>1 DEF Disciplined, Live, Anchored, Anchors, Keeps, Others
<1>5. QED BY <1>2, <1>3, <1>4 DEF Sound, text

LEMMA ClassSound == Sound("class")
<1> DEFINE text == Steps["class"]
<1>0. text = OpClass
  BY DEF Steps
<1> HIDE DEF text
<1>1. /\ DOMAIN text = 1 .. 3 /\ Len(text) = 3
      /\ text[1].op = "const" /\ text[1].var = "name" /\ text[1].uses = {} /\ text[1].depth = 0
      /\ text[2].op = "new" /\ text[2].var = "class" /\ text[2].uses = {"name"} /\ text[2].depth = 0
      /\ text[3].op = "push" /\ text[3].var = "-" /\ text[3].uses = {"class"} /\ text[3].depth = 0
  BY <1>0 DEF OpClass, Const, New, Push, Step
<1>2. WellFormed(text)
  BY <1>1 DEF WellFormed, Setting
<1>3. NeedsCompiler("class", text)
  BY <1>1 DEF NeedsCompiler
<1>4. Disciplined("class", text)
  BY <1>1 DEF Disciplined, Live, Anchored, Anchors, Keeps, Others
<1>5. QED BY <1>2, <1>3, <1>4 DEF Sound, text

LEMMA InheritSound == Sound("inherit")
<1> DEFINE text == Steps["inherit"]
<1>0. text = OpInherit
  BY DEF Steps
<1> HIDE DEF text
<1>1. /\ DOMAIN text = 1 .. 5 /\ Len(text) = 5
      /\ text[1].op = "peek" /\ text[1].var = "super" /\ text[1].uses = {} /\ text[1].depth = 1
      /\ text[2].op = "peek" /\ text[2].var = "class" /\ text[2].uses = {} /\ text[2].depth = 0
      /\ text[3].op = "alloc" /\ text[3].var = "-" /\ text[3].uses = {} /\ text[3].depth = 0
      /\ text[4].op = "copy" /\ text[4].var = "class" /\ text[4].uses = {"class", "super"} /\ text[4].depth = 0
      /\ text[5].op = "pop" /\ text[5].var = "-" /\ text[5].uses = {} /\ text[5].depth = 0
  BY <1>0 DEF OpInherit, Alloc, Copy, Peek, Pop, Step
<1>2. WellFormed(text)
  BY <1>1 DEF WellFormed, Setting
<1>3. NeedsCompiler("inherit", text)
  BY <1>1 DEF NeedsCompiler
<1>4. Disciplined("inherit", text)
  BY <1>1 DEF Disciplined, Live, Anchored, Anchors, Keeps, Others
<1>5. QED BY <1>2, <1>3, <1>4 DEF Sound, text

LEMMA MethodSound == Sound("method")
<1> DEFINE text == Steps["method"]
<1>0. text = OpMethod
  BY DEF Steps
<1> HIDE DEF text
<1>1. /\ DOMAIN text = 1 .. 6 /\ Len(text) = 6
      /\ text[1].op = "const" /\ text[1].var = "name" /\ text[1].uses = {} /\ text[1].depth = 0
      /\ text[2].op = "peek" /\ text[2].var = "method" /\ text[2].uses = {} /\ text[2].depth = 0
      /\ text[3].op = "peek" /\ text[3].var = "class" /\ text[3].uses = {} /\ text[3].depth = 1
      /\ text[4].op = "alloc" /\ text[4].var = "-" /\ text[4].uses = {} /\ text[4].depth = 0
      /\ text[5].op = "store" /\ text[5].var = "class" /\ text[5].uses = {"name", "method", "class"} /\ text[5].depth = 0
      /\ text[6].op = "pop" /\ text[6].var = "-" /\ text[6].uses = {} /\ text[6].depth = 0
  BY <1>0 DEF OpMethod, Alloc, Const, Peek, Pop, Store, Step
<1>2. WellFormed(text)
  BY <1>1 DEF WellFormed, Setting
<1>3. NeedsCompiler("method", text)
  BY <1>1 DEF NeedsCompiler
<1>4. Disciplined("method", text)
  BY <1>1 DEF Disciplined, Live, Anchored, Anchors, Keeps, Others
<1>5. QED BY <1>2, <1>3, <1>4 DEF Sound, text

LEMMA InstantiateSound == Sound("instantiate")
<1> DEFINE text == Steps["instantiate"]
<1>0. text = Instantiate
  BY DEF Steps
<1> HIDE DEF text
<1>1. /\ DOMAIN text = 1 .. 3 /\ Len(text) = 3
      /\ text[1].op = "peek" /\ text[1].var = "class" /\ text[1].uses = {} /\ text[1].depth = 0
      /\ text[2].op = "new" /\ text[2].var = "instance" /\ text[2].uses = {"class"} /\ text[2].depth = 0
      /\ text[3].op = "replace" /\ text[3].var = "-" /\ text[3].uses = {"instance"} /\ text[3].depth = 0
  BY <1>0 DEF Instantiate, New, Peek, Replace, Step
<1>2. WellFormed(text)
  BY <1>1 DEF WellFormed, Setting
<1>3. NeedsCompiler("instantiate", text)
  BY <1>1 DEF NeedsCompiler
<1>4. Disciplined("instantiate", text)
  BY <1>1 DEF Disciplined, Live, Anchored, Anchors, Keeps, Others
<1>5. QED BY <1>2, <1>3, <1>4 DEF Sound, text

LEMMA BindMethodSound == Sound("bind_method")
<1> DEFINE text == Steps["bind_method"]
<1>0. text = BindMethod
  BY DEF Steps
<1> HIDE DEF text
<1>1. /\ DOMAIN text = 1 .. 6 /\ Len(text) = 6
      /\ text[1].op = "peek" /\ text[1].var = "receiver" /\ text[1].uses = {} /\ text[1].depth = 0
      /\ text[2].op = "follow" /\ text[2].var = "class" /\ text[2].uses = {"receiver"} /\ text[2].depth = 0
      /\ text[3].op = "follow" /\ text[3].var = "method" /\ text[3].uses = {"class"} /\ text[3].depth = 0
      /\ text[4].op = "new" /\ text[4].var = "bound" /\ text[4].uses = {"receiver", "method"} /\ text[4].depth = 0
      /\ text[5].op = "pop" /\ text[5].var = "-" /\ text[5].uses = {} /\ text[5].depth = 0
      /\ text[6].op = "push" /\ text[6].var = "-" /\ text[6].uses = {"bound"} /\ text[6].depth = 0
  BY <1>0 DEF BindMethod, Follow, New, Peek, Pop, Push, Step
<1>2. WellFormed(text)
  BY <1>1 DEF WellFormed, Setting
<1>3. NeedsCompiler("bind_method", text)
  BY <1>1 DEF NeedsCompiler
<1>4. Disciplined("bind_method", text)
  BY <1>1 DEF Disciplined, Live, Anchored, Anchors, Keeps, Others
<1>5. QED BY <1>2, <1>3, <1>4 DEF Sound, text

LEMMA GetSuperText ==
    LET text == Steps["get_super"]
    IN  /\ DOMAIN text = 1 .. 8 /\ Len(text) = 8
        /\ text[1].op = "const" /\ text[1].var = "super" /\ text[1].uses = {}
        /\ text[2].op = "push" /\ text[2].var = "-" /\ text[2].uses = {"super"}
        /\ text[3].op = "pop" /\ text[3].var = "super" /\ text[3].uses = {}
        /\ text[4].op = "peek" /\ text[4].var = "receiver" /\ text[4].uses = {}
        /\ text[5].op = "follow" /\ text[5].var = "method" /\ text[5].uses = {"super"}
        /\ text[6].op = "new" /\ text[6].var = "bound" /\ text[6].uses = {"receiver", "method"}
        /\ text[7].op = "pop" /\ text[7].var = "-" /\ text[7].uses = {}
        /\ text[8].op = "push" /\ text[8].var = "-" /\ text[8].uses = {"bound"}
BY DEF Steps, GetSuper, Const, Follow, New, Peek, Pop, PopTo, Push, Step

LEMMA GetSuperSound == Sound("get_super")
<1> DEFINE text == Steps["get_super"]
<1>0. text = GetSuper
  BY DEF Steps
<1> HIDE DEF text
<1>1. /\ DOMAIN text = 1 .. 8 /\ Len(text) = 8
      /\ text[1].op = "const" /\ text[1].var = "super" /\ text[1].uses = {} /\ text[1].depth = 0
      /\ text[2].op = "push" /\ text[2].var = "-" /\ text[2].uses = {"super"} /\ text[2].depth = 0
      /\ text[3].op = "pop" /\ text[3].var = "super" /\ text[3].uses = {} /\ text[3].depth = 0
      /\ text[4].op = "peek" /\ text[4].var = "receiver" /\ text[4].uses = {} /\ text[4].depth = 0
      /\ text[5].op = "follow" /\ text[5].var = "method" /\ text[5].uses = {"super"} /\ text[5].depth = 0
      /\ text[6].op = "new" /\ text[6].var = "bound" /\ text[6].uses = {"receiver", "method"} /\ text[6].depth = 0
      /\ text[7].op = "pop" /\ text[7].var = "-" /\ text[7].uses = {} /\ text[7].depth = 0
      /\ text[8].op = "push" /\ text[8].var = "-" /\ text[8].uses = {"bound"} /\ text[8].depth = 0
  BY <1>0 DEF GetSuper, Const, Follow, New, Peek, Pop, PopTo, Push, Step
<1>2. WellFormed(text)
  BY <1>1 DEF WellFormed, Setting
<1>3. NeedsCompiler("get_super", text)
  BY <1>1 DEF NeedsCompiler
<1>4. Disciplined("get_super", text)
  BY <1>1 DEF Disciplined, Live, Anchored, Anchors, Keeps, Others
<1>5. QED BY <1>2, <1>3, <1>4 DEF Sound, text

LEMMA SetPropertySound == Sound("set_property")
<1> DEFINE text == Steps["set_property"]
<1>0. text = OpSetProperty
  BY DEF Steps
<1> HIDE DEF text
<1>1. /\ DOMAIN text = 1 .. 8 /\ Len(text) = 8
      /\ text[1].op = "peek" /\ text[1].var = "instance" /\ text[1].uses = {} /\ text[1].depth = 1
      /\ text[2].op = "const" /\ text[2].var = "name" /\ text[2].uses = {} /\ text[2].depth = 0
      /\ text[3].op = "peek" /\ text[3].var = "value" /\ text[3].uses = {} /\ text[3].depth = 0
      /\ text[4].op = "alloc" /\ text[4].var = "-" /\ text[4].uses = {} /\ text[4].depth = 0
      /\ text[5].op = "store" /\ text[5].var = "instance" /\ text[5].uses = {"name", "value", "instance"} /\ text[5].depth = 0
      /\ text[6].op = "pop" /\ text[6].var = "value" /\ text[6].uses = {} /\ text[6].depth = 0
      /\ text[7].op = "pop" /\ text[7].var = "-" /\ text[7].uses = {} /\ text[7].depth = 0
      /\ text[8].op = "push" /\ text[8].var = "-" /\ text[8].uses = {"value"} /\ text[8].depth = 0
  BY <1>0 DEF OpSetProperty, Alloc, Const, Peek, Pop, PopTo, Push, Store, Step
<1>2. WellFormed(text)
  BY <1>1 DEF WellFormed, Setting
<1>3. NeedsCompiler("set_property", text)
  BY <1>1 DEF NeedsCompiler
<1>4. Disciplined("set_property", text)
  BY <1>1 DEF Disciplined, Live, Anchored, Anchors, Keeps, Others
<1>5. QED BY <1>2, <1>3, <1>4 DEF Sound, text

LEMMA TableSetSound == Sound("table_set")
<1> DEFINE text == Steps["table_set"]
<1>0. text = OpTableSet
  BY DEF Steps
<1> HIDE DEF text
<1>1. /\ DOMAIN text = 1 .. 9 /\ Len(text) = 9
      /\ text[1].op = "peek" /\ text[1].var = "table" /\ text[1].uses = {} /\ text[1].depth = 2
      /\ text[2].op = "peek" /\ text[2].var = "key" /\ text[2].uses = {} /\ text[2].depth = 1
      /\ text[3].op = "peek" /\ text[3].var = "value" /\ text[3].uses = {} /\ text[3].depth = 0
      /\ text[4].op = "alloc" /\ text[4].var = "-" /\ text[4].uses = {} /\ text[4].depth = 0
      /\ text[5].op = "store" /\ text[5].var = "table" /\ text[5].uses = {"key", "value", "table"} /\ text[5].depth = 0
      /\ text[6].op = "pop" /\ text[6].var = "-" /\ text[6].uses = {} /\ text[6].depth = 0
      /\ text[7].op = "pop" /\ text[7].var = "-" /\ text[7].uses = {} /\ text[7].depth = 0
      /\ text[8].op = "pop" /\ text[8].var = "-" /\ text[8].uses = {} /\ text[8].depth = 0
      /\ text[9].op = "push" /\ text[9].var = "-" /\ text[9].uses = {"value"} /\ text[9].depth = 0
  BY <1>0 DEF OpTableSet, Alloc, Peek, Pop, Push, Store, Step
<1>2. WellFormed(text)
  BY <1>1 DEF WellFormed, Setting
<1>3. NeedsCompiler("table_set", text)
  BY <1>1 DEF NeedsCompiler
<1>4. Disciplined("table_set", text)
  BY <1>1 DEF Disciplined, Live, Anchored, Anchors, Keeps, Others
<1>5. QED BY <1>2, <1>3, <1>4 DEF Sound, text

LEMMA NativeTableSound == Sound("native_table")
<1> DEFINE text == Steps["native_table"]
<1>0. text = NativeTable
  BY DEF Steps
<1> HIDE DEF text
<1>1. /\ DOMAIN text = 1 .. 3 /\ Len(text) = 3
      /\ text[1].op = "new" /\ text[1].var = "table" /\ text[1].uses = {} /\ text[1].depth = 0
      /\ text[2].op = "pop" /\ text[2].var = "-" /\ text[2].uses = {} /\ text[2].depth = 0
      /\ text[3].op = "push" /\ text[3].var = "-" /\ text[3].uses = {"table"} /\ text[3].depth = 0
  BY <1>0 DEF NativeTable, New, Pop, Push, Step
<1>2. WellFormed(text)
  BY <1>1 DEF WellFormed, Setting
<1>3. NeedsCompiler("native_table", text)
  BY <1>1 DEF NeedsCompiler
<1>4. Disciplined("native_table", text)
  BY <1>1 DEF Disciplined, Live, Anchored, Anchors, Keeps, Others
<1>5. QED BY <1>2, <1>3, <1>4 DEF Sound, text

LEMMA ConcatFoundSound == Sound("concat_found")
<1> DEFINE text == Steps["concat_found"]
<1>0. text = ConcatFound
  BY DEF Steps
<1> HIDE DEF text
<1>1. /\ DOMAIN text = 1 .. 9 /\ Len(text) = 9
      /\ text[1].op = "peek" /\ text[1].var = "right" /\ text[1].uses = {} /\ text[1].depth = 0
      /\ text[2].op = "peek" /\ text[2].var = "left" /\ text[2].uses = {} /\ text[2].depth = 1
      /\ text[3].op = "alloc" /\ text[3].var = "-" /\ text[3].uses = {} /\ text[3].depth = 0
      /\ text[4].op = "read" /\ text[4].var = "-" /\ text[4].uses = {"left"} /\ text[4].depth = 0
      /\ text[5].op = "read" /\ text[5].var = "-" /\ text[5].uses = {"right"} /\ text[5].depth = 0
      /\ text[6].op = "interned" /\ text[6].var = "sum" /\ text[6].uses = {} /\ text[6].depth = 0
      /\ text[7].op = "pop" /\ text[7].var = "-" /\ text[7].uses = {} /\ text[7].depth = 0
      /\ text[8].op = "pop" /\ text[8].var = "-" /\ text[8].uses = {} /\ text[8].depth = 0
      /\ text[9].op = "push" /\ text[9].var = "-" /\ text[9].uses = {"sum"} /\ text[9].depth = 0
  BY <1>0 DEF ConcatFound, Alloc, Interned, Peek, Pop, Push, Read, Step
<1>2. WellFormed(text)
  BY <1>1 DEF WellFormed, Setting
<1>3. NeedsCompiler("concat_found", text)
  BY <1>1 DEF NeedsCompiler
<1>4. Disciplined("concat_found", text)
  BY <1>1 DEF Disciplined, Live, Anchored, Anchors, Keeps, Others
<1>5. QED BY <1>2, <1>3, <1>4 DEF Sound, text

LEMMA ConcatNewSound == ASSUME ~StringsGrow PROVE Sound("concat_new")
<1> DEFINE text == Steps["concat_new"]
<1> DEFINE start == <<Peek("right", 0), Peek("left", 1), Alloc, Read("left"), Read("right"), New("sum", {})>>
          finish == <<Intern("sum"), Pop, Pop, Push("sum")>>
          S == {Peek("right", 0), Peek("left", 1), Alloc, Read("left"), Read("right"), New("sum", {}),
                Intern("sum"), Pop, Push("sum")}
<1>0. /\ DOMAIN text = 1 .. 10 /\ Len(text) = 10
      /\ text[1] = Peek("right", 0) /\ text[2] = Peek("left", 1) /\ text[3] = Alloc
      /\ text[4] = Read("left") /\ text[5] = Read("right") /\ text[6] = New("sum", {})
      /\ text[7] = Intern("sum") /\ text[8] = Pop /\ text[9] = Pop /\ text[10] = Push("sum")
  <2>1. start \in Seq(S) /\ finish \in Seq(S) /\ Len(start) = 6 /\ Len(finish) = 4
    OBVIOUS
  <2>2. text = (start \o <<>>) \o finish
    BY DEF Steps, ConcatNew
  <2> HIDE DEF text, S
  <2>3. start \o <<>> = start
    BY <2>1, ConcatEmptySeq
  <2>4. /\ Len(text) = 10 /\ text \in Seq(S)
       /\ \A i \in 1 .. 10 : text[i] = IF i <= 6 THEN start[i] ELSE finish[i - 6]
    BY <2>1, <2>2, <2>3, ConcatProperties
  <2>5. QED BY <2>4, LenProperties
<1> HIDE DEF start, finish, S, text
<1>1. /\ DOMAIN text = 1 .. 10 /\ Len(text) = 10
      /\ text[1].op = "peek" /\ text[1].var = "right" /\ text[1].uses = {} /\ text[1].depth = 0
      /\ text[2].op = "peek" /\ text[2].var = "left" /\ text[2].uses = {} /\ text[2].depth = 1
      /\ text[3].op = "alloc" /\ text[3].var = "-" /\ text[3].uses = {} /\ text[3].depth = 0
      /\ text[4].op = "read" /\ text[4].var = "-" /\ text[4].uses = {"left"} /\ text[4].depth = 0
      /\ text[5].op = "read" /\ text[5].var = "-" /\ text[5].uses = {"right"} /\ text[5].depth = 0
      /\ text[6].op = "new" /\ text[6].var = "sum" /\ text[6].uses = {} /\ text[6].depth = 0
      /\ text[7].op = "intern" /\ text[7].var = "-" /\ text[7].uses = {"sum"} /\ text[7].depth = 0
      /\ text[8].op = "pop" /\ text[8].var = "-" /\ text[8].uses = {} /\ text[8].depth = 0
      /\ text[9].op = "pop" /\ text[9].var = "-" /\ text[9].uses = {} /\ text[9].depth = 0
      /\ text[10].op = "push" /\ text[10].var = "-" /\ text[10].uses = {"sum"} /\ text[10].depth = 0
  BY <1>0 DEF Alloc, Intern, New, Peek, Pop, Push, Read, Step
<1>2. WellFormed(text)
  BY <1>1 DEF WellFormed, Setting
<1>3. NeedsCompiler("concat_new", text)
  BY <1>1 DEF NeedsCompiler
<1>4. Disciplined("concat_new", text)
  <2>1. \A i \in 1 .. Len(text) : (text[i].op \in {"alloc", "new"} => i \in {3, 6}) /\ text[i].op # "follow"
    BY <1>1
  <2>2. ASSUME NEW x, Live(text, 3, x) PROVE Anchored(text, 3, x)
    BY <1>1, <2>2 DEF Live, Anchored, Anchors, Keeps
  <2>3. ASSUME NEW x, Live(text, 6, x) PROVE Anchored(text, 6, x)
    BY <1>1, <2>3 DEF Live, Anchored, Anchors, Keeps
  <2>4. QED BY <2>1, <2>2, <2>3 DEF Disciplined
<1>5. QED BY <1>2, <1>3, <1>4 DEF Sound, text

(* Every place that allocates keeps the discipline.                         *)
THEOREM PlacesSound ==
    ASSUME ~StringsGrow
    PROVE  \A s \in Sites : Sound(s)
BY InitStringSound, DefineNativeSound, CompilerInitSound, WriteChunkSound, StringConstantSound,
   EndFunctionSound, EndFailedSound, InterpretSound, RuntimeErrorSound, DefineGlobalSound,
   ClosureSound, ClassSound, InheritSound, MethodSound, InstantiateSound, BindMethodSound,
   GetSuperSound, SetPropertySound, TableSetSound, NativeTableSound, ConcatFoundSound,
   ConcatNewSound
   DEF Sites, Steps

(* What a place sets are C variables; so are those it uses.                 *)
LEMMA TextNames ==
    ASSUME NEW s \in Sites, WellFormed(Steps[s]), NEW i \in 1 .. Len(Steps[s])
    PROVE  Steps[s][i].var \in Names /\ Steps[s][i].uses \subseteq Names
<1>1. \A j \in 1 .. Len(Steps[s]) : Steps[s][j].var \in Names
  BY DEF Names, WellFormed
<1>2. \A x \in Steps[s][i].uses : \E j \in 1 .. i - 1 : Steps[s][j].var = x
  BY DEF WellFormed
<1>3. Len(Steps[s]) \in Nat
  BY DEF WellFormed
<1>4. QED BY <1>1, <1>2, <1>3

(* A root leads to x after a step that anchors it, or that keeps it anchored. *)
LEMMA AnchoredNext ==
    ASSUME NEW text, NEW i \in Nat \ {0}, NEW x, Anchored(text, i + 1, x)
    PROVE  Anchors(text[i], x) \/ (Anchored(text, i, x) /\ Keeps(text[i], x))
<1>1. PICK j \in 1 .. i : Anchors(text[j], x) /\ \A k \in j + 1 .. i : Keeps(text[k], x)
  BY DEF Anchored
<1>2. CASE j = i
  BY <1>1, <1>2
<1>3. CASE j < i
  <2>1. Keeps(text[i], x) /\ \A k \in j + 1 .. i - 1 : Keeps(text[k], x)
    BY <1>1, <1>3
  <2>2. QED BY <1>1, <1>3, <2>1 DEF Anchored
<1>4. QED BY <1>2, <1>3

-----------------------------------------------------------------------------
(* Reachability.                                                           *)

LEMMA ReachInDomain ==
    ASSUME NEW D, NEW next \in [D -> SUBSET D], NEW S
    PROVE  Reachable(next, S) \subseteq D
BY DEF Reachable

LEMMA ReachContains ==
    ASSUME NEW D, NEW next \in [D -> SUBSET D], NEW S \in SUBSET D
    PROVE  S \subseteq Reachable(next, S)
BY DEF Reachable

LEMMA ReachClosed ==
    ASSUME NEW D, NEW next \in [D -> SUBSET D], NEW S,
           NEW x \in Reachable(next, S), NEW y \in next[x]
    PROVE  y \in Reachable(next, S)
<1>1. x \in D /\ y \in D
  BY DEF Reachable
<1>2. ASSUME NEW T \in SUBSET D, S \subseteq T, Closed(T, next) PROVE y \in T
  <2>1. x \in T
    BY <1>2 DEF Reachable
  <2>2. QED BY <1>2, <2>1 DEF Closed
<1>3. QED BY <1>1, <1>2 DEF Reachable

(* A closed set that holds the start holds all that can be reached.         *)
LEMMA ReachLeast ==
    ASSUME NEW D, NEW next \in [D -> SUBSET D], NEW S,
           NEW T \in SUBSET D, S \subseteq T, Closed(T, next)
    PROVE  Reachable(next, S) \subseteq T
BY DEF Reachable

(* From more, along the same ways and others, as much is reached.           *)
LEMMA ReachGrows ==
    ASSUME NEW D, NEW before \in [D -> SUBSET D], NEW after \in [D -> SUBSET D],
           NEW S \in SUBSET D, NEW S2 \in SUBSET D, S \subseteq S2,
           \A x \in Reachable(before, S) : before[x] \subseteq after[x]
    PROVE  Reachable(before, S) \subseteq Reachable(after, S2)
<1> DEFINE T == Reachable(before, S) \cap Reachable(after, S2)
<1>1. T \in SUBSET D /\ S \subseteq T
  BY ReachInDomain, ReachContains
<1>2. ASSUME NEW x \in T, NEW y \in before[x] PROVE y \in T
  <2>1. y \in Reachable(before, S)
    BY ReachClosed
  <2>2. y \in after[x]
    OBVIOUS
  <2>3. y \in Reachable(after, S2)
    BY <2>2, ReachClosed
  <2>4. QED BY <2>1, <2>3
<1>3. Closed(T, before)
  BY <1>2 DEF Closed
<1> HIDE DEF T
<1>4. Reachable(before, S) \subseteq T
  BY <1>1, <1>3, ReachLeast
<1>5. QED BY <1>4 DEF T

-----------------------------------------------------------------------------
(* Sequences and what is in them.                                          *)

LEMMA RangeMember ==
    ASSUME NEW S, NEW s \in Seq(S), NEW i \in 1 .. Len(s)
    PROVE  s[i] \in Range(s)
BY RangeEquality

LEMMA SeqWithin ==
    ASSUME NEW S, NEW s \in Seq(S), NEW T, Range(s) \subseteq T
    PROVE  s \in Seq(T)
BY SeqOfRange, SeqMonotonic

LEMMA RangeAppend ==
    ASSUME NEW S, NEW s \in Seq(S), NEW e \in S
    PROVE  /\ Append(s, e) \in Seq(S) /\ Len(Append(s, e)) = Len(s) + 1
           /\ Append(s, e) # <<>> /\ Last(Append(s, e)) = e
           /\ Range(Append(s, e)) = Range(s) \cup {e}
<1>1. /\ Append(s, e) \in Seq(S) /\ Len(Append(s, e)) = Len(s) + 1 /\ Append(s, e) # <<>>
      /\ \A i \in 1 .. Len(s) : Append(s, e)[i] = s[i]
      /\ Append(s, e)[Len(s) + 1] = e
      /\ Len(s) \in Nat
  BY AppendProperties, LenProperties
<1>2. Range(s) = {s[i] : i \in 1 .. Len(s)}
  BY RangeEquality
<1>3. Range(Append(s, e)) = {Append(s, e)[i] : i \in 1 .. Len(s) + 1}
  BY <1>1, RangeEquality
<1> HIDE DEF Range
<1>4. Range(Append(s, e)) = Range(s) \cup {e}
  <2>1. ASSUME NEW x \in Range(Append(s, e)) PROVE x \in Range(s) \cup {e}
    <3>1. PICK i \in 1 .. Len(s) + 1 : x = Append(s, e)[i]
      BY <1>3, <2>1
    <3>2. QED BY <1>1, <1>2, <3>1
  <2>2. ASSUME NEW x \in Range(s) \cup {e} PROVE x \in Range(Append(s, e))
    <3>1. CASE x \in Range(s)
      <4>1. PICK i \in 1 .. Len(s) : x = s[i]
        BY <1>2, <3>1
      <4>2. x = Append(s, e)[i] /\ i \in 1 .. Len(s) + 1
        BY <1>1, <4>1
      <4>3. QED BY <1>3, <4>2
    <3>2. CASE x = e
      <4>1. x = Append(s, e)[Len(s) + 1] /\ Len(s) + 1 \in 1 .. Len(s) + 1
        BY <1>1, <3>2
      <4>2. QED BY <1>3, <4>1
    <3>3. QED BY <2>2, <3>1, <3>2
  <2>3. QED BY <2>1, <2>2
<1>5. QED BY <1>1, <1>4 DEF Last

LEMMA RangeFront ==
    ASSUME NEW S, NEW s \in Seq(S)
    PROVE  /\ Front(s) \in Seq(S) /\ Range(Front(s)) \subseteq Range(s)
           /\ s # <<>> => Len(Front(s)) = Len(s) - 1 /\ Last(s) \in Range(s)
<1>1. Len(s) \in Nat
  BY LenProperties
<1>2. \A i \in 1 .. Len(s) - 1 : s[i] \in S
  BY <1>1, ElementOfSeq
<1>3. /\ Front(s) \in Seq(S)
      /\ Len(Front(s)) = IF 1 <= Len(s) - 1 THEN (Len(s) - 1) - 1 + 1 ELSE 0
      /\ \A i \in 1 .. (Len(s) - 1) - 1 + 1 : Front(s)[i] = s[1 + i - 1]
  BY <1>1, <1>2, SubSeqProperties DEF Front
<1>4. Len(s) \in Nat /\ Len(s) >= 1 => Len(Front(s)) = Len(s) - 1
  <2>1. Len(Front(s)) = IF 1 <= Len(s) - 1 THEN (Len(s) - 1) - 1 + 1 ELSE 0
    BY <1>3
  <2>2. QED BY <2>1
<1>5. Range(Front(s)) \subseteq Range(s)
  <2>1. Range(Front(s)) = {Front(s)[i] : i \in 1 .. Len(Front(s))}
    BY <1>3, RangeEquality
  <2>2. ASSUME NEW i \in 1 .. Len(Front(s)) PROVE Front(s)[i] \in Range(s)
    <3>1. i \in 1 .. Len(s) - 1 /\ Front(s)[i] = s[i]
      BY <1>1, <1>3
    <3>2. QED BY <1>1, <3>1, RangeMember
  <2>3. QED BY <2>1, <2>2
<1>6. ASSUME s # <<>> PROVE Len(Front(s)) = Len(s) - 1 /\ Last(s) \in Range(s)
  <2>1. Len(s) >= 1
    BY <1>1, <1>6, EmptySeq
  <2>2. Last(s) \in Range(s)
    BY <1>1, <2>1, RangeMember DEF Last
  <2>3. Len(Front(s)) = Len(s) - 1
    BY <1>1, <1>4, <2>1
  <2>4. QED BY <2>2, <2>3
<1>7. QED BY <1>3, <1>5, <1>6

(* One place of a sequence is overwritten.                                 *)
LEMMA RangeExcept ==
    ASSUME NEW S, NEW s \in Seq(S), NEW i, NEW e \in S
    PROVE  [s EXCEPT ![i] = e] \in Seq(S) /\ Len([s EXCEPT ![i] = e]) = Len(s)
<1>1. Len(s) \in Nat /\ DOMAIN s = 1 .. Len(s) /\ s \in [1 .. Len(s) -> S]
  BY LenProperties
<1>2. CASE i \in 1 .. Len(s)
  BY <1>1, <1>2, ExceptSeq
<1>3. CASE i \notin 1 .. Len(s)
  <2>1. [s EXCEPT ![i] = e] = s
    BY <1>1, <1>3
  <2>2. QED BY <2>1
<1>4. QED BY <1>2, <1>3

-----------------------------------------------------------------------------
(* The inductive invariant.                                                *)

Rooted == Reachable(refs, MachineRoots)

(* Objects refer to objects that exist, and so do roots and C variables.     *)
HeapSound ==
    /\ heap \subseteq Objects
    /\ refs \in [Objects -> SUBSET heap]
    /\ \A o \in Objects \ heap : refs[o] = {}
    /\ stack \in Seq(heap) /\ compilers \in Seq(heap)
    /\ roots \subseteq heap /\ strings \subseteq heap /\ pinned \subseteq heap
    /\ hand \in [Names -> heap \cup {None}]

(* The C variables in use are those the text says.                         *)
PlaceSound ==
    /\ site = "none" => at = 0 /\ hand = Nothing
    /\ site # "none" =>
          /\ site \in Sites /\ at \in 1 .. Len(Steps[site])
          /\ \A x \in Names : hand[x] # None <=> Live(Steps[site], at, x)

AnchorsHold ==
    site # "none" =>
        \A x \in Names : hand[x] # None /\ Anchored(Steps[site], at, x) => hand[x] \in Rooted

(* What the steps i to k - 1 of a place make of the height of the stack.     *)
Count(s, kind, i, k) == Cardinality(Having(s, kind) \cap i .. k - 1)

Rise(s, i, k) == Count(s, "push", i, k) - Count(s, "pop", i, k)

(* The stack is as high as the rest of the text needs it.                   *)
HeightsHold ==
    site # "none" =>
        \A k \in at .. Len(Steps[site]) :
            /\ Steps[site][k].op \in {"peek", "replace"} =>
                  Steps[site][k].depth < Len(stack) + Rise(site, at, k)
            /\ Steps[site][k].op = "pop" => 0 < Len(stack) + Rise(site, at, k)

(* A compiler is open wherever one is asked for its function or closed.      *)
CompilersHold ==
    /\ site = "string_constant" => Len(compilers) >= 1
    /\ site = "end_function" => Len(compilers) >= (IF at <= 2 THEN 2 ELSE 1)
    /\ site \in {"end_failed", "interpret"} => Len(compilers) >= (IF at <= 2 THEN 1 ELSE 0)

(* The others: a constant is marked until it is stored; the captured         *)
(* superclass is reached from the closure that runs, on the stack or not.    *)
OthersHold ==
    /\ site = "string_constant" /\ at = 5 => hand["string"] \in pinned
    /\ site = "end_function" /\ at = 5 => hand["inner"] \in pinned
    /\ site = "end_function" /\ at \in 4 .. 6 => hand["outer"] \in Range(compilers)
    /\ site = "end_function" /\ at = 7 => \E o \in Range(compilers) : hand["inner"] \in refs[o]
    /\ site = "get_super" /\ at \in 2 .. 5 => hand["super"] \in Reachable(refs, roots)
    /\ site = "get_super" /\ at = 3 => stack # <<>> /\ Last(stack) = hand["super"]

MutatorInv ==
    HeapSound /\ PlaceSound /\ AnchorsHold /\ HeightsHold /\ CompilersHold /\ OthersHold

-----------------------------------------------------------------------------
(* What the invariant says of the heap.                                     *)

LEMMA HeapFacts ==
    ASSUME HeapSound
    PROVE  /\ refs \in [Objects -> SUBSET Objects]
           /\ MachineRoots \subseteq heap /\ MachineRoots \subseteq Objects
           /\ Survivors \subseteq heap
           /\ MachineRoots \cup pinned \subseteq Survivors
           /\ Rooted \subseteq Survivors
           /\ MachineRoots \subseteq Rooted
           /\ Reachable(refs, roots) \subseteq Rooted
<1>1. Range(stack) \subseteq heap /\ Range(compilers) \subseteq heap
  BY RangeOfSeq DEF HeapSound
<1>2. MachineRoots \subseteq heap /\ MachineRoots \cup pinned \subseteq heap
  BY <1>1 DEF HeapSound, MachineRoots
<1>3. refs \in [Objects -> SUBSET Objects] /\ heap \subseteq Objects
  BY DEF HeapSound
<1>4. Closed(heap, refs)
  BY <1>3 DEF HeapSound, Closed
<1> HIDE DEF MachineRoots
<1>5. Survivors \subseteq heap
  BY <1>2, <1>3, <1>4, ReachLeast DEF Survivors
<1>6. MachineRoots \cup pinned \subseteq Survivors /\ MachineRoots \subseteq Rooted
  BY <1>2, <1>3, ReachContains DEF Survivors, Rooted
<1>7. Rooted \subseteq Survivors
  BY <1>2, <1>3, ReachGrows DEF Survivors, Rooted
<1>8. roots \subseteq MachineRoots
  BY DEF MachineRoots
<1>9. Reachable(refs, roots) \subseteq Rooted
  BY <1>2, <1>3, <1>8, ReachGrows DEF Rooted
<1>10. QED BY <1>2, <1>3, <1>5, <1>6, <1>7, <1>9

(* No collection takes anything from under a C variable, and what a name is   *)
(* followed from is reached from a root.                                   *)
LEMMA HandsRooted ==
    ASSUME ~StringsGrow, MutatorInv, site # "none"
    PROVE  /\ Steps[site][at].op \in {"alloc", "new"} =>
                 \A x \in Names : hand[x] # None => hand[x] \in Survivors
           /\ Steps[site][at].op = "follow" =>
                 \A x \in Steps[site][at].uses : hand[x] \in Rooted
<1>1. Disciplined(site, Steps[site]) /\ WellFormed(Steps[site]) /\ site \in Sites /\ at \in 1 .. Len(Steps[site])
  BY PlacesSound DEF MutatorInv, PlaceSound, Sound
<1>2. /\ Rooted \subseteq Survivors /\ pinned \subseteq Survivors
      /\ MachineRoots \subseteq Survivors /\ Reachable(refs, roots) \subseteq Rooted
      /\ refs \in [Objects -> SUBSET Objects] /\ MachineRoots \subseteq Objects
  BY HeapFacts DEF MutatorInv
<1>3. ASSUME Steps[site][at].op \in {"alloc", "new"}, NEW x \in Names, hand[x] # None
      PROVE  hand[x] \in Survivors
  <2>1. Live(Steps[site], at, x)
    BY <1>3 DEF MutatorInv, PlaceSound
  <2>2. CASE Anchored(Steps[site], at, x)
    BY <1>2, <1>3, <2>2 DEF MutatorInv, AnchorsHold
  <2>3. CASE <<site, at, x>> \in Others
    <3>1. CASE at = 5 /\ <<site, x>> \in {<<"string_constant", "string">>, <<"end_function", "inner">>}
      BY <1>2, <3>1 DEF MutatorInv, OthersHold
    <3>2. CASE site = "end_function" /\ at = 7 /\ x = "inner"
      <4>1. PICK o \in Range(compilers) : hand[x] \in refs[o]
        BY <3>2 DEF MutatorInv, OthersHold
      <4>2. o \in MachineRoots
        BY DEF MachineRoots
      <4>3. o \in Survivors
        BY <1>2, <4>2
      <4>4. QED BY <1>2, <4>1, <4>3, ReachClosed DEF Survivors
    <3>3. CASE site = "get_super" /\ at = 5
      BY <1>3, <3>3, GetSuperText
    <3>4. QED BY <2>3, <3>1, <3>2, <3>3 DEF Others
  <2>4. QED BY <1>1, <1>3, <2>1, <2>2, <2>3 DEF Disciplined
<1>4. ASSUME Steps[site][at].op = "follow", NEW x \in Steps[site][at].uses
      PROVE  hand[x] \in Rooted
  <2>1. x \in Names /\ Live(Steps[site], at, x)
    BY <1>1, TextNames DEF WellFormed, Live
  <2>2. hand[x] # None
    BY <2>1 DEF MutatorInv, PlaceSound
  <2>3. CASE Anchored(Steps[site], at, x)
    BY <2>1, <2>2, <2>3 DEF MutatorInv, AnchorsHold
  <2>4. CASE <<site, at, x>> \in Others
    <3>1. site = "get_super" /\ at = 5 /\ x = "super"
      BY <1>4, <2>4, StringConstantText, EndFunctionText DEF Others
    <3>2. QED BY <1>2, <3>1 DEF MutatorInv, OthersHold
  <2>5. QED BY <1>1, <1>4, <2>3, <2>4 DEF Disciplined
<1>5. QED BY <1>3, <1>4

-----------------------------------------------------------------------------
(* A place goes on.                                                        *)

InPlace ==
    /\ ~StringsGrow
    /\ MutatorInv
    /\ site # "none"

LEMMA InPlaceFacts ==
    ASSUME InPlace
    PROVE  /\ site \in Sites /\ at \in 1 .. Len(Steps[site]) /\ WellFormed(Steps[site])
           /\ at \in Nat \ {0} /\ Len(Steps[site]) \in Nat
           /\ This.var \in Names /\ This.uses \subseteq Names
           /\ \A x \in This.uses : hand[x] # None /\ hand[x] \in heap
           /\ Used \subseteq heap
<1>1. site \in Sites /\ at \in 1 .. Len(Steps[site]) /\ WellFormed(Steps[site])
  BY PlacesSound DEF InPlace, MutatorInv, PlaceSound, Sound
<1>2. at \in Nat \ {0} /\ Len(Steps[site]) \in Nat
  BY <1>1 DEF WellFormed
<1>3. This.var \in Names /\ This.uses \subseteq Names
  BY <1>1, TextNames DEF This
<1>4. \A x \in This.uses : Live(Steps[site], at, x)
  BY <1>1, <1>2 DEF WellFormed, Live, This
<1>5. \A x \in This.uses : hand[x] # None /\ hand[x] \in heap
  BY <1>3, <1>4 DEF InPlace, MutatorInv, PlaceSound, HeapSound
<1>6. QED BY <1>1, <1>2, <1>3, <1>5 DEF Used

LEMMA AdvanceFacts ==
    ASSUME InPlace, NEW h, Advance(h)
    PROVE  \/ site' = "none" /\ at' = 0 /\ hand' = Nothing
           \/ /\ site' = site /\ at' = at + 1 /\ at + 1 \in 1 .. Len(Steps[site])
              /\ hand' = [x \in Names |->
                            IF \E k \in at + 1 .. Len(Steps[site]) : x \in Steps[site][k].uses
                            THEN h[x] ELSE None]
<1>1. at \in 1 .. Len(Steps[site]) /\ Len(Steps[site]) \in Nat
  BY InPlaceFacts
<1>2. hand' = [x \in Names |-> IF \E k \in at + 1 .. Len(Steps[site]) : x \in Steps[site][k].uses
                              THEN h[x] ELSE None]
  BY DEF Advance
<1>3. CASE at = Len(Steps[site])
  <2>1. \A x : ~ \E k \in at + 1 .. Len(Steps[site]) : x \in Steps[site][k].uses
    BY <1>1, <1>3
  <2>2. hand' = Nothing
    BY <1>2, <2>1 DEF Nothing
  <2>3. QED BY <1>3, <2>2 DEF Advance
<1>4. CASE at # Len(Steps[site])
  BY <1>1, <1>2, <1>4 DEF Advance
<1>5. QED BY <1>3, <1>4

(* What the step does to the C variables: it sets one, or none.              *)
SetsOne(h) ==
    \/ h = hand /\ (This.op \notin Setting \/ This.var = "-")
    \/ \E o : o # None /\ This.op \in Setting /\ h = [hand EXCEPT ![This.var] = o]

LEMMA AdvancePlace ==
    ASSUME InPlace, NEW h, Advance(h), SetsOne(h)
    PROVE  PlaceSound'
<1>1. /\ site \in Sites /\ at \in 1 .. Len(Steps[site]) /\ WellFormed(Steps[site])
      /\ at \in Nat \ {0} /\ Len(Steps[site]) \in Nat
  BY InPlaceFacts
<1>2. CASE site' = "none" /\ at' = 0 /\ hand' = Nothing
  BY <1>2 DEF PlaceSound, Nothing, Names, Sites
<1>3. CASE /\ site' = site /\ at' = at + 1 /\ at + 1 \in 1 .. Len(Steps[site])
           /\ hand' = [x \in Names |->
                         IF \E k \in at + 1 .. Len(Steps[site]) : x \in Steps[site][k].uses
                         THEN h[x] ELSE None]
  <2>1. ASSUME NEW x \in Names PROVE hand'[x] # None <=> Live(Steps[site], at + 1, x)
    <3>1. CASE ~ \E k \in at + 1 .. Len(Steps[site]) : x \in Steps[site][k].uses
      BY <1>3, <3>1 DEF Live
    <3>2. CASE \E k \in at + 1 .. Len(Steps[site]) : x \in Steps[site][k].uses
      <4>1. hand'[x] = h[x]
        BY <1>3, <3>2
      <4>2. hand[x] # None <=> \E j \in 1 .. at - 1 : Steps[site][j].var = x
        BY <1>1, <3>2 DEF InPlace, MutatorInv, PlaceSound, Live
      <4>3. Live(Steps[site], at + 1, x) <=> \E j \in 1 .. at : Steps[site][j].var = x
        BY <1>1, <3>2 DEF Live
      <4>4. (\E j \in 1 .. at : Steps[site][j].var = x)
              <=> This.var = x \/ \E j \in 1 .. at - 1 : Steps[site][j].var = x
        BY <1>1 DEF This
      <4>5. x # "-"
        BY <1>1, <3>2 DEF WellFormed
      <4>6. h[x] # None <=> This.var = x \/ hand[x] # None
        <5>1. CASE h = hand /\ (This.op \notin Setting \/ This.var = "-")
          <6>1. This.var = x => \E j \in 1 .. at - 1 : Steps[site][j].var = x
            BY <1>1, <4>5, <5>1 DEF WellFormed, This
          <6>2. QED BY <4>2, <5>1, <6>1
        <5>2. ASSUME NEW o, o # None, h = [hand EXCEPT ![This.var] = o]
              PROVE  h[x] # None <=> This.var = x \/ hand[x] # None
          <6>1. hand \in [Names -> heap \cup {None}]
            BY DEF InPlace, MutatorInv, HeapSound
          <6>2. h[x] = IF x = This.var THEN o ELSE hand[x]
            BY <5>2, <6>1
          <6>3. QED BY <5>2, <6>2
        <5>3. QED BY <5>1, <5>2 DEF SetsOne
      <4>7. QED BY <4>1, <4>2, <4>3, <4>4, <4>6
    <3>3. QED BY <3>1, <3>2
  <2>2. QED BY <1>1, <1>3, <2>1 DEF PlaceSound, InPlace
<1>4. QED BY <1>2, <1>3, AdvanceFacts

LEMMA AdvanceAnchors ==
    ASSUME InPlace, NEW h, Advance(h),
           \A x \in Names : h[x] # None /\ Anchors(This, x) => h[x] \in Rooted',
           \A x \in Names : Keeps(This, x) /\ ~Anchors(This, x) => h[x] = hand[x],
           \A x \in Names : Keeps(This, x) => Rooted \subseteq Rooted'
    PROVE  AnchorsHold'
<1>1. at \in Nat \ {0}
  BY InPlaceFacts
<1>2. CASE site' = "none"
  BY <1>2 DEF AnchorsHold
<1>3. CASE /\ site' = site /\ at' = at + 1 /\ at + 1 \in 1 .. Len(Steps[site])
           /\ hand' = [x \in Names |->
                         IF \E k \in at + 1 .. Len(Steps[site]) : x \in Steps[site][k].uses
                         THEN h[x] ELSE None]
  <2> SUFFICES ASSUME NEW x \in Names, hand'[x] # None, Anchored(Steps[site], at + 1, x)
               PROVE  hand'[x] \in Rooted'
    BY <1>3 DEF AnchorsHold
  <2>1. hand'[x] = h[x]
    BY <1>3
  <2>2. CASE Anchors(This, x)
    BY <2>1, <2>2
  <2>3. CASE Anchored(Steps[site], at, x) /\ Keeps(This, x) /\ ~Anchors(This, x)
    BY <2>1, <2>3 DEF InPlace, MutatorInv, AnchorsHold
  <2>4. QED BY <1>1, <2>2, <2>3, AnchoredNext DEF This
<1>4. QED BY <1>2, <1>3, AdvanceFacts

-----------------------------------------------------------------------------
(* The height of the stack.                                                *)

LEMMA CountNext ==
    ASSUME NEW s \in Sites, WellFormed(Steps[s]), NEW kind,
           NEW i \in 1 .. Len(Steps[s]), NEW k \in i + 1 .. Len(Steps[s])
    PROVE  /\ Count(s, kind, i, k) \in Nat /\ Count(s, kind, i + 1, k) \in Nat
           /\ Count(s, kind, i, k) =
                 (IF Steps[s][i].op = kind THEN 1 ELSE 0) + Count(s, kind, i + 1, k)
<1> DEFINE all == Having(s, kind) \cap i .. k - 1
           others == Having(s, kind) \cap i + 1 .. k - 1
<1>1. Len(Steps[s]) \in Nat /\ i \in Int /\ k \in Int /\ DOMAIN Steps[s] = 1 .. Len(Steps[s])
  BY DEF WellFormed
<1>2. i + 1 \in Int /\ k - 1 \in Int
  BY <1>1
<1>3. IsFiniteSet(i .. k - 1) /\ IsFiniteSet(i + 1 .. k - 1)
  BY <1>1, <1>2, FS_Interval
<1>4. IsFiniteSet(all) /\ IsFiniteSet(others) /\ i \notin others
  BY <1>1, <1>3, FS_Subset
<1>5. Cardinality(all) \in Nat /\ Cardinality(others) \in Nat
  BY <1>4, FS_CardinalityType
<1>6. Count(s, kind, i, k) = Cardinality(all) /\ Count(s, kind, i + 1, k) = Cardinality(others)
  BY DEF Count
<1>7. CASE Steps[s][i].op = kind
  <2>1. all = others \cup {i}
    BY <1>1, <1>7 DEF Having
  <2> HIDE DEF all, others
  <2>2. Cardinality(all) = Cardinality(others) + 1
    BY <1>4, <2>1, FS_AddElement
  <2>3. QED BY <1>5, <1>6, <1>7, <2>2
<1>8. CASE Steps[s][i].op # kind
  <2>1. all = others
    BY <1>1, <1>8 DEF Having
  <2> HIDE DEF all, others
  <2>2. QED BY <1>5, <1>6, <1>8, <2>1
<1>9. QED BY <1>7, <1>8

(* What a step makes of it.                                               *)
Change(kind) == (IF kind = "push" THEN 1 ELSE 0) - (IF kind = "pop" THEN 1 ELSE 0)

LEMMA RiseNext ==
    ASSUME NEW s \in Sites, WellFormed(Steps[s]),
           NEW i \in 1 .. Len(Steps[s]), NEW k \in i + 1 .. Len(Steps[s])
    PROVE  /\ Rise(s, i, k) \in Int /\ Rise(s, i + 1, k) \in Int
           /\ Rise(s, i, k) = Change(Steps[s][i].op) + Rise(s, i + 1, k)
<1> DEFINE pushes == Count(s, "push", i, k)   later_pushes == Count(s, "push", i + 1, k)
           pops == Count(s, "pop", i, k)       later_pops == Count(s, "pop", i + 1, k)
           up == IF Steps[s][i].op = "push" THEN 1 ELSE 0
           down == IF Steps[s][i].op = "pop" THEN 1 ELSE 0
<1>1. pushes \in Nat /\ later_pushes \in Nat /\ pushes = up + later_pushes
  BY CountNext
<1>2. pops \in Nat /\ later_pops \in Nat /\ pops = down + later_pops
  BY CountNext
<1>3. up \in {0, 1} /\ down \in {0, 1} /\ Change(Steps[s][i].op) = up - down
  BY DEF Change
<1>4. Rise(s, i, k) = pushes - pops /\ Rise(s, i + 1, k) = later_pushes - later_pops
  BY DEF Rise
<1> HIDE DEF pushes, later_pushes, pops, later_pops, up, down
<1>5. QED BY <1>1, <1>2, <1>3, <1>4

(* Here is what the height of the stack is at least, at this step.           *)
LEMMA HeightHere ==
    ASSUME InPlace
    PROVE  /\ Len(stack) \in Nat
           /\ This.op \in {"peek", "replace"} => This.depth < Len(stack)
           /\ This.op = "pop" => 0 < Len(stack)
           /\ This.depth \in Nat
<1>1. at \in 1 .. Len(Steps[site]) /\ WellFormed(Steps[site]) /\ at \in Nat
  BY InPlaceFacts
<1>2. Len(stack) \in Nat
  BY LenProperties DEF InPlace, MutatorInv, HeapSound
<1>3. Rise(site, at, at) = 0
  <2>1. at .. at - 1 = {}
    BY <1>1
  <2>2. QED BY <2>1, FS_EmptySet DEF Rise, Count
<1>4. at \in at .. Len(Steps[site])
  BY <1>1
<1>5. QED BY <1>1, <1>2, <1>3, <1>4 DEF InPlace, MutatorInv, HeightsHold, This, WellFormed

LEMMA AdvanceHeights ==
    ASSUME InPlace, NEW h, Advance(h),
           \/ This.op = "push" /\ Len(stack') = Len(stack) + 1
           \/ This.op = "pop" /\ Len(stack') = Len(stack) - 1
           \/ This.op = "reset"
           \/ This.op \notin {"push", "pop"} /\ Len(stack') = Len(stack)
    PROVE  HeightsHold'
<1>1. /\ site \in Sites /\ at \in 1 .. Len(Steps[site]) /\ WellFormed(Steps[site])
      /\ at \in Nat \ {0} /\ Len(Steps[site]) \in Nat /\ Len(stack) \in Nat
  BY InPlaceFacts, HeightHere
<1>2. CASE site' = "none"
  BY <1>2 DEF HeightsHold
<1>3. CASE site' = site /\ at' = at + 1 /\ at + 1 \in 1 .. Len(Steps[site])
  <2>1. This.op # "reset"
    BY <1>1, <1>3 DEF WellFormed, This
  <2> SUFFICES ASSUME NEW k \in at + 1 .. Len(Steps[site])
               PROVE  /\ Steps[site][k].op \in {"peek", "replace"} =>
                            Steps[site][k].depth < Len(stack') + Rise(site, at + 1, k)
                      /\ Steps[site][k].op = "pop" => 0 < Len(stack') + Rise(site, at + 1, k)
    BY <1>3 DEF HeightsHold
  <2>2. k \in at .. Len(Steps[site])
    BY <1>1
  <2>3. /\ Steps[site][k].op \in {"peek", "replace"} =>
              Steps[site][k].depth < Len(stack) + Rise(site, at, k)
        /\ Steps[site][k].op = "pop" => 0 < Len(stack) + Rise(site, at, k)
    BY <2>2 DEF InPlace, MutatorInv, HeightsHold
  <2>4. Len(stack) + Rise(site, at, k) = Len(stack') + Rise(site, at + 1, k)
    <3>1. /\ Rise(site, at, k) \in Int /\ Rise(site, at + 1, k) \in Int
          /\ Rise(site, at, k) = Change(This.op) + Rise(site, at + 1, k)
      BY <1>1, RiseNext DEF This
    <3>2. Len(stack') = Len(stack) + Change(This.op)
      BY <1>1, <2>1 DEF Change
    <3>3. Change(This.op) \in Int
      BY DEF Change
    <3>4. QED BY <1>1, <3>1, <3>2, <3>3
  <2>5. QED BY <2>3, <2>4
<1>4. QED BY <1>2, <1>3, AdvanceFacts

-----------------------------------------------------------------------------
(* The operations.                                                         *)

(* What every operation keeps; the rest is at the end.                      *)
Main == HeapSound /\ PlaceSound /\ AnchorsHold /\ HeightsHold

(* A C variable is given up, or keeps what it has, or has a new object.      *)
LEMMA AdvanceHand ==
    ASSUME InPlace, NEW h, Advance(h), h = hand \/ \E o \in heap : h = [hand EXCEPT ![This.var] = o]
    PROVE  hand' \in [Names -> heap \cup {None}]
<1>1. hand \in [Names -> heap \cup {None}]
  BY DEF InPlace, MutatorInv, HeapSound
<1>2. h \in [Names -> heap \cup {None}]
  BY <1>1
<1>3. CASE hand' = Nothing
  BY <1>3 DEF Nothing
<1>4. CASE hand' # Nothing
  BY <1>2, <1>4, AdvanceFacts
<1>5. QED BY <1>3, <1>4

LEMMA NoneIsNoObject ==
    ASSUME HeapSound
    PROVE  None \notin heap
BY MutatorAssumption DEF HeapSound

(* Values that are only read come from a root.                              *)
LEMMA ReadFrom ==
    ASSUME InPlace, ReadStep
    PROVE  \/ This.op = "read" /\ Advance(hand)
           \/ /\ This.op \in {"peek", "const", "compiling", "interned", "follow"}
              /\ \E o \in Rooted : Sets(o)
<1> USE DEF Running, This
<1>1. /\ MachineRoots \subseteq Rooted /\ Reachable(refs, roots) \subseteq Rooted
      /\ refs \in [Objects -> SUBSET Objects] /\ MachineRoots \subseteq Objects
  BY HeapFacts DEF InPlace, MutatorInv
<1>2. stack \in Seq(heap) /\ compilers \in Seq(heap)
  BY DEF InPlace, MutatorInv, HeapSound
<1>3. CASE Running("peek") /\ Sets(TopOfStack(This.depth))
  <2>1. Len(stack) - This.depth \in 1 .. Len(stack)
    BY <1>3, HeightHere
  <2>2. TopOfStack(This.depth) \in Range(stack)
    BY <1>2, <2>1, RangeMember DEF TopOfStack
  <2>3. TopOfStack(This.depth) \in Rooted
    BY <1>1, <2>2 DEF MachineRoots
  <2>4. QED BY <1>3, <2>3
<1>4. CASE Running("const") /\ \E o \in Reachable(refs, roots) : Sets(o)
  BY <1>1, <1>4
<1>5. CASE Running("interned") /\ \E o \in strings : Sets(o)
  BY <1>1, <1>5 DEF MachineRoots
<1>6. CASE Running("compiling") /\ Sets(Last(compilers))
  <2>1. Sound(site)
    BY InPlaceFacts, PlacesSound DEF InPlace
  <2>2. site \in {"string_constant", "end_function"} /\ at = 3
    BY <1>6, <2>1, InPlaceFacts DEF Sound, NeedsCompiler
  <2>3. compilers # <<>>
    BY <1>2, <2>2, EmptySeq DEF InPlace, MutatorInv, CompilersHold
  <2>4. Last(compilers) \in Range(compilers)
    BY <1>2, <2>3, RangeFront
  <2>5. Last(compilers) \in Rooted
    BY <1>1, <2>4 DEF MachineRoots
  <2>6. QED BY <1>6, <2>5
<1>7. CASE Running("follow") /\ \E y \in Used : \E o \in refs[y] : Sets(o)
  <2>1. PICK y \in Used : \E o \in refs[y] : Sets(o)
    BY <1>7
  <2>2. PICK o \in refs[y] : Sets(o)
    BY <2>1
  <2>3. y \in Rooted
    BY <1>7, <2>1, HandsRooted DEF Used, InPlace
  <2>4. o \in Rooted
    BY <1>1, <2>3, ReachClosed DEF Rooted
  <2>5. QED BY <1>7, <2>2, <2>4
<1>8. CASE Running("read") /\ Advance(hand)
  BY <1>8
<1>9. QED BY <1>3, <1>4, <1>5, <1>6, <1>7, <1>8 DEF ReadStep

LEMMA ReadMain ==
    ASSUME InPlace, ReadStep
    PROVE  Main'
<1> USE DEF Main
<1>1. /\ UNCHANGED <<heap, refs, pinned>> /\ UNCHANGED <<stack, roots, strings, compilers>>
      /\ HeapSound /\ Rooted' = Rooted
  BY DEF ReadStep, InPlace, MutatorInv, heapVars, rootVars, Rooted, MachineRoots
<1>2. CASE This.op = "read" /\ Advance(hand)
  <2>1. hand' \in [Names -> heap \cup {None}] /\ SetsOne(hand)
    BY <1>2, AdvanceHand DEF SetsOne, Setting
  <2>2. HeapSound'
    BY <1>1, <2>1 DEF HeapSound
  <2>3. AnchorsHold'
    BY <1>1, <1>2, AdvanceAnchors DEF Anchors
  <2>4. QED BY <1>1, <1>2, <2>1, <2>2, <2>3, AdvancePlace, AdvanceHeights
<1>3. CASE /\ This.op \in {"peek", "const", "compiling", "interned", "follow"}
           /\ \E o \in Rooted : Sets(o)
  <2>1. PICK o \in Rooted : Sets(o)
    BY <1>3
  <2> DEFINE h == [hand EXCEPT ![This.var] = o]
  <2>2. Advance(h) /\ o \in heap /\ o # None
    BY <1>1, <2>1, HeapFacts, NoneIsNoObject DEF Sets
  <2>3. hand' \in [Names -> heap \cup {None}] /\ SetsOne(h)
    BY <1>3, <2>2, AdvanceHand DEF SetsOne, Setting
  <2>4. HeapSound'
    BY <1>1, <2>3 DEF HeapSound
  <2>5. \A x \in Names : h[x] = IF x = This.var THEN o ELSE hand[x]
    BY <1>1 DEF HeapSound
  <2>6. \A x \in Names : h[x] # None /\ Anchors(This, x) => h[x] \in Rooted'
    BY <1>1, <1>3, <2>5 DEF Anchors
  <2>7. \A x \in Names : Keeps(This, x) /\ ~Anchors(This, x) => h[x] = hand[x]
    BY <1>3, <2>5 DEF Anchors
  <2> HIDE DEF h
  <2>8. AnchorsHold'
    BY <1>1, <2>2, <2>6, <2>7, AdvanceAnchors
  <2>9. HeightsHold'
    BY <1>1, <1>3, <2>2, AdvanceHeights
  <2>10. QED BY <2>2, <2>3, <2>4, <2>8, <2>9, AdvancePlace
<1>4. QED BY <1>2, <1>3, ReadFrom

(* An error starts its own place.                                          *)
LEMMA UndefinedMain ==
    ASSUME InPlace, Undefined
    PROVE  Main'
<1>1. /\ site' = "runtime_error" /\ at' = 1 /\ hand' = Nothing
      /\ UNCHANGED <<heap, refs, pinned>> /\ UNCHANGED <<stack, roots, strings, compilers>>
      /\ HeapSound
  BY DEF Undefined, InPlace, MutatorInv, heapVars, rootVars
<1>2. "runtime_error" \in Sites
  BY DEF Sites, Steps
<1>3. HeapSound'
  BY <1>1 DEF HeapSound, Nothing
<1>4. \A x : ~Live(Steps["runtime_error"], 1, x)
  BY DEF Live
<1>5. PlaceSound'
  BY <1>1, <1>2, <1>4, RuntimeErrorText DEF PlaceSound, Nothing
<1>6. AnchorsHold'
  BY <1>1 DEF AnchorsHold, Nothing
<1>7. HeightsHold'
  BY <1>1, RuntimeErrorText DEF HeightsHold
<1>8. QED BY <1>3, <1>5, <1>6, <1>7 DEF Main

LEMMA RootedGrows ==
    ASSUME HeapSound, refs' = refs, MachineRoots \subseteq MachineRoots', MachineRoots' \subseteq heap
    PROVE  Rooted \subseteq Rooted'
BY HeapFacts, ReachGrows DEF Rooted, HeapSound

LEMMA RootsAfter ==
    ASSUME HeapSound'
    PROVE  MachineRoots' \subseteq heap' /\ MachineRoots' \subseteq Rooted'
<1>1. Range(stack') \subseteq heap' /\ Range(compilers') \subseteq heap'
  BY RangeOfSeq DEF HeapSound
<1>2. MachineRoots' \subseteq heap'
  BY <1>1 DEF HeapSound, MachineRoots
<1>3. refs' \in [Objects -> SUBSET Objects] /\ MachineRoots' \subseteq Objects
  BY <1>2 DEF HeapSound
<1> HIDE DEF MachineRoots
<1>4. QED BY <1>2, <1>3, ReachContains DEF Rooted

LEMMA StackMain ==
    ASSUME InPlace, StackStep
    PROVE  Main'
<1> USE DEF Main
<1>1. /\ UNCHANGED <<heap, refs, pinned>> /\ UNCHANGED <<roots, strings, compilers>>
      /\ HeapSound /\ stack \in Seq(heap)
      /\ hand \in [Names -> heap \cup {None}]
  BY DEF StackStep, InPlace, MutatorInv, heapVars, HeapSound
<1>2. CASE Running("pop") /\ stack' = Front(stack) /\ (IF This.var = "-" THEN Advance(hand) ELSE Sets(Last(stack)))
  <2>1. This.op = "pop"
    BY <1>2 DEF Running, This
  <2>2. stack # <<>> /\ Len(stack) \in Nat
    BY <1>1, <2>1, HeightHere, EmptySeq
  <2>3. stack' \in Seq(heap) /\ Len(stack') = Len(stack) - 1 /\ Last(stack) \in heap
    BY <1>1, <1>2, <2>2, RangeFront, RangeOfSeq
  <2>4. PICK h : /\ Advance(h) /\ SetsOne(h)
                 /\ h = hand \/ \E o \in heap : h = [hand EXCEPT ![This.var] = o]
    <3>1. CASE This.var = "-"
      BY <1>2, <3>1 DEF SetsOne
    <3>2. CASE This.var # "-"
      BY <1>1, <1>2, <2>1, <2>3, <3>2, NoneIsNoObject DEF SetsOne, Sets, Setting
    <3>3. QED BY <3>1, <3>2
  <2>5. HeapSound'
    BY <1>1, <2>3, <2>4, AdvanceHand DEF HeapSound
  <2>6. AnchorsHold'
    BY <2>1, <2>4, AdvanceAnchors DEF Anchors, Keeps
  <2>7. QED BY <2>1, <2>3, <2>4, <2>5, <2>6, AdvancePlace, AdvanceHeights
<1>3. CASE Running("push") /\ (\E o \in Used : stack' = Append(stack, o)) /\ Advance(hand)
  <2>1. This.op = "push" /\ SetsOne(hand)
    BY <1>3 DEF Running, This, SetsOne, Setting
  <2>2. PICK o \in Used : stack' = Append(stack, o)
    BY <1>3
  <2>3. o \in heap
    BY <2>2, InPlaceFacts
  <2>4. stack' \in Seq(heap) /\ Len(stack') = Len(stack) + 1 /\ Range(stack') = Range(stack) \cup {o}
    BY <1>1, <2>2, <2>3, RangeAppend
  <2>5. HeapSound'
    BY <1>1, <1>3, <2>4, AdvanceHand DEF HeapSound
  <2>6. MachineRoots \subseteq MachineRoots' /\ o \in MachineRoots'
    BY <1>1, <2>4 DEF MachineRoots
  <2>7. MachineRoots' \subseteq heap /\ MachineRoots' \subseteq Rooted'
    BY <1>1, <2>5, RootsAfter
  <2>8. Rooted \subseteq Rooted'
    BY <1>1, <2>6, <2>7, RootedGrows
  <2>9. \A x \in Names : Anchors(This, x) => hand[x] = o
    BY <2>1, <2>2 DEF Anchors, Used
  <2>10. AnchorsHold'
    BY <1>3, <2>6, <2>7, <2>8, <2>9, AdvanceAnchors
  <2>11. QED BY <1>3, <2>1, <2>4, <2>5, <2>10, AdvancePlace, AdvanceHeights
<1>4. CASE /\ Running("replace")
           /\ \E o \in Used : stack' = [stack EXCEPT ![Len(stack) - This.depth] = o]
           /\ Advance(hand)
  <2>1. This.op = "replace" /\ SetsOne(hand)
    BY <1>4 DEF Running, This, SetsOne, Setting
  <2>2. PICK o \in Used : stack' = [stack EXCEPT ![Len(stack) - This.depth] = o]
    BY <1>4
  <2>3. o \in heap
    BY <2>2, InPlaceFacts
  <2> DEFINE i == Len(stack) - This.depth
  <2> HIDE DEF i
  <2>4. stack' \in Seq(heap) /\ Len(stack') = Len(stack)
    <3>1. [stack EXCEPT ![i] = o] \in Seq(heap) /\ Len([stack EXCEPT ![i] = o]) = Len(stack)
      BY <1>1, <2>3, RangeExcept
    <3>2. QED BY <2>2, <3>1, Zenon DEF i
  <2>5. HeapSound'
    BY <1>1, <1>4, <2>4, AdvanceHand DEF HeapSound
  <2>6. AnchorsHold'
    BY <1>4, <2>1, AdvanceAnchors DEF Anchors, Keeps
  <2>7. QED BY <1>4, <2>1, <2>4, <2>5, <2>6, AdvancePlace, AdvanceHeights
<1>5. CASE Running("reset") /\ stack' = <<>> /\ Advance(hand)
  <2>1. This.op = "reset" /\ SetsOne(hand)
    BY <1>5 DEF Running, This, SetsOne, Setting
  <2>2. stack' \in Seq(heap)
    BY <1>5, EmptySeq
  <2>3. HeapSound'
    BY <1>1, <1>5, <2>2, AdvanceHand DEF HeapSound
  <2>4. AnchorsHold'
    BY <1>5, <2>1, AdvanceAnchors DEF Anchors, Keeps
  <2>5. QED BY <1>5, <2>1, <2>3, <2>4, AdvancePlace, AdvanceHeights
<1>6. QED BY <1>2, <1>3, <1>4, <1>5 DEF StackStep

LEMMA CompilerMain ==
    ASSUME InPlace, CompilerStep
    PROVE  Main'
<1> USE DEF Main
<1>1. /\ UNCHANGED <<heap, refs, pinned>> /\ UNCHANGED <<stack, roots, strings>>
      /\ HeapSound /\ compilers \in Seq(heap)
      /\ hand \in [Names -> heap \cup {None}]
  BY DEF CompilerStep, InPlace, MutatorInv, heapVars, HeapSound
<1>2. CASE Running("close") /\ compilers' = Front(compilers) /\ Sets(Last(compilers))
  <2>1. This.op = "close"
    BY <1>2 DEF Running, This
  <2>2. compilers # <<>>
    <3>1. site \in {"end_function", "end_failed", "interpret"} /\ at = 2
      BY <2>1, InPlaceFacts, PlacesSound DEF InPlace, Sound, NeedsCompiler, This
    <3>2. Len(compilers) >= 1
      BY <3>1, LenProperties, <1>1 DEF InPlace, MutatorInv, CompilersHold
    <3>3. QED BY <3>2, EmptySeq
  <2>3. compilers' \in Seq(heap) /\ Last(compilers) \in heap
    BY <1>1, <1>2, <2>2, RangeFront, RangeOfSeq
  <2> DEFINE h == [hand EXCEPT ![This.var] = Last(compilers)]
  <2>4. Advance(h) /\ SetsOne(h)
    BY <1>1, <1>2, <2>1, <2>3, NoneIsNoObject DEF SetsOne, Sets, Setting
  <2>5. HeapSound'
    BY <1>1, <2>3, <2>4, AdvanceHand DEF HeapSound
  <2> HIDE DEF h
  <2>6. AnchorsHold'
    BY <2>1, <2>4, AdvanceAnchors DEF Anchors, Keeps
  <2>7. QED BY <1>1, <2>1, <2>4, <2>5, <2>6, AdvancePlace, AdvanceHeights
<1>3. CASE Running("open") /\ (\E o \in Used : compilers' = Append(compilers, o)) /\ Advance(hand)
  <2>1. This.op = "open" /\ SetsOne(hand)
    BY <1>3 DEF Running, This, SetsOne, Setting
  <2>2. PICK o \in Used : compilers' = Append(compilers, o)
    BY <1>3
  <2>3. o \in heap
    BY <2>2, InPlaceFacts
  <2>4. compilers' \in Seq(heap) /\ Range(compilers') = Range(compilers) \cup {o}
    BY <1>1, <2>2, <2>3, RangeAppend
  <2>5. HeapSound'
    BY <1>1, <1>3, <2>4, AdvanceHand DEF HeapSound
  <2>6. MachineRoots \subseteq MachineRoots' /\ o \in MachineRoots'
    BY <1>1, <2>4 DEF MachineRoots
  <2>7. MachineRoots' \subseteq heap /\ MachineRoots' \subseteq Rooted'
    BY <1>1, <2>5, RootsAfter
  <2>8. Rooted \subseteq Rooted'
    BY <1>1, <2>6, <2>7, RootedGrows
  <2>9. \A x \in Names : Anchors(This, x) => hand[x] = o
    BY <2>1, <2>2 DEF Anchors, Used
  <2>10. AnchorsHold'
    BY <1>3, <2>6, <2>7, <2>8, <2>9, AdvanceAnchors
  <2>11. QED BY <1>1, <1>3, <2>1, <2>5, <2>10, AdvancePlace, AdvanceHeights
<1>4. QED BY <1>2, <1>3 DEF CompilerStep

LEMMA RootMain ==
    ASSUME InPlace, RootStep
    PROVE  Main'
<1> USE DEF Main
<1>1. /\ UNCHANGED <<heap, refs, pinned>> /\ UNCHANGED <<stack, compilers>>
      /\ HeapSound /\ Advance(hand) /\ Used \subseteq heap
      /\ hand \in [Names -> heap \cup {None}]
  BY InPlaceFacts DEF RootStep, InPlace, MutatorInv, heapVars, HeapSound
<1>2. /\ This.op \in {"root", "intern"}
      /\ roots' \cup strings' = roots \cup strings \cup Used
      /\ roots \subseteq roots' /\ strings \subseteq strings'
  BY DEF RootStep, Running, This
<1>3. SetsOne(hand)
  BY <1>2 DEF SetsOne, Setting
<1>4. HeapSound'
  BY <1>1, <1>2, AdvanceHand DEF HeapSound
<1>5. MachineRoots \subseteq MachineRoots' /\ Used \subseteq MachineRoots'
  BY <1>1, <1>2 DEF MachineRoots
<1>6. MachineRoots' \subseteq heap /\ MachineRoots' \subseteq Rooted'
  BY <1>1, <1>4, RootsAfter
<1>7. Rooted \subseteq Rooted'
  BY <1>1, <1>5, <1>6, RootedGrows
<1>8. \A x \in Names : Anchors(This, x) => hand[x] \in Used
  BY <1>2 DEF Anchors, Used
<1>9. AnchorsHold'
  BY <1>1, <1>5, <1>6, <1>7, <1>8, AdvanceAnchors
<1>10. QED BY <1>1, <1>2, <1>3, <1>4, <1>9, AdvancePlace, AdvanceHeights

LEMMA PinMain ==
    ASSUME InPlace, PinStep
    PROVE  Main'
<1> USE DEF Main
<1>1. /\ UNCHANGED <<heap, refs>> /\ UNCHANGED <<stack, roots, strings, compilers>>
      /\ HeapSound /\ Advance(hand) /\ This.op = "pin" /\ pinned' \subseteq heap
      /\ Rooted' = Rooted
  BY InPlaceFacts
  DEF PinStep, InPlace, MutatorInv, rootVars, HeapSound, Running, This, Rooted, MachineRoots
<1>2. SetsOne(hand)
  BY <1>1 DEF SetsOne, Setting
<1>3. HeapSound'
  BY <1>1, AdvanceHand DEF HeapSound
<1>4. AnchorsHold'
  BY <1>1, AdvanceAnchors DEF Anchors
<1>5. QED BY <1>1, <1>2, <1>3, <1>4, AdvancePlace, AdvanceHeights

LEMMA StoreMain ==
    ASSUME InPlace, StoreStep
    PROVE  Main'
<1> USE DEF Main
<1> DEFINE to == hand[This.var]
<1>1. /\ UNCHANGED <<heap, pinned>> /\ UNCHANGED <<stack, roots, strings, compilers>>
      /\ HeapSound /\ Advance(hand) /\ This.op \in {"store", "constant", "copy"}
  BY DEF StoreStep, InPlace, MutatorInv, rootVars, Running, This
<1>2. This.var \in This.uses
  BY <1>1, InPlaceFacts DEF WellFormed, This
<1>3. to \in heap /\ Used \subseteq heap /\ \A x \in This.uses : hand[x] \in heap
  BY <1>2, InPlaceFacts
<1>4. \/ refs' = refs
      \/ \E kids \in SUBSET heap : refs' = [refs EXCEPT ![to] = kids]
  <2>1. refs \in [Objects -> SUBSET heap] /\ heap \subseteq Objects
    BY <1>1 DEF HeapSound
  <2>2. {hand[x] : x \in This.uses \ {This.var}} \subseteq heap
    BY <1>3
  <2>3. UNION {refs[o] : o \in Used \ {to}} \subseteq heap
    BY <1>3, <2>1
  <2>4. refs[to] \subseteq heap
    BY <1>3, <2>1
  <2>5. \A kept \in SUBSET refs[to], new \in SUBSET heap : kept \cup new \in SUBSET heap
    BY <2>4
  <2>6. \/ refs' = refs
        \/ \E new \in SUBSET heap : \E kept \in SUBSET refs[to] : refs' = [refs EXCEPT ![to] = kept \cup new]
    BY <2>2, <2>3 DEF StoreStep
  <2>7. QED BY <2>5, <2>6
<1>5. SetsOne(hand)
  BY <1>1 DEF SetsOne, Setting
<1>6. hand' \in [Names -> heap \cup {None}]
  BY <1>1, AdvanceHand
<1>7. HeapSound'
  BY <1>1, <1>3, <1>4, <1>6 DEF HeapSound
<1>8. AnchorsHold'
  BY <1>1, AdvanceAnchors DEF Anchors, Keeps
<1>9. QED BY <1>1, <1>5, <1>7, <1>8, AdvancePlace, AdvanceHeights

(* A collection frees nothing that can be reached, and cuts no way to it.     *)
LEMMA CollectFacts ==
    ASSUME HeapSound, NEW collects \in BOOLEAN
    PROVE  LET left == Collect(collects)
           IN  /\ left.heap \subseteq heap /\ Survivors \subseteq left.heap
               /\ left.refs \in [Objects -> SUBSET left.heap]
               /\ \A o \in Objects \ left.heap : left.refs[o] = {}
               /\ \A o \in Survivors : left.refs[o] = refs[o]
               /\ left.pinned \subseteq left.heap
<1> DEFINE left == Collect(collects)
<1>1. /\ refs \in [Objects -> SUBSET Objects] /\ Survivors \subseteq heap
      /\ refs \in [Objects -> SUBSET heap] /\ heap \subseteq Objects
      /\ \A o \in Objects \ heap : refs[o] = {}
      /\ pinned \subseteq heap
  BY HeapFacts DEF HeapSound
<1>2. CASE collects = FALSE
  <2>1. left.heap = heap /\ left.refs = refs /\ left.pinned = pinned
    BY <1>2 DEF Collect
  <2> HIDE DEF left
  <2>2. QED BY <1>1, <2>1 DEF left
<1>3. CASE collects = TRUE
  <2>1. /\ left.heap = Survivors /\ left.pinned = {}
        /\ left.refs = [o \in Objects |-> IF o \in Survivors THEN refs[o] ELSE {}]
    BY <1>3 DEF Collect
  <2>2. ASSUME NEW o \in Survivors PROVE refs[o] \subseteq Survivors
    BY <1>1, ReachClosed DEF Survivors
  <2>3. left.refs \in [Objects -> SUBSET Survivors]
    BY <2>1, <2>2
  <2>4. /\ \A o \in Objects \ Survivors : left.refs[o] = {}
        /\ \A o \in Survivors : left.refs[o] = refs[o]
    BY <1>1, <2>1
  <2> HIDE DEF left
  <2>5. QED BY <1>1, <2>1, <2>3, <2>4 DEF left
<1>4. QED BY <1>2, <1>3

(* What is left over by a collection is enough for the C variables.          *)
LEMMA HandLeft ==
    ASSUME InPlace, This.op \in {"alloc", "new"}, NEW h, Advance(h), NEW left,
           Survivors \subseteq left, left \subseteq heap',
           \A x \in Names : h[x] = hand[x] \/ h[x] \in heap'
    PROVE  hand' \in [Names -> heap' \cup {None}]
<1>1. \A x \in Names : hand[x] # None => hand[x] \in heap'
  BY HandsRooted DEF InPlace, This
<1>2. \A x \in Names : h[x] \in heap' \cup {None}
  BY <1>1
<1>3. CASE hand' = Nothing
  BY <1>3 DEF Nothing
<1>4. CASE hand' # Nothing
  BY <1>2, <1>4, AdvanceFacts
<1>5. QED BY <1>3, <1>4

LEMMA AllocMain ==
    ASSUME InPlace, NEW collects \in BOOLEAN, AllocStep(collects)
    PROVE  Main'
<1> USE DEF Main
<1> DEFINE left == Collect(collects)
<1>1. /\ UNCHANGED <<stack, roots, strings, compilers>> /\ HeapSound
      /\ heap' = left.heap /\ refs' = left.refs /\ pinned' = left.pinned
      /\ This.op = "alloc" /\ Advance(hand)
  BY DEF AllocStep, InPlace, MutatorInv, rootVars, Running, This
<1>2. /\ heap' \subseteq heap /\ Survivors \subseteq heap'
      /\ refs' \in [Objects -> SUBSET heap']
      /\ \A o \in Objects \ heap' : refs'[o] = {}
      /\ \A o \in Survivors : refs'[o] = refs[o]
      /\ pinned' \subseteq heap'
  BY <1>1, CollectFacts
<1> HIDE DEF left
<1>3. /\ refs \in [Objects -> SUBSET Objects] /\ MachineRoots \subseteq Objects
      /\ MachineRoots \subseteq Survivors /\ Rooted \subseteq Survivors /\ heap \subseteq Objects
  BY <1>1, HeapFacts DEF HeapSound
<1>4. hand' \in [Names -> heap' \cup {None}]
  BY <1>1, <1>2, HandLeft
<1>5. HeapSound'
  <2>1. Range(stack) \subseteq Survivors /\ Range(compilers) \subseteq Survivors
        /\ roots \subseteq Survivors /\ strings \subseteq Survivors
    BY <1>3 DEF MachineRoots
  <2>2. stack \in Seq(heap') /\ compilers \in Seq(heap')
    BY <1>1, <1>2, <2>1, SeqWithin DEF HeapSound
  <2>3. QED BY <1>1, <1>2, <1>3, <1>4, <2>1, <2>2 DEF HeapSound
<1>6. Rooted \subseteq Rooted'
  <2>1. MachineRoots' = MachineRoots /\ refs' \in [Objects -> SUBSET Objects]
    BY <1>1, <1>2, <1>3 DEF MachineRoots
  <2>2. \A x \in Reachable(refs, MachineRoots) : refs[x] \subseteq refs'[x]
    BY <1>2, <1>3 DEF Rooted
  <2>3. QED BY <1>3, <2>1, <2>2, ReachGrows DEF Rooted
<1>7. SetsOne(hand)
  BY <1>1 DEF SetsOne, Setting
<1>8. AnchorsHold'
  BY <1>1, <1>6, AdvanceAnchors DEF Anchors
<1>9. QED BY <1>1, <1>5, <1>7, <1>8, AdvancePlace, AdvanceHeights

LEMMA NewMain ==
    ASSUME InPlace, NEW collects \in BOOLEAN, NewStep(collects)
    PROVE  Main'
<1> USE DEF Main
<1> DEFINE left == Collect(collects)
<1>1. /\ UNCHANGED <<stack, roots, strings, compilers>> /\ HeapSound /\ This.op = "new"
  BY DEF NewStep, InPlace, MutatorInv, rootVars, Running, This
<1>2. PICK o \in Objects \ left.heap :
          /\ heap' = left.heap \cup {o} /\ refs' = [left.refs EXCEPT ![o] = Used]
          /\ pinned' = left.pinned /\ Sets(o)
  BY DEF NewStep
<1>3. /\ left.heap \subseteq heap /\ Survivors \subseteq left.heap
      /\ left.refs \in [Objects -> SUBSET left.heap]
      /\ \A p \in Objects \ left.heap : left.refs[p] = {}
      /\ \A p \in Survivors : left.refs[p] = refs[p]
      /\ left.pinned \subseteq left.heap
  BY <1>1, CollectFacts
<1> HIDE DEF left
<1>4. /\ refs \in [Objects -> SUBSET Objects] /\ MachineRoots \subseteq Objects
      /\ MachineRoots \subseteq Survivors /\ Rooted \subseteq Survivors /\ heap \subseteq Objects
      /\ hand \in [Names -> heap \cup {None}]
  BY <1>1, HeapFacts DEF HeapSound
<1> DEFINE h == [hand EXCEPT ![This.var] = o]
<1>5. /\ Advance(h) /\ SetsOne(h)
      /\ \A x \in Names : h[x] = IF x = This.var THEN o ELSE hand[x]
  BY <1>1, <1>2, <1>4, MutatorAssumption DEF Sets, SetsOne, Setting
<1> HIDE DEF h
<1>6. hand' \in [Names -> heap' \cup {None}]
  <2>1. \A x \in Names : h[x] = hand[x] \/ h[x] \in heap'
    BY <1>2, <1>5
  <2>2. QED BY <1>1, <1>2, <1>3, <1>5, <2>1, HandLeft
<1>7. Used \subseteq left.heap
  <2>1. \A x \in This.uses : x \in Names /\ hand[x] # None
    BY InPlaceFacts
  <2>2. \A x \in This.uses : hand[x] \in Survivors
    BY <1>1, <2>1, HandsRooted DEF InPlace, This
  <2>3. QED BY <1>3, <2>2 DEF Used
<1>8. /\ refs' \in [Objects -> SUBSET heap'] /\ heap' \subseteq Objects
      /\ \A p \in Objects \ heap' : refs'[p] = {}
      /\ \A p \in Survivors : refs'[p] = refs[p]
  BY <1>2, <1>3, <1>4, <1>7
<1>9. HeapSound'
  <2>1. Range(stack) \subseteq Survivors /\ Range(compilers) \subseteq Survivors
        /\ roots \subseteq Survivors /\ strings \subseteq Survivors
    BY <1>4 DEF MachineRoots
  <2>2. Survivors \subseteq heap'
    BY <1>2, <1>3
  <2>3. stack \in Seq(heap') /\ compilers \in Seq(heap')
    BY <1>1, <2>1, <2>2, SeqWithin DEF HeapSound
  <2>4. pinned' \subseteq heap'
    BY <1>2, <1>3
  <2>5. QED BY <1>1, <1>6, <1>8, <2>1, <2>2, <2>3, <2>4 DEF HeapSound
<1>10. Rooted \subseteq Rooted'
  <2>1. MachineRoots' = MachineRoots /\ refs' \in [Objects -> SUBSET Objects]
    BY <1>1, <1>8 DEF MachineRoots
  <2>2. \A x \in Reachable(refs, MachineRoots) : refs[x] \subseteq refs'[x]
    BY <1>4, <1>8 DEF Rooted
  <2>3. QED BY <1>4, <2>1, <2>2, ReachGrows DEF Rooted
<1>11. AnchorsHold'
  <2>1. \A x \in Names : ~Anchors(This, x)
    BY <1>1 DEF Anchors
  <2>2. \A x \in Names : Keeps(This, x) => h[x] = hand[x]
    BY <1>1, <1>5 DEF Keeps
  <2>3. QED BY <1>5, <1>10, <2>1, <2>2, AdvanceAnchors
<1>12. QED BY <1>1, <1>5, <1>9, <1>11, AdvancePlace, AdvanceHeights

-----------------------------------------------------------------------------
(* Between places.                                                         *)

LEMMA BeginInv ==
    ASSUME ~StringsGrow, MutatorInv, NEW s \in Sites, Begin(s)
    PROVE  MutatorInv'
<1>1. /\ site' = s /\ at' = 1 /\ hand' = Nothing /\ site = "none"
      /\ UNCHANGED <<heap, refs, pinned, stack, roots, strings, compilers>>
      /\ InTurn(s) /\ Fits(s)
  BY DEF Begin, MutatorInv, PlaceSound
<1>2. HeapSound'
  BY <1>1 DEF MutatorInv, HeapSound, Nothing
<1>3. WellFormed(Steps[s])
  BY PlacesSound DEF Sound
<1>4. PlaceSound'
  <2>1. \A x : ~Live(Steps[s], 1, x)
    BY DEF Live
  <2>2. 1 \in 1 .. Len(Steps[s]) /\ s # "none"
    BY <1>3 DEF WellFormed, Sites, Steps
  <2>3. QED BY <1>1, <2>1, <2>2 DEF PlaceSound, Nothing
<1>5. AnchorsHold'
  BY <1>1 DEF AnchorsHold, Nothing
<1>6. HeightsHold'
  <2> SUFFICES ASSUME NEW k \in 1 .. Len(Steps[s])
               PROVE  /\ Steps[s][k].op \in {"peek", "replace"} =>
                            Steps[s][k].depth < Len(stack) + Rise(s, 1, k)
                      /\ Steps[s][k].op = "pop" => 0 < Len(stack) + Rise(s, 1, k)
    BY <1>1 DEF HeightsHold
  <2>1. k \in DOMAIN Steps[s] /\ k - 1 \in Int
    BY <1>3 DEF WellFormed
  <2>2. Height(s, k) = Len(stack) + Rise(s, 1, k)
    <3>1. IsFiniteSet(1 .. k - 1)
      BY <2>1, FS_Interval
    <3>2. Count(s, "push", 1, k) \in Nat /\ Count(s, "pop", 1, k) \in Nat
      BY <3>1, FS_Subset, FS_CardinalityType DEF Count
    <3>3. Len(stack) \in Nat
      BY LenProperties DEF MutatorInv, HeapSound
    <3>4. Height(s, k) = Len(stack) + Count(s, "push", 1, k) - Count(s, "pop", 1, k)
      BY DEF Height, Count
    <3>5. QED BY <3>2, <3>3, <3>4 DEF Rise
  <2>3. QED BY <1>1, <2>1, <2>2 DEF Fits, Having
<1>7. CompilersHold'
  <2>1. compilers \in Seq(heap)
    BY DEF MutatorInv, HeapSound
  <2>2. Len(compilers) \in Nat /\ (compilers # <<>> => Len(compilers) >= 1)
    BY <2>1, EmptySeq, LenProperties
  <2>3. /\ s = "string_constant" => compilers # <<>>
        /\ s = "end_function" => Len(compilers) > 1
        /\ s \in {"end_failed", "interpret"} => Len(compilers) = 1
    BY <1>1 DEF InTurn, Machine, Booting, Compiler
  <2>4. QED BY <1>1, <2>2, <2>3 DEF CompilersHold
<1>8. OthersHold'
  BY <1>1 DEF OthersHold
<1>9. QED BY <1>2, <1>4, <1>5, <1>6, <1>7, <1>8 DEF MutatorInv

LEMMA IdleInv ==
    ASSUME MutatorInv, Load \/ Drop \/ GiveUp
    PROVE  MutatorInv'
<1>1. /\ site = "none" /\ site' = "none" /\ at' = at /\ hand' = hand
      /\ UNCHANGED <<heap, refs, pinned, strings, compilers>>
      /\ HeapSound /\ stack \in Seq(heap)
  BY DEF Load, Drop, GiveUp, MutatorInv, heapVars, HeapSound
<1>2. stack' \in Seq(heap) /\ roots' \subseteq heap
  <2>1. CASE Load
    <3>1. PICK o \in Reachable(refs, Range(stack) \cup roots) : stack' = Append(stack, o)
      BY <2>1 DEF Load
    <3>2. Range(stack) \cup roots \subseteq MachineRoots
      BY DEF MachineRoots
    <3>3. o \in heap
      BY <1>1, <3>1, <3>2, HeapFacts, ReachGrows DEF Rooted
    <3>4. QED BY <1>1, <2>1, <3>1, <3>3, AppendProperties DEF Load, HeapSound
  <2>2. CASE Drop
    BY <1>1, <2>2, RangeFront DEF Drop, HeapSound
  <2>3. CASE GiveUp
    BY <1>1, <2>3 DEF GiveUp, HeapSound
  <2>4. QED BY <2>1, <2>2, <2>3
<1>3. HeapSound'
  BY <1>1, <1>2 DEF HeapSound
<1>4. PlaceSound' /\ AnchorsHold' /\ HeightsHold' /\ CompilersHold' /\ OthersHold'
  BY <1>1 DEF MutatorInv, PlaceSound, AnchorsHold, HeightsHold, CompilersHold, OthersHold
<1>5. QED BY <1>3, <1>4 DEF MutatorInv

-----------------------------------------------------------------------------
(* The compilers, and the others.                                          *)

LEMMA InPlaceStep ==
    ASSUME InPlace, Next
    PROVE  \/ ReadStep /\ This.op \in {"peek", "const", "interned", "compiling", "follow", "read"}
           \/ Undefined
           \/ StackStep /\ This.op \in {"pop", "push", "replace", "reset"}
           \/ CompilerStep /\ This.op \in {"open", "close"}
           \/ RootStep /\ This.op \in {"root", "intern"}
           \/ PinStep /\ This.op = "pin"
           \/ StoreStep /\ This.op \in {"store", "constant", "copy"}
           \/ \E collects \in BOOLEAN : AllocStep(collects) /\ This.op = "alloc"
           \/ \E collects \in BOOLEAN : NewStep(collects) /\ This.op = "new"
<1>1. /\ \A s \in Sites : ~Begin(s)
      /\ ~Load /\ ~Drop /\ ~GiveUp
  BY DEF InPlace, Begin, Load, Drop, GiveUp
<1>2. ReadStep => This.op \in {"peek", "const", "interned", "compiling", "follow", "read"}
  BY DEF ReadStep, Running, This
<1>3. StackStep => This.op \in {"pop", "push", "replace", "reset"}
  BY DEF StackStep, Running, This
<1>4. CompilerStep => This.op \in {"open", "close"}
  BY DEF CompilerStep, Running, This
<1>5. RootStep => This.op \in {"root", "intern"}
  BY DEF RootStep, Running, This
<1>6. PinStep => This.op = "pin"
  BY DEF PinStep, Running, This
<1>7. StoreStep => This.op \in {"store", "constant", "copy"}
  BY DEF StoreStep, Running, This
<1>8. \A collects \in BOOLEAN : AllocStep(collects) => This.op = "alloc"
  BY DEF AllocStep, Running, This
<1>9. \A collects \in BOOLEAN : NewStep(collects) => This.op = "new"
  BY DEF NewStep, Running, This
<1>10. QED BY <1>1, <1>2, <1>3, <1>4, <1>5, <1>6, <1>7, <1>8, <1>9 DEF Next

(* What a step does not set keeps its value as long as it will be used.      *)
Later(x) == \E k \in at + 1 .. Len(Steps[site]) : x \in Steps[site][k].uses

GoesOn ==
    /\ site' = site /\ at' = at + 1 /\ at + 1 \in 1 .. Len(Steps[site])
    /\ \A x \in Names :
           Later(x) /\ (x # This.var \/ This.op \notin Setting) => hand'[x] = hand[x]

LEMMA HandKept ==
    ASSUME InPlace, Next, site' # "none", site' # "runtime_error"
    PROVE  GoesOn
<1>1. hand \in [Names -> heap \cup {None}]
  BY DEF InPlace, MutatorInv, HeapSound
<1>2. \E h : /\ Advance(h)
             /\ \A x \in Names : x # This.var \/ This.op \notin Setting => h[x] = hand[x]
  <2>1. ASSUME NEW o, Sets(o)
        PROVE  \E h : /\ Advance(h)
                      /\ \A x \in Names : x # This.var => h[x] = hand[x]
    BY <1>1, <2>1 DEF Sets
  <2>2. Advance(hand) \/ \E o : Sets(o) /\ This.op \in Setting
    <3>1. CASE ReadStep
      BY <3>1, ReadFrom DEF Setting
    <3>2. CASE StackStep
      BY <3>2 DEF StackStep, Running, This, Setting
    <3>3. CASE CompilerStep
      BY <3>3 DEF CompilerStep, Running, This, Setting
    <3>4. CASE RootStep \/ PinStep \/ StoreStep
      BY <3>4 DEF RootStep, PinStep, StoreStep
    <3>5. ASSUME NEW collects \in BOOLEAN, AllocStep(collects) PROVE Advance(hand)
      BY <3>5 DEF AllocStep
    <3>6. ASSUME NEW collects \in BOOLEAN, NewStep(collects)
          PROVE  \E o : Sets(o) /\ This.op \in Setting
      <4>1. This.op \in Setting
        BY <3>6 DEF NewStep, Running, This, Setting
      <4>2. \E o : Sets(o)
        BY <3>6 DEF NewStep
      <4>3. QED BY <4>1, <4>2
    <3>7. CASE Undefined
      BY <3>7 DEF Undefined
    <3>8. QED BY <3>1, <3>2, <3>3, <3>4, <3>5, <3>6, <3>7, InPlaceStep
  <2>3. QED BY <2>1, <2>2
<1>3. PICK h : /\ Advance(h)
               /\ \A x \in Names : x # This.var \/ This.op \notin Setting => h[x] = hand[x]
  BY <1>2
<1>4. QED BY <1>3, AdvanceFacts DEF GoesOn, Later

LEMMA CompilersNext ==
    ASSUME InPlace, Next
    PROVE  CompilersHold'
<1>1. CompilersHold /\ compilers \in Seq(heap) /\ Sound(site)
  BY InPlaceFacts, PlacesSound DEF InPlace, MutatorInv, HeapSound
<1>2. /\ at \in Nat \ {0} /\ at \in 1 .. Len(Steps[site])
      /\ Len(compilers) \in Nat
  BY <1>1, InPlaceFacts, LenProperties
<1>3. CASE site' = "none" \/ site' = "runtime_error"
  BY <1>3 DEF CompilersHold
<1>4. CASE site' # "none" /\ site' # "runtime_error"
  <2>1. site' = site /\ at' = at + 1
    BY <1>4, HandKept DEF GoesOn
  <2>2. CASE Running("close") /\ compilers' = Front(compilers)
    <3>1. site \in {"end_function", "end_failed", "interpret"} /\ at = 2
      BY <1>1, <1>2, <2>2 DEF Sound, NeedsCompiler, Running
    <3>2. compilers # <<>>
      BY <1>1, <1>2, <3>1, EmptySeq DEF CompilersHold
    <3>3. Len(compilers') = Len(compilers) - 1
      BY <1>1, <2>2, <3>2, RangeFront
    <3>4. QED BY <1>1, <1>2, <2>1, <3>1, <3>3 DEF CompilersHold
  <2>3. CASE Len(compilers') \in Nat /\ Len(compilers') >= Len(compilers) /\ This.op # "close"
    <3>1. site \in {"end_function", "end_failed", "interpret"} => at # 2
      BY <2>3, EndFunctionText, EndFailedText, InterpretText DEF This
    <3>2. QED BY <1>1, <1>2, <2>1, <2>3, <3>1 DEF CompilersHold
  <2>4. CompilerStep => \/ Running("close") /\ compilers' = Front(compilers)
                        \/ /\ Len(compilers') \in Nat /\ Len(compilers') >= Len(compilers)
                           /\ This.op # "close"
    <3> SUFFICES ASSUME NEW o \in Used, compilers' = Append(compilers, o), Running("open")
                 PROVE  /\ Len(compilers') \in Nat /\ Len(compilers') >= Len(compilers)
                        /\ This.op # "close"
      BY DEF CompilerStep
    <3>1. Len(compilers') = Len(compilers) + 1
      BY <1>1, InPlaceFacts, AppendProperties
    <3>2. QED BY <1>2, <3>1 DEF Running, This
  <2>5. CompilerStep \/ (compilers' = compilers /\ This.op # "close") \/ Undefined
    <3>1. ReadStep \/ StackStep \/ RootStep \/ PinStep \/ StoreStep => compilers' = compilers
      BY DEF ReadStep, StackStep, RootStep, PinStep, StoreStep, rootVars
    <3>2. \A collects \in BOOLEAN : AllocStep(collects) \/ NewStep(collects) => compilers' = compilers
      BY DEF AllocStep, NewStep, rootVars
    <3>3. QED BY <3>1, <3>2, InPlaceStep
  <2>6. ~Undefined
    BY <1>4 DEF Undefined
  <2>7. QED BY <1>2, <2>2, <2>3, <2>4, <2>5, <2>6
<1>5. QED BY <1>3, <1>4

(* What a step sets is what will be used.                                  *)
LEMMA HandSet ==
    ASSUME InPlace, GoesOn, NEW o, Sets(o), Later(This.var)
    PROVE  hand'[This.var] = o
<1>1. hand \in [Names -> heap \cup {None}] /\ This.var \in Names /\ site # "none"
  BY InPlaceFacts DEF InPlace, MutatorInv, HeapSound
<1> DEFINE h == [hand EXCEPT ![This.var] = o]
<1>2. Advance(h) /\ h[This.var] = o
  BY <1>1 DEF Sets
<1> HIDE DEF h
<1>3. hand' = [x \in Names |-> IF \E k \in at + 1 .. Len(Steps[site]) : x \in Steps[site][k].uses
                              THEN h[x] ELSE None]
  BY <1>1, <1>2, AdvanceFacts DEF GoesOn
<1>4. QED BY <1>1, <1>2, <1>3 DEF Later

(* A constant stays marked while its array grows.                           *)
LEMMA PinnedNext ==
    ASSUME InPlace, Next
    PROVE  /\ site' = "string_constant" /\ at' = 5 => hand'["string"] \in pinned'
           /\ site' = "end_function" /\ at' = 5 => hand'["inner"] \in pinned'
<1>1. ASSUME NEW x, GoesOn, This.op = "pin", This.uses = {x}, Later(x)
      PROVE  hand'[x] \in pinned'
  <2>1. PinStep
    BY <1>1, InPlaceStep DEF Undefined, Running, This
  <2>2. hand[x] \in pinned'
    BY <1>1, <2>1 DEF PinStep, Used
  <2>3. hand'[x] = hand[x]
    BY <1>1, InPlaceFacts DEF GoesOn, Setting
  <2>4. QED BY <2>2, <2>3
<1>2. ASSUME site' = "string_constant", at' = 5 PROVE hand'["string"] \in pinned'
  <2>1. GoesOn /\ site = "string_constant" /\ at = 4
    BY <1>2, HandKept, InPlaceFacts DEF GoesOn
  <2>2. This.op = "pin" /\ This.uses = {"string"} /\ Later("string")
    BY <2>1, StringConstantText DEF This, Later
  <2>3. QED BY <1>1, <2>1, <2>2
<1>3. ASSUME site' = "end_function", at' = 5 PROVE hand'["inner"] \in pinned'
  <2>1. GoesOn /\ site = "end_function" /\ at = 4
    BY <1>3, HandKept, InPlaceFacts DEF GoesOn
  <2>2. This.op = "pin" /\ This.uses = {"inner"} /\ Later("inner")
    BY <2>1, EndFunctionText DEF This, Later
  <2>3. QED BY <1>1, <2>1, <2>2
<1>4. QED BY <1>2, <1>3

(* The function that is compiled next refers to the one that was.            *)
LEMMA OuterNext ==
    ASSUME InPlace, Next, site' = "end_function"
    PROVE  /\ at' \in 4 .. 6 => hand'["outer"] \in Range(compilers')
           /\ at' = 7 => \E o \in Range(compilers') : hand'["inner"] \in refs'[o]
<1>1. GoesOn /\ site = "end_function" /\ at' = at + 1 /\ at \in Nat
  BY HandKept, InPlaceFacts DEF GoesOn
<1>2. compilers \in Seq(heap) /\ Range(compilers) \subseteq heap
  BY RangeOfSeq DEF InPlace, MutatorInv, HeapSound
<1>3. CASE at = 3
  <2>1. This.op = "compiling" /\ This.var = "outer" /\ Later("outer") /\ "outer" \in Names
    BY <1>1, <1>3, EndFunctionText, InPlaceFacts DEF This, Later
  <2>2. ReadStep
    BY <2>1, InPlaceStep DEF Undefined, Running, This
  <2>3. compilers' = compilers /\ Sets(Last(compilers))
    BY <2>1, <2>2 DEF ReadStep, rootVars, Running, This
  <2>4. compilers # <<>>
    BY <1>1, <1>2, <1>3, EmptySeq DEF InPlace, MutatorInv, CompilersHold
  <2>5. Last(compilers) \in Range(compilers)
    BY <1>2, <2>4, RangeFront
  <2>6. hand'["outer"] = Last(compilers)
    BY <1>1, <2>1, <2>3, HandSet
  <2>7. QED BY <1>1, <1>3, <2>3, <2>5, <2>6
<1>4. CASE at \in 4 .. 5
  <2>1. This.op \in {"pin", "alloc"} /\ Later("outer")
    BY <1>4, <1>1, EndFunctionText DEF This, Later
  <2>2. "outer" \in Names
    BY <1>1, EndFunctionText, InPlaceFacts, TextNames
  <2>3. hand'["outer"] = hand["outer"]
    BY <1>1, <2>1, <2>2 DEF GoesOn, Setting
  <2>4. compilers' = compilers
    <3>1. PinStep \/ \E collects \in BOOLEAN : AllocStep(collects)
      BY <2>1, InPlaceStep DEF Undefined, Running, This
    <3>2. QED BY <3>1 DEF PinStep, AllocStep, rootVars
  <2>5. hand["outer"] \in Range(compilers)
    BY <1>1, <1>4 DEF InPlace, MutatorInv, OthersHold
  <2>6. QED BY <1>1, <1>4, <2>3, <2>4, <2>5
<1>5. CASE at = 6
  <2>1. /\ This.op = "store" /\ This.var = "outer" /\ This.uses = {"inner", "outer"} /\ Later("inner")
    BY <1>1, <1>5, EndFunctionText DEF This, Later
  <2>2. "inner" \in Names
    BY <2>1, InPlaceFacts
  <2>3. hand'["inner"] = hand["inner"]
    BY <1>1, <2>1, <2>2 DEF GoesOn, Setting
  <2>4. StoreStep
    BY <2>1, InPlaceStep DEF Undefined, Running, This
  <2>5. compilers' = compilers
    BY <2>4 DEF StoreStep, rootVars
  <2>6. \E kept : refs' = [refs EXCEPT ![hand["outer"]] = kept \cup {hand["inner"]}]
    <3>1. {hand[x] : x \in This.uses \ {This.var}} = {hand["inner"]}
      BY <2>1
    <3>2. QED BY <2>1, <2>4, <3>1 DEF StoreStep, Running, This
  <2>7. hand["outer"] \in Range(compilers) /\ hand["outer"] \in Objects
    BY <1>1, <1>2, <1>5 DEF InPlace, MutatorInv, OthersHold, HeapSound
  <2>8. hand["inner"] \in refs'[hand["outer"]]
    BY <2>6, <2>7 DEF InPlace, MutatorInv, HeapSound
  <2>9. QED BY <1>1, <1>5, <2>3, <2>5, <2>7, <2>8
<1>6. CASE at \notin 3 .. 6
  BY <1>1, <1>6
<1>7. QED BY <1>3, <1>4, <1>5, <1>6, <1>1

(* The closure that runs goes on leading to the superclass.                  *)
LEMMA SuperNext ==
    ASSUME InPlace, Next, site' = "get_super"
    PROVE  /\ at' \in 2 .. 5 => hand'["super"] \in Reachable(refs', roots')
           /\ at' = 3 => stack' # <<>> /\ Last(stack') = hand'["super"]
<1>1. GoesOn /\ site = "get_super" /\ at' = at + 1 /\ at \in Nat
  BY HandKept, InPlaceFacts DEF GoesOn
<1>2. "super" \in Names
  <2>1. Steps["get_super"][1].var = "super" /\ 1 \in 1 .. Len(Steps["get_super"])
    BY GetSuperText
  <2>2. WellFormed(Steps["get_super"]) /\ "get_super" \in Sites
    BY <1>1, InPlaceFacts
  <2>3. QED BY <2>1, <2>2, TextNames
<1>3. stack \in Seq(heap)
  BY DEF InPlace, MutatorInv, HeapSound
<1>4. CASE at = 1
  <2>1. This.op = "const" /\ This.var = "super" /\ Later("super")
    BY <1>1, <1>4, GetSuperText DEF This, Later
  <2>2. ReadStep
    BY <2>1, InPlaceStep DEF Undefined, Running, This
  <2>3. refs' = refs /\ roots' = roots /\ \E o \in Reachable(refs, roots) : Sets(o)
    BY <2>1, <2>2 DEF ReadStep, heapVars, rootVars, Running, This
  <2>4. PICK o \in Reachable(refs, roots) : Sets(o)
    BY <2>3
  <2>5. hand'["super"] = o
    BY <1>1, <2>1, <2>4, HandSet
  <2>6. QED BY <1>1, <1>4, <2>3, <2>4, <2>5
<1>5. CASE at = 2
  <2>1. This.op = "push" /\ This.uses = {"super"} /\ Later("super")
    BY <1>1, <1>5, GetSuperText DEF This, Later
  <2>2. hand'["super"] = hand["super"]
    BY <1>2, <1>1, <2>1 DEF GoesOn, Setting
  <2>3. StackStep
    BY <2>1, InPlaceStep DEF Undefined, Running, This
  <2>4. refs' = refs /\ roots' = roots /\ stack' = Append(stack, hand["super"])
    BY <2>1, <2>3 DEF StackStep, heapVars, Running, This, Used
  <2>5. hand["super"] \in heap
    BY <2>1, InPlaceFacts
  <2>6. hand["super"] \in Reachable(refs, roots)
    BY <1>1, <1>5 DEF InPlace, MutatorInv, OthersHold
  <2>7. QED BY <1>1, <1>3, <1>5, <2>2, <2>4, <2>5, <2>6, RangeAppend
<1>6. CASE at = 3
  <2>1. This.op = "pop" /\ This.var = "super" /\ Later("super")
    BY <1>1, <1>6, GetSuperText DEF This, Later
  <2>2. StackStep
    BY <2>1, InPlaceStep DEF Undefined, Running, This
  <2>3. refs' = refs /\ roots' = roots /\ Sets(Last(stack))
    BY <2>1, <2>2 DEF StackStep, heapVars, Running, This
  <2>4. hand'["super"] = Last(stack)
    BY <1>1, <2>1, <2>3, HandSet
  <2>5. Last(stack) = hand["super"] /\ hand["super"] \in Reachable(refs, roots)
    BY <1>1, <1>6 DEF InPlace, MutatorInv, OthersHold
  <2>6. QED BY <1>1, <1>6, <2>3, <2>4, <2>5
<1>7. CASE at = 4
  <2>1. This.op = "peek" /\ This.var = "receiver" /\ Later("super")
    BY <1>1, <1>7, GetSuperText DEF This, Later
  <2>2. hand'["super"] = hand["super"]
    BY <1>2, <1>1, <2>1 DEF GoesOn
  <2>3. ReadStep
    BY <1>1, <2>1, InPlaceStep DEF Undefined
  <2>4. refs' = refs /\ roots' = roots
    BY <2>3 DEF ReadStep, heapVars, rootVars
  <2>5. hand["super"] \in Reachable(refs, roots)
    BY <1>1, <1>7 DEF InPlace, MutatorInv, OthersHold
  <2>6. QED BY <1>1, <1>7, <2>2, <2>4, <2>5
<1>8. CASE at \notin 1 .. 4
  BY <1>1, <1>8
<1>9. QED BY <1>1, <1>4, <1>5, <1>6, <1>7, <1>8

-----------------------------------------------------------------------------
(* The theorems.                                                           *)

LEMMA InitInv == Init => MutatorInv
<1> SUFFICES ASSUME Init PROVE MutatorInv
  OBVIOUS
<1>1. HeapSound
  BY EmptySeq DEF Init, HeapSound, Nothing
<1>2. QED BY <1>1
  DEF Init, MutatorInv, PlaceSound, AnchorsHold, HeightsHold, CompilersHold, OthersHold

LEMMA NextInv ==
    ASSUME ~StringsGrow, MutatorInv, Next
    PROVE  MutatorInv'
<1>1. CASE site = "none"
  <2>1. (\E s \in Sites : Begin(s)) \/ Load \/ Drop \/ GiveUp
    BY <1>1 DEF Next, ReadStep, Undefined, StackStep, CompilerStep, RootStep, PinStep, StoreStep,
              AllocStep, NewStep, Running
  <2>2. QED BY <2>1, BeginInv, IdleInv
<1>2. CASE site # "none"
  <2>1. InPlace
    BY <1>2 DEF InPlace
  <2>2. Main'
    <3>1. ASSUME NEW collects \in BOOLEAN, AllocStep(collects) \/ NewStep(collects) PROVE Main'
      BY <2>1, <3>1, AllocMain, NewMain
    <3>2. QED BY <2>1, <3>1, InPlaceStep, ReadMain, UndefinedMain, StackMain, CompilerMain,
                 RootMain, PinMain, StoreMain
  <2>3. OthersHold'
    BY <2>1, PinnedNext, OuterNext, SuperNext DEF OthersHold
  <2>4. QED BY <2>1, <2>2, <2>3, CompilersNext DEF Main, MutatorInv
<1>3. QED BY <1>1, <1>2

LEMMA StutterInv == MutatorInv /\ UNCHANGED vars => MutatorInv'
<1> SUFFICES ASSUME MutatorInv, UNCHANGED vars PROVE MutatorInv'
  OBVIOUS
<1>1. /\ UNCHANGED <<heap, refs, stack, roots, strings, compilers, pinned>>
      /\ site' = site /\ at' = at /\ hand' = hand
  BY DEF vars
<1>2. HeapSound' /\ PlaceSound'
  BY <1>1 DEF MutatorInv, HeapSound, PlaceSound
<1>3. AnchorsHold' /\ HeightsHold' /\ CompilersHold'
  BY <1>1 DEF MutatorInv, AnchorsHold, HeightsHold, CompilersHold, Rooted, MachineRoots
<1>4. OthersHold'
  BY <1>1 DEF MutatorInv, OthersHold
<1>5. QED BY <1>2, <1>3, <1>4 DEF MutatorInv

(* What the proof rests on, in every state the program can be in.            *)
THEOREM SpecInv ==
    ASSUME ~StringsGrow
    PROVE  Spec => []MutatorInv
<1>1. MutatorInv /\ [Next]_vars => MutatorInv'
  BY NextInv, StutterInv
<1>2. QED BY <1>1, InitInv, PTL DEF Spec

(* Wherever reallocate may collect, the objects in the C variables of the     *)
(* function that allocates, as far as it will use them, are ones that         *)
(* gc_mark_roots and what it traces find.                                   *)
THEOREM SpecHandsAreRooted ==
    ASSUME ~StringsGrow
    PROVE  Spec => []HandsAreRooted
<1>1. MutatorInv => HandsAreRooted
  BY HandsRooted DEF HandsAreRooted, Running
<1>2. QED BY <1>1, SpecInv, PTL

(* Nothing that the machine, the compilers or a pinned constant lead to was    *)
(* freed by a collection, whichever allocation started it.                  *)
THEOREM SpecNothingDangles ==
    ASSUME ~StringsGrow
    PROVE  Spec => []NothingDangles
<1>1. MutatorInv => NothingDangles
  BY HeapFacts DEF MutatorInv, NothingDangles, Survivors
<1>2. QED BY <1>1, SpecInv, PTL
=============================================================================
