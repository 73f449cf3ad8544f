---------------------------- MODULE ScopeProofs -----------------------------
(***************************************************************************)
(* Scope for every number of locals, upvalues, nested functions and scopes:   *)
(* the arrays stay within their bounds, an upvalue leads to the variable it   *)
(* was made for, what is emitted for a name leads to the variable it was      *)
(* resolved to, and every step is one of Lexical or none.                    *)
(***************************************************************************)
EXTENDS Scope, TLAPS

(* The level that an open block or class has inside.                        *)
Inside(o) == o.outer + (IF o.what = "class" THEN 0 ELSE 1)

(* The slot of the function itself belongs to no scope, and the open blocks     *)
(* and classes count the level.                                            *)
Nested(c) ==
    /\ c.locals[1].level = 0
    /\ \A i \in DOMAIN c.opened :
          Inside(c.opened[i]) = IF i = Len(c.opened) THEN c.level ELSE c.opened[i + 1].outer

Sized(c) ==
    /\ Len(c.locals) \in 1 .. UINT8_MAX + 1
    /\ Len(c.upvalues) <= UINT8_MAX + 1

Formed(c) == c \in Compilers /\ Sized(c) /\ Nested(c)

Shape ==
    /\ TypeOK
    /\ \A n \in DOMAIN functions : Nested(functions[n])
    /\ phase = "initializer" /\ compiler.level > 0 => Len(compiler.locals) > 1
    /\ search.step = "add" => search.index # 0

-----------------------------------------------------------------------------
(* One compiler.                                                           *)

LEMMA Element ==
    ASSUME NEW S, NEW s \in Seq(S), NEW i \in 1 .. Len(s)
    PROVE  s[i] \in S
OBVIOUS

LEMMA Prefix ==
    ASSUME NEW S, NEW s \in Seq(S), NEW n \in 0 .. Len(s)
    PROVE  /\ SubSeq(s, 1, n) \in Seq(S)
           /\ Len(SubSeq(s, 1, n)) = n
           /\ DOMAIN SubSeq(s, 1, n) = 1 .. n
           /\ \A i \in 1 .. n : SubSeq(s, 1, n)[i] = s[i]
OBVIOUS

LEMMA Longer ==
    ASSUME NEW S, NEW s \in Seq(S), NEW e \in S
    PROVE  /\ Append(s, e) \in Seq(S)
           /\ Len(Append(s, e)) = Len(s) + 1
           /\ DOMAIN Append(s, e) = 1 .. Len(s) + 1
           /\ Append(s, e)[Len(s) + 1] = e
           /\ \A i \in 1 .. Len(s) : Append(s, e)[i] = s[i]
OBVIOUS

LEMMA Replaced ==
    ASSUME NEW S, NEW s \in Seq(S), NEW n \in 1 .. Len(s), NEW e \in S
    PROVE  /\ [s EXCEPT ![n] = e] \in Seq(S)
           /\ Len([s EXCEPT ![n] = e]) = Len(s)
           /\ DOMAIN [s EXCEPT ![n] = e] = DOMAIN s
           /\ [s EXCEPT ![n] = e][n] = e
           /\ \A i \in 1 .. Len(s) : i # n => [s EXCEPT ![n] = e][i] = s[i]
OBVIOUS

LEMMA CompilerFields ==
    ASSUME NEW c \in Compilers
    PROVE  /\ c.type \in {"script", "function", "method"}
           /\ c.level \in Nat
           /\ c.opened \in Seq(Constructs)
           /\ c.upvalues \in Seq(Upvalues)
           /\ c.locals \in Seq(Locals)
           /\ Len(c.opened) \in Nat /\ DOMAIN c.opened = 1 .. Len(c.opened)
           /\ Len(c.upvalues) \in Nat /\ DOMAIN c.upvalues = 1 .. Len(c.upvalues)
           /\ Len(c.locals) \in Nat /\ DOMAIN c.locals = 1 .. Len(c.locals)
BY DEF Compilers

LEMMA AddLocalForms ==
    ASSUME NEW c, Formed(c), NEW name \in Identifiers \cup {"super"}
    PROVE  /\ Formed(add_local(c, name))
           /\ add_local(c, name).level = c.level
           /\ add_local(c, name).upvalues = c.upvalues
           /\ add_local(c, name).opened = c.opened
           /\ Len(add_local(c, name).locals) > 1
<1> DEFINE d == add_local(c, name)
<1>1. c \in Compilers /\ UINT8_MAX \in Nat \ {0}
  BY ScopeAssumption DEF Formed
<1>2. CASE Full(c)
  <2>1. d = c
    BY <1>2 DEF add_local
  <2>2. Len(c.locals) > UINT8_MAX /\ Len(c.locals) \in Nat
    BY <1>1, <1>2, CompilerFields DEF Full
  <2>3. Len(c.locals) > 1
    BY <1>1, <2>2
  <2>4. QED BY <2>1, <2>3
<1>3. CASE ~Full(c)
  <2>1. Local(name, Uninitialized) \in Locals
    BY DEF Local, Locals, Levels, Uninitialized
  <2>2. c.locals \in Seq(Locals) /\ Len(c.locals) \in Nat
    BY <1>1, CompilerFields
  <2>3. d = [c EXCEPT !.locals = Append(c.locals, Local(name, Uninitialized))]
    BY <1>3 DEF add_local
  <2>4. /\ d.locals = Append(c.locals, Local(name, Uninitialized))
        /\ d.level = c.level /\ d.upvalues = c.upvalues /\ d.opened = c.opened
    BY <1>1, <2>3 DEF Compilers
  <2>5. /\ d.locals \in Seq(Locals)
        /\ Len(d.locals) = Len(c.locals) + 1
        /\ \A i \in 1 .. Len(c.locals) : d.locals[i] = c.locals[i]
    BY <2>1, <2>2, <2>4, Longer
  <2>6. d \in Compilers
    BY <1>1, <2>3, <2>4, <2>5 DEF Compilers
  <2>7. Len(c.locals) \in 1 .. UINT8_MAX + 1 /\ ~(Len(c.locals) > UINT8_MAX)
    BY <1>3 DEF Formed, Sized, Full
  <2>8. Sized(d) /\ Len(d.locals) > 1
    <3>1. Len(c.upvalues) <= UINT8_MAX + 1
      BY DEF Formed, Sized
    <3>2. QED BY <1>1, <2>4, <2>5, <2>7, <3>1 DEF Sized
  <2>9. Nested(d)
    <3>1. d.locals[1] = c.locals[1]
      BY <2>5, <2>7
    <3>2. QED BY <2>4, <3>1 DEF Formed, Nested
  <2>10. QED BY <2>4, <2>6, <2>8, <2>9 DEF Formed
<1>4. QED BY <1>2, <1>3

LEMMA MarkForms ==
    ASSUME NEW c, Formed(c), c.level > 0 => Len(c.locals) > 1
    PROVE  /\ Formed(mark_initialized(c))
           /\ mark_initialized(c).level = c.level
           /\ mark_initialized(c).upvalues = c.upvalues
           /\ mark_initialized(c).opened = c.opened
<1> DEFINE d == mark_initialized(c)
           last == Len(c.locals)
<1>1. c \in Compilers
  BY DEF Formed
<1>2. CASE c.level = 0
  BY <1>2 DEF mark_initialized
<1>3. CASE c.level # 0
  <2>1. /\ c.level \in Nat /\ c.level > 0
        /\ last \in Nat /\ last > 1 /\ c.locals \in Seq(Locals) /\ c.locals[last] \in Locals
    BY <1>1, <1>3, CompilerFields
  <2>2. d = [c EXCEPT !.locals = [c.locals EXCEPT ![last] = [c.locals[last] EXCEPT !.level = c.level]]]
    BY <1>1, <1>3, <2>1 DEF mark_initialized, Compilers
  <2>3. [c.locals[last] EXCEPT !.level = c.level] \in Locals
    BY <2>1 DEF Locals, Levels
  <2>4. /\ d.locals = [c.locals EXCEPT ![last] = [c.locals[last] EXCEPT !.level = c.level]]
        /\ d.level = c.level /\ d.upvalues = c.upvalues /\ d.opened = c.opened
    BY <1>1, <2>2 DEF Compilers
  <2>5. /\ d.locals \in Seq(Locals) /\ Len(d.locals) = last
        /\ \A i \in 1 .. last : i # last => d.locals[i] = c.locals[i]
    BY <2>1, <2>3, <2>4, Replaced
  <2>6. d \in Compilers
    BY <1>1, <2>2, <2>5, <2>4 DEF Compilers
  <2>7. Sized(d)
    BY <2>4, <2>5 DEF Formed, Sized
  <2>8. Nested(d)
    <3>1. d.locals[1] = c.locals[1]
      BY <2>1, <2>5
    <3>2. QED BY <2>4, <3>1 DEF Formed, Nested
  <2>9. QED BY <2>4, <2>6, <2>7, <2>8 DEF Formed
<1>4. QED BY <1>2, <1>3

LEMMA OpeningForms ==
    ASSUME NEW c, Formed(c),
           NEW what \in {"block", "class", "subclass"},
           NEW levels, levels = IF what = "class" THEN 0 ELSE 1
    PROVE  /\ Formed(Opening(c, what, levels))
           /\ Opening(c, what, levels).upvalues = c.upvalues
           /\ Opening(c, what, levels).locals = c.locals
<1> DEFINE d == Opening(c, what, levels)
           o == Opened(what, c.level)
<1>1. c \in Compilers /\ c.level \in Nat /\ levels \in Nat
  BY CompilerFields DEF Formed
<1>2. o \in Constructs
  BY <1>1 DEF Opened, Constructs
<1>3. c.opened \in Seq(Constructs) /\ Len(c.opened) \in Nat
  BY <1>1, CompilerFields
<1>4. /\ d.opened = Append(c.opened, o) /\ d.level = c.level + levels
      /\ d.upvalues = c.upvalues /\ d.locals = c.locals /\ d.type = c.type
  BY <1>1 DEF Opening, Compilers
<1>5. /\ d.opened \in Seq(Constructs)
      /\ Len(d.opened) = Len(c.opened) + 1
      /\ DOMAIN d.opened = 1 .. Len(c.opened) + 1
      /\ d.opened[Len(c.opened) + 1] = o
      /\ \A i \in 1 .. Len(c.opened) : d.opened[i] = c.opened[i]
  <2> HIDE DEF d, o
  <2>1. QED BY <1>2, <1>3, <1>4, Longer
<1>6. d \in Compilers
  <2>1. d.level \in Nat
    BY <1>1, <1>4
  <2>2. d = [c EXCEPT !.opened = d.opened, !.level = d.level]
    BY <1>1, <1>4 DEF Opening, Compilers
  <2>3. QED BY <1>1, <1>5, <2>1, <2>2 DEF Compilers
<1>7. Sized(d)
  BY <1>4 DEF Formed, Sized
<1>8. Nested(d)
  <2>1. d.locals[1].level = 0
    BY <1>4 DEF Formed, Nested
  <2>2. ASSUME NEW i \in DOMAIN d.opened
        PROVE  Inside(d.opened[i]) =
                  IF i = Len(d.opened) THEN d.level ELSE d.opened[i + 1].outer
    <3>1. CASE i = Len(c.opened) + 1
      BY <1>1, <1>3, <1>4, <1>5, <3>1 DEF Inside, Opened
    <3>2. CASE i \in 1 .. Len(c.opened)
      <4>1. Inside(c.opened[i]) = IF i = Len(c.opened) THEN c.level ELSE c.opened[i + 1].outer
        BY <1>1, <3>2, CompilerFields DEF Formed, Nested
      <4>2. CASE i = Len(c.opened)
        BY <1>3, <1>5, <3>2, <4>1, <4>2 DEF Opened
      <4>3. CASE i # Len(c.opened)
        <5>1. i + 1 \in 1 .. Len(c.opened) /\ i # Len(d.opened)
          BY <1>3, <1>5, <3>2, <4>3
        <5>2. d.opened[i] = c.opened[i] /\ d.opened[i + 1] = c.opened[i + 1]
          BY <1>5, <3>2, <5>1
        <5>3. QED BY <4>1, <4>3, <5>1, <5>2
      <4>4. QED BY <4>2, <4>3
    <3>3. QED BY <1>3, <1>5, <3>1, <3>2
  <2>3. QED BY <2>1, <2>2 DEF Nested
<1>9. QED BY <1>4, <1>6, <1>7, <1>8 DEF Formed

LEMMA ClosingForms ==
    ASSUME NEW c, Formed(c), c.opened # <<>>,
           NEW l, NEW k \in 0 .. Len(c.locals),
           l = c.opened[Len(c.opened)].outer,
           l = c.level => k = Len(c.locals),
           l # c.level => /\ k # 0 => c.locals[k].level <= l
                          /\ \A i \in k + 1 .. Len(c.locals) : c.locals[i].level > l
    PROVE  /\ Formed(Leaving(Closing(c), l, k))
           /\ Leaving(Closing(c), l, k).upvalues = c.upvalues
           /\ Leaving(Closing(c), l, k).locals = SubSeq(c.locals, 1, k)
           /\ Leaving(Closing(c), l, k).level = l
<1> DEFINE n == Len(c.opened)
           d == Leaving(Closing(c), l, k)
<1>1. /\ c \in Compilers /\ c.opened \in Seq(Constructs) /\ c.locals \in Seq(Locals)
      /\ n \in Nat /\ DOMAIN c.opened = 1 .. n /\ Len(c.locals) \in Nat
      /\ DOMAIN c.locals = 1 .. Len(c.locals)
  BY CompilerFields DEF Formed
<1>2. n >= 1
  BY <1>1
<1>3. c.opened[n] \in Constructs
  BY <1>1, <1>2, Element
<1>4. l \in Nat
  BY <1>3 DEF Constructs
<1>5. /\ d.opened = SubSeq(c.opened, 1, n - 1) /\ d.level = l
      /\ d.locals = SubSeq(c.locals, 1, k) /\ d.upvalues = c.upvalues /\ d.type = c.type
  BY <1>1 DEF Leaving, Closing, Compilers
<1>6. /\ d.opened \in Seq(Constructs) /\ Len(d.opened) = n - 1 /\ DOMAIN d.opened = 1 .. n - 1
      /\ \A i \in 1 .. n - 1 : d.opened[i] = c.opened[i]
  <2>1. n - 1 \in 0 .. n
    BY <1>1, <1>2
  <2> HIDE DEF d, n
  <2>2. n = Len(c.opened)
    BY DEF n
  <2>3. QED BY <1>1, <1>5, <2>1, <2>2, Prefix
<1>7. /\ d.locals \in Seq(Locals) /\ Len(d.locals) = k
      /\ \A i \in 1 .. k : d.locals[i] = c.locals[i]
  <2> HIDE DEF d
  <2>1. QED BY <1>1, <1>5, Prefix
<1>8. k >= 1
  <2>1. CASE l = c.level
    BY <2>1 DEF Formed, Sized
  <2>2. CASE l # c.level
    <3>1. 1 \in 1 .. Len(c.locals) /\ c.locals[1].level = 0
      BY DEF Formed, Sized, Nested
    <3>2. k = 0 => c.locals[1].level > l
      BY <1>1, <2>2, <3>1
    <3>3. QED BY <1>4, <3>1, <3>2
  <2>3. QED BY <2>1, <2>2
<1>9. d \in Compilers
  <2>1. d = [c EXCEPT !.opened = d.opened, !.level = d.level, !.locals = d.locals]
    BY <1>1, <1>5 DEF Leaving, Closing, Compilers
  <2>2. QED BY <1>1, <1>4, <1>5, <1>6, <1>7, <2>1 DEF Compilers
<1>10. Sized(d)
  <2> HIDE DEF d, n
  <2>1. Len(c.locals) <= UINT8_MAX + 1 /\ Len(c.upvalues) <= UINT8_MAX + 1 /\ UINT8_MAX \in Nat
    <3>1. UINT8_MAX \in Nat
      BY ScopeAssumption
    <3>2. Sized(c)
      BY DEF Formed
    <3>3. QED BY <3>1, <3>2 DEF Sized
  <2>2. QED BY <1>1, <1>5, <1>7, <1>8, <2>1 DEF Sized
<1>11. Nested(d)
  <2>1. d.locals[1].level = 0
    BY <1>7, <1>8 DEF Formed, Nested
  <2>2. ASSUME NEW i \in DOMAIN d.opened
        PROVE  Inside(d.opened[i]) =
                  IF i = Len(d.opened) THEN d.level ELSE d.opened[i + 1].outer
    <3>1. i \in 1 .. n - 1 /\ i # n /\ i \in DOMAIN c.opened
      BY <1>1, <1>6, <2>2
    <3>2. Inside(c.opened[i]) = c.opened[i + 1].outer
      BY <3>1 DEF Formed, Nested
    <3>3. d.opened[i] = c.opened[i]
      BY <1>6, <3>1
    <3>4. CASE i = n - 1
      BY <1>1, <1>5, <1>6, <3>1, <3>2, <3>3, <3>4
    <3>5. CASE i # n - 1
      <4>1. i + 1 \in 1 .. n - 1
        <5> HIDE DEF n
        <5>1. QED BY <1>1, <3>1, <3>5
      <4>2. d.opened[i + 1] = c.opened[i + 1]
        BY <1>6, <4>1
      <4>3. QED BY <1>6, <3>2, <3>3, <3>5, <4>2
    <3>6. QED BY <3>4, <3>5
  <2>3. QED BY <2>1, <2>2 DEF Nested
<1>12. QED BY <1>5, <1>9, <1>10, <1>11 DEF Formed

LEMMA CapturedForms ==
    ASSUME NEW c, Formed(c), NEW i \in DOMAIN c.locals
    PROVE  /\ Formed(Captured(c, i))
           /\ Captured(c, i).level = c.level
           /\ Captured(c, i).upvalues = c.upvalues
           /\ Len(Captured(c, i).locals) = Len(c.locals)
           /\ DOMAIN Captured(c, i).locals = DOMAIN c.locals
           /\ Captured(c, i).locals = [c.locals EXCEPT ![i] = [c.locals[i] EXCEPT !.captured = TRUE]]
<1> DEFINE d == Captured(c, i)
           local == [c.locals[i] EXCEPT !.captured = TRUE]
<1>1. /\ c \in Compilers /\ c.locals \in Seq(Locals) /\ DOMAIN c.locals = 1 .. Len(c.locals)
      /\ Len(c.locals) \in Nat
  BY CompilerFields DEF Formed
<1>2. c.locals[i] \in Locals
  BY <1>1, Element
<1>3. local \in Locals /\ local.level = c.locals[i].level
  BY <1>2 DEF Locals
<1>4. /\ d.locals = [c.locals EXCEPT ![i] = local] /\ d.level = c.level
      /\ d.upvalues = c.upvalues /\ d.opened = c.opened
  BY <1>1, <1>2 DEF Captured, Compilers
<1>5. /\ d.locals \in Seq(Locals) /\ Len(d.locals) = Len(c.locals)
      /\ DOMAIN d.locals = DOMAIN c.locals /\ d.locals[i] = local
      /\ \A j \in 1 .. Len(c.locals) : j # i => d.locals[j] = c.locals[j]
  <2> HIDE DEF d, local
  <2>1. QED BY <1>1, <1>3, <1>4, Replaced
<1>6. d \in Compilers
  <2>1. d = [c EXCEPT !.locals = d.locals]
    BY <1>1, <1>2, <1>4 DEF Captured, Compilers
  <2>2. QED BY <1>1, <1>5, <2>1 DEF Compilers
<1>7. Sized(d)
  BY <1>4, <1>5 DEF Formed, Sized
<1>8. d.locals[1].level = c.locals[1].level
  <2>1. 1 \in 1 .. Len(c.locals)
    BY <1>1 DEF Formed, Sized
  <2>2. CASE i = 1
    BY <1>3, <1>5, <2>2
  <2>3. CASE i # 1
    BY <1>5, <2>1, <2>3
  <2>4. QED BY <2>2, <2>3
<1>9. Nested(d)
  BY <1>4, <1>8 DEF Formed, Nested
<1>10. QED BY <1>4, <1>5, <1>6, <1>7, <1>9 DEF Formed

LEMMA WithUpvalueForms ==
    ASSUME NEW c, Formed(c), NEW u \in Upvalues, ~(Len(c.upvalues) > UINT8_MAX)
    PROVE  /\ Formed(WithUpvalue(c, u))
           /\ WithUpvalue(c, u).level = c.level
           /\ WithUpvalue(c, u).locals = c.locals
           /\ WithUpvalue(c, u).upvalues = Append(c.upvalues, u)
<1> DEFINE d == WithUpvalue(c, u)
<1>1. c \in Compilers /\ c.upvalues \in Seq(Upvalues) /\ Len(c.upvalues) \in Nat
      /\ UINT8_MAX \in Nat
  BY CompilerFields, ScopeAssumption DEF Formed
<1>2. /\ d.upvalues = Append(c.upvalues, u) /\ d.level = c.level
      /\ d.locals = c.locals /\ d.opened = c.opened
  BY <1>1 DEF WithUpvalue, Compilers
<1>3. d.upvalues \in Seq(Upvalues) /\ Len(d.upvalues) = Len(c.upvalues) + 1
  <2> HIDE DEF d
  <2>1. QED BY <1>1, <1>2, Longer
<1>4. d \in Compilers
  <2>1. d = [c EXCEPT !.upvalues = d.upvalues]
    BY <1>1, <1>2 DEF WithUpvalue, Compilers
  <2>2. QED BY <1>1, <1>3, <2>1 DEF Compilers
<1>5. Sized(d)
  BY <1>1, <1>2, <1>3 DEF Formed, Sized
<1>6. Nested(d)
  BY <1>2 DEF Formed, Nested
<1>7. QED BY <1>2, <1>4, <1>5, <1>6 DEF Formed

LEMMA NewForms ==
    ASSUME NEW type \in {"script", "function", "method"}, NEW level \in Nat
    PROVE  /\ Formed(NewCompiler(type, level))
           /\ NewCompiler(type, level).upvalues = <<>>
           /\ Len(NewCompiler(type, level).locals) = 1
<1> DEFINE d == NewCompiler(type, level)
           local == Local(IF type = "function" THEN "" ELSE "this", 0)
<1>1. local \in Locals
  BY DEF Local, Locals, Levels
<1>2. /\ d.type = type /\ d.level = level /\ d.opened = <<>> /\ d.upvalues = <<>>
      /\ d.locals = <<local>>
  BY DEF NewCompiler
<1>3. <<local>> \in Seq(Locals) /\ Len(<<local>>) = 1 /\ <<local>>[1] = local
  <2> HIDE DEF local
  <2>1. QED BY <1>1
<1>4. d \in Compilers
  <2>1. <<>> \in Seq(Constructs) /\ <<>> \in Seq(Upvalues)
    OBVIOUS
  <2>2. d = [type |-> type, level |-> level, opened |-> <<>>, upvalues |-> <<>>,
             locals |-> <<local>>]
    BY DEF NewCompiler
  <2> HIDE DEF d, local
  <2>3. QED BY <1>3, <2>1, <2>2 DEF Compilers
<1>5. Sized(d)
  <2>1. Len(<<>>) = 0
    OBVIOUS
  <2> HIDE DEF d, local
  <2>2. UINT8_MAX \in Nat
    BY ScopeAssumption
  <2>3. Len(d.locals) = 1 /\ Len(d.upvalues) = 0
    BY <1>2, <1>3, <2>1
  <2>4. QED BY <2>2, <2>3 DEF Sized
<1>6. Nested(d)
  <2>1. local.level = 0
    BY DEF Local
  <2>2. DOMAIN <<>> = {}
    OBVIOUS
  <2> HIDE DEF d, local
  <2>3. d.locals[1] = local /\ DOMAIN d.opened = {}
    BY <1>2, <1>3, <2>2
  <2>4. QED BY <2>1, <2>3 DEF Nested
<1>7. QED BY <1>2, <1>3, <1>4, <1>5, <1>6 DEF Formed

-----------------------------------------------------------------------------
(* The compilers in use.                                                   *)

AllFormed ==
    /\ functions \in Seq(Compilers)
    /\ functions # <<>>
    /\ \A n \in DOMAIN functions : Formed(functions[n])

(* Types of the variables that are not the compilers.                       *)
Rest ==
    /\ phase \in {"statement", "initializer", "parameters", "function", "class name",
                  "superclass", "class", "class body"}
    /\ search \in Steps \cup {Idle}
    /\ search # Idle => search.at \in DOMAIN functions
    /\ targets \in Seq(Steps)
    /\ error \in {"", "redeclared", "own initializer", "limit"}
    /\ phase = "initializer" /\ compiler.level > 0 => Len(compiler.locals) > 1
    /\ search.step = "add" => search.index # 0

LEMMA ShapeParts == Shape <=> AllFormed /\ Rest
<1>1. Shape => AllFormed /\ Rest
  <2> SUFFICES ASSUME Shape PROVE AllFormed /\ Rest
    OBVIOUS
  <2>1. Rest
    BY DEF Shape, TypeOK, Rest
  <2>2. ASSUME NEW n \in DOMAIN functions PROVE Formed(functions[n])
    <3>1. functions[n] \in Compilers
      <4>1. functions \in Seq(Compilers)
        BY DEF Shape, TypeOK
      <4>2. n \in 1 .. Len(functions)
        BY <2>2, <4>1
      <4>3. QED BY <4>1, <4>2, Element
    <3>2. Nested(functions[n])
      BY <2>2 DEF Shape
    <3>3. Sized(functions[n])
      BY <2>2 DEF Shape, TypeOK, Sized
    <3>4. QED BY <3>1, <3>2, <3>3 DEF Formed
  <2>3. QED BY <2>1, <2>2 DEF Shape, TypeOK, AllFormed
<1>2. AllFormed /\ Rest => Shape
  BY DEF Shape, TypeOK, AllFormed, Rest, Formed, Sized
<1>3. QED BY <1>1, <1>2

LEMMA TopFacts ==
    ASSUME AllFormed
    PROVE  /\ F \in Nat /\ F >= 1 /\ DOMAIN functions = 1 .. F /\ F \in DOMAIN functions
           /\ Formed(compiler)
<1>1. functions \in Seq(Compilers) /\ functions # <<>>
  BY DEF AllFormed
<1>2. F \in Nat /\ F >= 1 /\ DOMAIN functions = 1 .. F
  BY <1>1 DEF F
<1>3. QED BY <1>2 DEF AllFormed, compiler

LEMMA UpdateForms ==
    ASSUME AllFormed, NEW n \in DOMAIN functions, NEW c, Formed(c),
           functions' = [functions EXCEPT ![n] = c]
    PROVE  /\ AllFormed'
           /\ F' = F
           /\ DOMAIN functions' = DOMAIN functions
           /\ functions'[n] = c
           /\ \A m \in DOMAIN functions : m # n => functions'[m] = functions[m]
<1>1. functions \in Seq(Compilers) /\ c \in Compilers /\ n \in 1 .. Len(functions)
  BY TopFacts DEF AllFormed, Formed, F
<1>2. /\ functions' \in Seq(Compilers)
      /\ Len(functions') = Len(functions)
      /\ DOMAIN functions' = DOMAIN functions
      /\ functions'[n] = c
      /\ \A m \in 1 .. Len(functions) : m # n => functions'[m] = functions[m]
  BY <1>1, Replaced
<1>3. DOMAIN functions = 1 .. Len(functions)
  BY <1>1
<1>4. functions' # <<>>
  BY <1>1, <1>2
<1>5. ASSUME NEW m \in DOMAIN functions' PROVE Formed(functions'[m])
  <2>1. CASE m = n
    BY <1>2, <2>1
  <2>2. CASE m # n
    BY <1>2, <1>3, <2>2 DEF AllFormed
  <2>3. QED BY <2>1, <2>2
<1>6. AllFormed'
  <2>1. \A m \in DOMAIN functions' : Formed(functions'[m])
    BY <1>5
  <2>2. QED BY <1>2, <1>4, <2>1 DEF AllFormed, Formed, Sized, Nested
<1>7. QED BY <1>2, <1>3, <1>6 DEF F

LEMMA PushForms ==
    ASSUME AllFormed, NEW c, Formed(c), functions' = Append(functions, c)
    PROVE  /\ AllFormed'
           /\ F' = F + 1
           /\ DOMAIN functions' = 1 .. F + 1
           /\ functions'[F + 1] = c
           /\ \A m \in DOMAIN functions : functions'[m] = functions[m]
<1>1. functions \in Seq(Compilers) /\ c \in Compilers
  BY DEF AllFormed, Formed
<1>2. /\ functions' \in Seq(Compilers)
      /\ Len(functions') = Len(functions) + 1
      /\ DOMAIN functions' = 1 .. Len(functions) + 1
      /\ functions'[Len(functions) + 1] = c
      /\ \A m \in 1 .. Len(functions) : functions'[m] = functions[m]
  BY <1>1, Longer
<1>3. DOMAIN functions = 1 .. Len(functions) /\ Len(functions) \in Nat
  BY <1>1
<1>4. functions' # <<>>
  BY <1>1, <1>2, <1>3
<1>5. ASSUME NEW m \in DOMAIN functions' PROVE Formed(functions'[m])
  <2>1. CASE m = Len(functions) + 1
    BY <1>2, <2>1
  <2>2. CASE m \in 1 .. Len(functions)
    BY <1>2, <1>3, <2>2 DEF AllFormed
  <2>3. QED BY <1>2, <1>3, <2>1, <2>2
<1>6. AllFormed'
  <2>1. \A m \in DOMAIN functions' : Formed(functions'[m])
    BY <1>5
  <2>2. QED BY <1>2, <1>4, <2>1 DEF AllFormed, Formed, Sized, Nested
<1>7. QED BY <1>2, <1>3, <1>6 DEF F

LEMMA PopForms ==
    ASSUME AllFormed, F > 1, functions' = SubSeq(functions, 1, F - 1)
    PROVE  /\ AllFormed'
           /\ F' = F - 1
           /\ DOMAIN functions' = 1 .. F - 1
           /\ \A m \in 1 .. F - 1 : functions'[m] = functions[m]
<1>1. functions \in Seq(Compilers) /\ F \in Nat /\ F = Len(functions) /\ DOMAIN functions = 1 .. F
  BY DEF AllFormed, F
<1>2. F - 1 \in 0 .. Len(functions)
  BY <1>1
<1>3. /\ functions' \in Seq(Compilers)
      /\ Len(functions') = F - 1
      /\ DOMAIN functions' = 1 .. F - 1
      /\ \A m \in 1 .. F - 1 : functions'[m] = functions[m]
  <2> HIDE DEF F
  <2>1. QED BY <1>1, <1>2, Prefix
<1>4. functions' # <<>>
  <2> HIDE DEF F
  <2>1. Len(functions') # 0
    BY <1>1, <1>3
  <2>2. Len(<<>>) = 0
    OBVIOUS
  <2>3. QED BY <2>1, <2>2
<1>5. ASSUME NEW m \in DOMAIN functions' PROVE Formed(functions'[m])
  BY <1>1, <1>3 DEF AllFormed
<1>6. AllFormed'
  <2>1. \A m \in DOMAIN functions' : Formed(functions'[m])
    BY <1>5
  <2>2. QED BY <1>3, <1>4, <2>1 DEF AllFormed, Formed, Sized, Nested
<1>7. QED BY <1>3, <1>6 DEF F

-----------------------------------------------------------------------------
(* Every step keeps the shape.                                             *)

LEMMA ReportTypes ==
    ASSUME error \in {"", "redeclared", "own initializer", "limit"},
           NEW message \in {"", "redeclared", "own initializer", "limit"},
           Report(message)
    PROVE  error' \in {"", "redeclared", "own initializer", "limit"}
BY DEF Report

LEMMA DeclareErrorTypes ==
    ASSUME NEW c, NEW name
    PROVE  DeclareError(c, name) \in {"", "redeclared", "own initializer", "limit"}
BY DEF DeclareError

LEMMA DeclareForms ==
    ASSUME NEW c, Formed(c), NEW name \in Identifiers
    PROVE  /\ Formed(declare_variable(c, name))
           /\ declare_variable(c, name).level = c.level
           /\ declare_variable(c, name).upvalues = c.upvalues
           /\ declare_variable(c, name).opened = c.opened
           /\ c.level > 0 => Len(declare_variable(c, name).locals) > 1
           /\ declare_variable(c, name).level > 0 => Len(declare_variable(c, name).locals) > 1
<1>1. CASE c.level = 0
  BY <1>1, CompilerFields DEF declare_variable, Formed
<1>2. CASE c.level # 0
  BY <1>2, AddLocalForms DEF declare_variable
<1>3. QED BY <1>1, <1>2

LEMMA InitShape == Init => Shape
<1> SUFFICES ASSUME Init PROVE Shape
  OBVIOUS
<1> DEFINE c == NewCompiler("script", 0)
<1>1. Formed(c) /\ c.level = 0
  BY NewForms DEF NewCompiler
<1>2. functions = <<c>>
  BY DEF Init
<1>3. AllFormed
  <2>1. c \in Compilers
    BY <1>1 DEF Formed
  <2> HIDE DEF c
  <2>2. QED BY <1>1, <1>2, <2>1 DEF AllFormed
<1>4. Rest
  <2>1. <<>> \in Seq(Steps)
    OBVIOUS
  <2>2. Idle.step # "add"
    BY DEF Idle
  <2>3. QED BY <1>1, <1>2, <2>1, <2>2 DEF Rest, Init, compiler, F
<1>5. QED BY <1>3, <1>4, ShapeParts

(* The arrays, in every step.                                              *)
LEMMA ShapeStep ==
    ASSUME Shape, Next
    PROVE  Shape'
<1>0. AllFormed /\ Rest
  BY ShapeParts
<1>1. /\ F \in Nat /\ F >= 1 /\ DOMAIN functions = 1 .. F /\ F \in DOMAIN functions
      /\ Formed(compiler) /\ compiler = functions[F]
  BY <1>0, TopFacts DEF compiler
<1> SUFFICES AllFormed' /\ Rest'
  BY ShapeParts DEF Shape, TypeOK, Nested, AllFormed, Formed, Sized, Rest
<1>2. ASSUME NEW name \in Identifiers, VarDeclaration(name) PROVE AllFormed' /\ Rest'
  <2> DEFINE c == declare_variable(compiler, name)
  <2>1. Formed(c) /\ (c.level > 0 => Len(c.locals) > 1)
    BY <1>1, DeclareForms
  <2>2. functions' = [functions EXCEPT ![F] = c]
    BY <1>1, <1>2 DEF VarDeclaration
  <2> HIDE DEF c
  <2>3. AllFormed' /\ F' = F /\ DOMAIN functions' = DOMAIN functions /\ functions'[F] = c
    BY <1>0, <1>1, <2>1, <2>2, UpdateForms
  <2>4. compiler' = c
    BY <2>3 DEF compiler
  <2>5. error' \in {"", "redeclared", "own initializer", "limit"}
    BY <1>0, <1>2, ReportTypes, DeclareErrorTypes DEF VarDeclaration, Rest
  <2>6. QED BY <1>0, <1>2, <2>1, <2>3, <2>4, <2>5 DEF VarDeclaration, Rest
<1>3. ASSUME NEW name \in Identifiers, Declared(name), phase' # "initializer",
             phase' \in {"statement", "parameters", "function", "class name"}
      PROVE AllFormed' /\ Rest'
  <2> DEFINE c == mark_initialized(declare_variable(compiler, name))
  <2>1. Formed(c)
    BY <1>1, DeclareForms, MarkForms
  <2>2. functions' = [functions EXCEPT ![F] = c]
    BY <1>1, <1>3 DEF Declared
  <2> HIDE DEF c
  <2>3. AllFormed' /\ F' = F /\ DOMAIN functions' = DOMAIN functions /\ functions'[F] = c
    BY <1>0, <1>1, <2>1, <2>2, UpdateForms
  <2>5. error' \in {"", "redeclared", "own initializer", "limit"}
    BY <1>0, <1>3, ReportTypes, DeclareErrorTypes DEF Declared, Rest
  <2>6. QED BY <1>0, <1>3, <2>3, <2>5 DEF Declared, Rest
<1>4. ASSUME DefineVariable PROVE AllFormed' /\ Rest'
  <2> DEFINE c == mark_initialized(compiler)
  <2>1. compiler.level > 0 => Len(compiler.locals) > 1
    BY <1>0, <1>4 DEF Rest, DefineVariable, In
  <2>2. Formed(c)
    BY <1>1, <2>1, MarkForms
  <2>3. functions' = [functions EXCEPT ![F] = c]
    BY <1>1, <1>4 DEF DefineVariable
  <2> HIDE DEF c
  <2>4. AllFormed' /\ F' = F /\ DOMAIN functions' = DOMAIN functions
    BY <1>0, <1>1, <2>2, <2>3, UpdateForms
  <2>5. QED BY <1>0, <1>4, <2>4 DEF DefineVariable, Rest
<1>5. ASSUME NEW name \in Identifiers,
             FuncDeclaration(name) \/ Parameter(name) \/ ClassDeclaration(name)
      PROVE  AllFormed' /\ Rest'
  <2>1. /\ Declared(name) /\ phase' # "initializer"
        /\ phase' \in {"statement", "parameters", "function", "class name"}
    BY <1>5 DEF FuncDeclaration, Parameter, ClassDeclaration, In
  <2>2. QED BY <1>3, <2>1
(* Steps that give the innermost function another compiler, and no more.      *)
<1>6. ASSUME NEW c, Formed(c), functions' = [functions EXCEPT ![F] = c],
             phase' \in {"statement", "parameters", "function", "class name",
                         "superclass", "class", "class body"},
             UNCHANGED <<search, targets, error>>
      PROVE  AllFormed' /\ Rest'
  <2>1. AllFormed' /\ F' = F /\ DOMAIN functions' = DOMAIN functions
    BY <1>0, <1>1, <1>6, UpdateForms
  <2>2. QED BY <1>0, <1>6, <2>1 DEF Rest
<1>7. ASSUME NEW what \in {"block", "class", "subclass"},
             NEW levels, levels = IF what = "class" THEN 0 ELSE 1,
             Opens(what, levels)
      PROVE  \E c : Formed(c) /\ functions' = [functions EXCEPT ![F] = c]
  <2>1. Formed(Opening(compiler, what, levels))
    BY <1>1, <1>7, OpeningForms
  <2>2. functions' = [functions EXCEPT ![F] = Opening(compiler, what, levels)]
    BY <1>1, <1>7 DEF Opens
  <2>3. QED BY <2>1, <2>2
<1>8. ASSUME BlockBegin \/ ClassBegin \/ SubclassBegin PROVE AllFormed' /\ Rest'
  <2>1. \E c : Formed(c) /\ functions' = [functions EXCEPT ![F] = c]
    BY <1>7, <1>8 DEF BlockBegin, ClassBegin, SubclassBegin
  <2>2. PICK c : Formed(c) /\ functions' = [functions EXCEPT ![F] = c]
    BY <2>1
  <2>3. /\ phase' \in {"statement", "class", "superclass"}
        /\ UNCHANGED <<search, targets, error>>
    BY <1>8 DEF BlockBegin, ClassBegin, SubclassBegin, In
  <2>4. QED BY <1>6, <2>2, <2>3
<1>9. ASSUME NEW what \in {"block", "subclass"}, Closes(what), scope_exit
      PROVE  \E c : Formed(c) /\ functions' = [functions EXCEPT ![F] = c]
  <2> DEFINE l == compiler.level - 1
  <2>1. PICK k \in 0 .. Len(compiler.locals) :
            /\ k # 0 => compiler.locals[k].level <= l
            /\ \A i \in k + 1 .. Len(compiler.locals) : compiler.locals[i].level > l
            /\ functions' = [functions EXCEPT ![F] = Leaving(Closing(compiler), l, k)]
    BY <1>1, <1>9 DEF scope_exit
  <2>2. /\ compiler.opened # <<>> /\ compiler.opened[Len(compiler.opened)].what # "class"
        /\ compiler \in Compilers /\ Nested(compiler)
    BY <1>1, <1>9 DEF Closes, Formed
  <2>3. l = compiler.opened[Len(compiler.opened)].outer
    <3>1. /\ Len(compiler.opened) \in DOMAIN compiler.opened
          /\ compiler.opened[Len(compiler.opened)] \in Constructs
          /\ compiler.level \in Nat
      BY <2>2, CompilerFields, Element
    <3>2. Inside(compiler.opened[Len(compiler.opened)]) = compiler.level
      BY <2>2, <3>1 DEF Nested
    <3>3. QED BY <2>2, <3>1, <3>2 DEF Inside, Constructs
  <2>4. l # compiler.level
    BY <2>2, CompilerFields
  <2>5. Formed(Leaving(Closing(compiler), l, k))
    <3> HIDE DEF l
    <3>1. QED BY <1>1, <2>1, <2>2, <2>3, <2>4, ClosingForms
  <2>6. QED BY <2>1, <2>5
<1>10. ASSUME BlockEnd PROVE AllFormed' /\ Rest'
  <2>1. PICK c : Formed(c) /\ functions' = [functions EXCEPT ![F] = c]
    BY <1>9, <1>10 DEF BlockEnd
  <2>2. QED BY <1>6, <1>10, <2>1 DEF BlockEnd, In
<1>11. ASSUME ClassEnd PROVE AllFormed' /\ Rest'
  <2>1. CASE Closes("subclass") /\ scope_exit
    <3>1. PICK c : Formed(c) /\ functions' = [functions EXCEPT ![F] = c]
      BY <1>9, <2>1
    <3>2. QED BY <1>6, <1>11, <3>1 DEF ClassEnd
  <2>2. CASE Closes("class") /\ functions' = [functions EXCEPT ![F] = Closing(@)]
    <3> DEFINE c == Closing(compiler)
               k == Len(compiler.locals)
    <3>1. compiler \in Compilers /\ compiler.opened # <<>>
      BY <1>1, <2>2 DEF Formed, Closes
    <3>2. c = Leaving(Closing(compiler), compiler.level, k)
      <4>1. SubSeq(compiler.locals, 1, k) = compiler.locals
        <5>1. compiler.locals \in Seq(Locals)
          BY <3>1, CompilerFields
        <5>2. QED BY <5>1
      <4>2. c \in [type : {"script", "function", "method"}, level : Nat, opened : {c.opened},
                   upvalues : Seq(Upvalues), locals : Seq(Locals)]
        BY <3>1 DEF Closing, Compilers
      <4>3. c.level = compiler.level /\ c.locals = compiler.locals
        BY <3>1 DEF Closing, Compilers
      <4>4. c = [c EXCEPT !.level = c.level, !.locals = c.locals]
        <5> HIDE DEF c
        <5>1. QED BY <4>2
      <4>5. QED BY <4>1, <4>3, <4>4 DEF Leaving
    <3>3. compiler.level = compiler.opened[Len(compiler.opened)].outer
      <4>1. /\ Len(compiler.opened) \in DOMAIN compiler.opened
            /\ compiler.opened[Len(compiler.opened)] \in Constructs
            /\ compiler.level \in Nat
        BY <3>1, CompilerFields, Element
      <4>2. Inside(compiler.opened[Len(compiler.opened)]) = compiler.level
        BY <1>1, <4>1 DEF Nested, Formed
      <4>3. compiler.opened[Len(compiler.opened)].what = "class"
        BY <2>2 DEF Closes
      <4>4. QED BY <4>1, <4>2, <4>3 DEF Inside, Constructs
    <3>4. k \in 0 .. Len(compiler.locals)
      BY <3>1, CompilerFields
    <3>5. Formed(c)
      BY <1>1, <3>1, <3>2, <3>3, <3>4, ClosingForms
    <3>6. functions' = [functions EXCEPT ![F] = c]
      BY <1>1, <2>2
    <3> HIDE DEF c
    <3>7. QED BY <1>6, <1>11, <3>5, <3>6 DEF ClassEnd
  <2>3. QED BY <1>11, <2>1, <2>2 DEF ClassEnd
<1>12. ASSUME FunctionBegin \/ MethodBegin PROVE AllFormed' /\ Rest'
  <2>1. PICK type \in {"function", "method"} : Begin(type)
    BY <1>12 DEF FunctionBegin, MethodBegin
  <2> DEFINE c == NewCompiler(type, 1)
  <2>2. Formed(c)
    BY NewForms
  <2>3. functions' = Append(functions, c)
    BY <2>1 DEF Begin
  <2> HIDE DEF c
  <2>4. AllFormed' /\ DOMAIN functions' = 1 .. F + 1
    BY <1>0, <2>2, <2>3, PushForms
  <2>5. search' = search /\ targets' = targets /\ error' = error /\ phase' = "parameters"
    BY <2>1 DEF Begin
  <2>6. search' # Idle => search'.at \in DOMAIN functions'
    <3>1. DOMAIN functions \subseteq DOMAIN functions'
      BY <1>1, <2>4
    <3>2. search # Idle => search.at \in DOMAIN functions
      BY <1>0 DEF Rest
    <3>3. QED BY <2>5, <3>1, <3>2
  <2>7. QED BY <1>0, <2>4, <2>5, <2>6 DEF Rest
<1>13. ASSUME BodyBegin PROVE AllFormed' /\ Rest'
  BY <1>0, <1>13 DEF BodyBegin, AllFormed, Formed, Sized, Nested, Rest
<1>14. ASSUME End PROVE AllFormed' /\ Rest'
  <2>1. /\ F > 1 /\ functions' = SubSeq(functions, 1, F - 1)
        /\ phase' \in {"statement", "class body"} /\ search = Idle
        /\ search' = search /\ targets' = targets /\ error' = error
    BY <1>14 DEF End, In
  <2>2. AllFormed'
    BY <1>0, <2>1, PopForms
  <2>3. QED BY <1>0, <2>1, <2>2 DEF Rest
<1>15. ASSUME Superclass PROVE AllFormed' /\ Rest'
  <2> DEFINE c == mark_initialized(add_local(compiler, "super"))
  <2>1. Formed(c)
    BY <1>1, AddLocalForms, MarkForms
  <2>2. functions' = [functions EXCEPT ![F] = c]
    BY <1>1, <1>15 DEF Superclass
  <2> HIDE DEF c
  <2>3. AllFormed' /\ DOMAIN functions' = DOMAIN functions
    BY <1>0, <1>1, <2>1, <2>2, UpdateForms
  <2>4. error' \in {"", "redeclared", "own initializer", "limit"}
    BY <1>0, <1>15, ReportTypes DEF Superclass, Rest
  <2>5. QED BY <1>0, <1>15, <2>3, <2>4 DEF Superclass, Rest
(* Steps of a search that leave the arrays as they are.                      *)
<1>16. ASSUME UNCHANGED <<functions, phase>>,
              search' \in Steps \cup {Idle},
              search' # Idle => search'.at \in DOMAIN functions,
              search'.step = "add" => search'.index # 0,
              targets' \in Seq(Steps),
              error' \in {"", "redeclared", "own initializer", "limit"}
       PROVE  AllFormed' /\ Rest'
  BY <1>0, <1>16 DEF AllFormed, Formed, Sized, Nested, Rest, compiler, F
<1>17. search # Idle => search \in Steps /\ search.at \in DOMAIN functions
  BY <1>0 DEF Rest
<1>18. ASSUME NEW step \in {"find", "add", "done"}, NEW name \in Names, NEW at \in 1 .. F,
              NEW index \in Nat, NEW of \in Positions
       PROVE  /\ Step(step, name, at, index, of) \in Steps
              /\ Step(step, name, at, index, of).at = at
              /\ Step(step, name, at, index, of).step = step
              /\ Step(step, name, at, index, of).index = index
  BY <1>1 DEF Step, Steps
<1>19. Global \in Positions
  BY DEF Global, Positions
<1>20. search.step \in {"find", "add", "done"} => search # Idle
  BY DEF Idle
<1>21. ASSUME NEW name \in Names, Use(name) PROVE AllFormed' /\ Rest'
  <2>1. Step("find", name, F, 0, Global) \in Steps /\ F \in DOMAIN functions
    BY <1>1, <1>18, <1>19
  <2>2. Step("find", name, F, 0, Global).at = F /\ Step("find", name, F, 0, Global).step = "find"
    BY <1>1, <1>18, <1>19
  <2>3. QED BY <1>0, <1>16, <1>21, <2>1, <2>2 DEF Use, Rest
<1>22. ASSUME NotHere PROVE AllFormed' /\ Rest'
  <2>1. search \in Steps /\ search.at \in 1 .. F /\ search.step = "find"
    BY <1>1, <1>17, <1>20, <1>22 DEF NotHere
  <2>2. search.name \in Names
    BY <2>1 DEF Steps
  <2>3. CASE search.at = 1
    <3>1. search' = Step("done", search.name, F, 0, Global)
      BY <1>22, <2>3 DEF NotHere
    <3>2. search' \in Steps /\ search'.at \in DOMAIN functions /\ search'.step # "add"
      BY <1>1, <1>18, <1>19, <2>2, <3>1
    <3>3. QED BY <1>0, <1>16, <1>22, <3>2 DEF NotHere, Rest
  <2>4. CASE search.at # 1
    <3>1. search' = Step("find", search.name, search.at - 1, 0, Global) /\ search.at - 1 \in 1 .. F
      BY <1>1, <1>22, <2>1, <2>4 DEF NotHere
    <3>2. search' \in Steps /\ search'.at \in DOMAIN functions /\ search'.step # "add"
      BY <1>1, <1>18, <1>19, <2>2, <3>1
    <3>3. QED BY <1>0, <1>16, <1>22, <3>2 DEF NotHere, Rest
  <2>5. QED BY <2>3, <2>4
<1>23. ASSUME Get \/ Assign \/ Set PROVE AllFormed' /\ Rest'
  <2>1. targets \in Seq(Steps) /\ error \in {"", "redeclared", "own initializer", "limit"}
    BY <1>0 DEF Rest
  <2>2. /\ targets' \in Seq(Steps) /\ UNCHANGED <<functions, phase, error>>
        /\ search' = Idle /\ Idle.step # "add"
    <3>0. Idle.step # "add"
      BY DEF Idle
    <3>1. CASE Get
      BY <2>1, <3>0, <3>1 DEF Get
    <3>2. CASE Assign
      <4>1. search \in Steps
        BY <1>17, <1>20, <3>2 DEF Assign
      <4>2. Append(targets, search) \in Seq(Steps)
        BY <2>1, <4>1, Longer
      <4>3. QED BY <3>0, <3>2, <4>2 DEF Assign
    <3>3. CASE Set
      <4>1. Len(targets) - 1 \in 0 .. Len(targets)
        <5>1. targets \in Seq(Steps) /\ targets # <<>>
          BY <2>1, <3>3 DEF Set
        <5>2. QED BY <5>1
      <4>2. SubSeq(targets, 1, Len(targets) - 1) \in Seq(Steps)
        BY <2>1, <4>1, Prefix
      <4>3. QED BY <3>0, <3>3, <4>2 DEF Set
    <3>4. QED BY <1>23, <3>0, <3>1, <3>2, <3>3
  <2>3. QED BY <1>16, <2>1, <2>2
<1>24. ASSUME Found PROVE AllFormed' /\ Rest'
  <2> DEFINE n == search.at
  <2>1. search \in Steps /\ n \in 1 .. F /\ search.name \in Names
    <3>1. search \in Steps /\ n \in 1 .. F
      BY <1>1, <1>17, <1>20, <1>24 DEF Found
    <3>2. QED BY <3>1 DEF Steps
  <2>2. PICK i \in DOMAIN functions[n].locals :
          /\ Report(IF functions[n].locals[i].level = Uninitialized THEN "own initializer" ELSE "")
          /\ IF n = F
             THEN /\ search' = Step("done", search.name, n, i, <<n, i>>)
                  /\ UNCHANGED functions
             ELSE /\ search' = Step("add", search.name, n + 1, i, <<n, i>>)
                  /\ functions' = [functions EXCEPT ![n] = Captured(@, i)]
    BY <1>24 DEF Found
  <2>3. error' \in {"", "redeclared", "own initializer", "limit"}
    BY <1>0, <2>2, ReportTypes DEF Rest
  <2>4. Formed(functions[n])
    BY <1>0, <1>1, <2>1 DEF AllFormed
  <2>5. i \in Nat /\ i # 0 /\ <<n, i>> \in Positions
    <3>1. DOMAIN functions[n].locals = 1 .. Len(functions[n].locals)
      BY <2>4, CompilerFields DEF Formed
    <3>2. i \in Nat /\ i # 0
      <4>1. Len(functions[n].locals) \in Nat
        BY <2>4, CompilerFields DEF Formed
      <4>2. i \in DOMAIN functions[n].locals
        BY <2>2
      <4> HIDE DEF n
      <4>3. QED BY <3>1, <4>1, <4>2
    <3>3. QED BY <1>1, <2>1, <3>2 DEF Positions
  <2>6. phase' = phase /\ targets' = targets
    BY <1>24 DEF Found
  <2>7. CASE n = F
    <3>1. search' \in Steps /\ search'.at \in DOMAIN functions /\ search'.step # "add"
      <4>1. search' = Step("done", search.name, n, i, <<n, i>>)
        BY <2>2, <2>7
      <4>2. search.name \in Names /\ n \in 1 .. F /\ n \in DOMAIN functions
        BY <1>1, <2>1
      <4> HIDE DEF n
      <4>3. /\ Step("done", search.name, n, i, <<n, i>>) \in Steps
            /\ Step("done", search.name, n, i, <<n, i>>).at = n
            /\ Step("done", search.name, n, i, <<n, i>>).step = "done"
        BY <1>18, <2>5, <4>2
      <4>4. QED BY <4>1, <4>2, <4>3
    <3>2. targets' \in Seq(Steps) /\ functions' = functions
      BY <1>0, <2>2, <2>6, <2>7 DEF Rest
    <3>3. QED BY <1>16, <2>3, <2>6, <3>1, <3>2
  <2>8. CASE n # F
    <3> DEFINE c == Captured(functions[n], i)
    <3>1. n + 1 \in 1 .. F
      BY <1>1, <2>1, <2>8
    <3>2. search' \in Steps /\ search'.at \in DOMAIN functions /\ search'.index # 0
      <4>1. search' = Step("add", search.name, n + 1, i, <<n, i>>)
        BY <2>2, <2>8
      <4>2. search.name \in Names /\ n + 1 \in DOMAIN functions
        BY <1>1, <2>1, <3>1
      <4> HIDE DEF n
      <4>3. /\ Step("add", search.name, n + 1, i, <<n, i>>) \in Steps
            /\ Step("add", search.name, n + 1, i, <<n, i>>).at = n + 1
            /\ Step("add", search.name, n + 1, i, <<n, i>>).index = i
        BY <1>18, <2>5, <3>1, <4>2
      <4>4. QED BY <2>5, <4>1, <4>2, <4>3
    <3>3. Formed(c)
      BY <2>4, <2>2, CapturedForms
    <3>4. functions' = [functions EXCEPT ![n] = c] /\ n \in DOMAIN functions
      BY <1>1, <2>1, <2>2, <2>8
    <3>5. Len(c.locals) = Len(functions[n].locals) /\ c.level = functions[n].level
      BY <2>4, <2>2, CapturedForms
    <3> HIDE DEF c
    <3>6. AllFormed' /\ F' = F /\ DOMAIN functions' = DOMAIN functions /\ functions'[F] = functions[F]
      BY <1>0, <1>1, <2>8, <3>3, <3>4, UpdateForms
    <3>7. compiler' = compiler
      BY <3>6 DEF compiler
    <3> HIDE DEF n
    <3>8. QED BY <1>0, <2>3, <2>6, <3>2, <3>6, <3>7 DEF Rest
  <2>9. QED BY <2>7, <2>8
<1>25. ASSUME AddUpvalue PROVE AllFormed' /\ Rest'
  <2> DEFINE n == search.at
             u == Upvalue(search.index, search.of[1] = n - 1, search.of)
  <2>1. search \in Steps /\ n \in 1 .. F
    BY <1>1, <1>17, <1>20, <1>25 DEF AddUpvalue
  <2>2. /\ search.name \in Names /\ search.index \in Nat \ {0} /\ search.of \in Positions
        /\ search.step = "add"
    BY <1>0, <1>25, <2>1 DEF Steps, Rest, AddUpvalue
  <2>3. ASSUME NEW index \in Nat \ {0}, Return(index)
        PROVE  search' \in Steps /\ search'.at \in DOMAIN functions /\ search'.index # 0
    <3>1. CASE n = F
      BY <1>1, <1>18, <2>1, <2>2, <2>3, <3>1 DEF Return
    <3>2. CASE n # F
      <4>1. n + 1 \in 1 .. F
        BY <1>1, <2>1, <3>2
      <4>2. QED BY <1>1, <1>18, <2>1, <2>2, <2>3, <3>2, <4>1 DEF Return
    <3>3. QED BY <3>1, <3>2
  <2>4. /\ Formed(functions[n])
        /\ Len(functions[n].upvalues) \in Nat
        /\ DOMAIN functions[n].upvalues = 1 .. Len(functions[n].upvalues)
    <3>1. Formed(functions[n])
      BY <1>0, <1>1, <2>1 DEF AllFormed
    <3>2. QED BY <3>1, CompilerFields DEF Formed
  <2>5. phase' = phase /\ targets' = targets /\ targets \in Seq(Steps)
    BY <1>0, <1>25 DEF AddUpvalue, Rest
  <2>6. CASE \E i \in DOMAIN functions[n].upvalues : Return(i) /\ UNCHANGED <<functions, error>>
    <3>1. PICK i \in 1 .. Len(functions[n].upvalues) : Return(i) /\ UNCHANGED <<functions, error>>
      BY <2>4, <2>6
    <3>2. i \in Nat \ {0}
      BY <2>4
    <3>3. search' \in Steps /\ search'.at \in DOMAIN functions /\ search'.index # 0
      BY <2>3, <3>1, <3>2
    <3>4. QED BY <1>0, <1>16, <2>5, <3>1, <3>3 DEF Rest
  <2>7. CASE Return(1) /\ Report("limit") /\ UNCHANGED functions
    <3>1. error' \in {"", "redeclared", "own initializer", "limit"}
      BY <1>0, <2>7, ReportTypes DEF Rest
    <3>2. search' \in Steps /\ search'.at \in DOMAIN functions /\ search'.index # 0
      BY <2>3, <2>7
    <3>3. QED BY <1>16, <2>5, <2>7, <3>1, <3>2
  <2>8. CASE /\ ~(Len(functions[n].upvalues) > UINT8_MAX)
             /\ Return(Len(functions[n].upvalues) + 1)
             /\ functions' = [functions EXCEPT ![n] = WithUpvalue(@, u)]
             /\ UNCHANGED error
    <3> DEFINE c == WithUpvalue(functions[n], u)
    <3>1. u \in Upvalues
      BY <2>2, <2>8 DEF Upvalue, Upvalues
    <3>2. Formed(c) /\ c.locals = functions[n].locals /\ c.level = functions[n].level
      <4> HIDE DEF u
      <4>1. QED BY <2>4, <2>8, <3>1, WithUpvalueForms
    <3>3. functions' = [functions EXCEPT ![n] = c] /\ n \in DOMAIN functions
      BY <1>1, <2>1, <2>8
    <3>4. search' \in Steps /\ search'.at \in DOMAIN functions /\ search'.index # 0
      BY <2>3, <2>4, <2>8
    <3> HIDE DEF c
    <3>5. /\ AllFormed' /\ F' = F /\ DOMAIN functions' = DOMAIN functions
          /\ functions'[n] = c /\ (n # F => functions'[F] = functions[F])
      BY <1>0, <1>1, <3>2, <3>3, UpdateForms
    <3>6. compiler'.locals = compiler.locals /\ compiler'.level = compiler.level
      <4>1. CASE n = F
        BY <3>2, <3>5, <4>1 DEF compiler
      <4>2. CASE n # F
        BY <3>5, <4>2 DEF compiler
      <4>3. QED BY <4>1, <4>2
    <3> HIDE DEF n, u
    <3>7. QED BY <1>0, <2>5, <2>8, <3>4, <3>5, <3>6 DEF Rest
  <2>9. QED BY <1>25, <2>6, <2>7, <2>8 DEF AddUpvalue
<1>26. QED
  BY <1>2, <1>4, <1>5, <1>8, <1>10, <1>11, <1>12, <1>13, <1>14, <1>15, <1>21, <1>22, <1>23, <1>24, <1>25
     DEF Next, Resolving

LEMMA ShapeStutters ==
    ASSUME Shape, UNCHANGED vars
    PROVE  Shape'
BY DEF Shape, TypeOK, Nested, Rest, compiler, F, vars

LEMMA ShapeHolds == Spec => []Shape
<1>1. Shape /\ [Next]_vars => Shape'
  BY ShapeStep, ShapeStutters
<1>2. QED BY InitShape, <1>1, PTL DEF Spec

(* The arrays of locals and of upvalues stay within the UINT8_MAX + 1 elements     *)
(* of the C structure whatever is declared and named, also when compiling goes  *)
(* on after an error.                                                      *)
THEOREM TypesHold == Spec => []TypeOK
<1>1. Shape => TypeOK
  BY DEF Shape
<1>2. QED BY ShapeHolds, <1>1, PTL
-----------------------------------------------------------------------------
(* Upvalues lead to their variables.  The invariant: an upvalue is taken from   *)
(* the function around exactly when its variable is there, a search on its way   *)
(* back holds an index into the function around, and no two upvalues of a        *)
(* function have the same variable.                                        *)

Made(n, u) ==
    /\ n > 1
    /\ u.of[1] < n
    /\ u.is_local <=> (u.of[1] = n - 1)
    /\ LeadsTo(n - 1, u.index, u.is_local, u.of)

AllMade ==
    \A n \in DOMAIN functions : \A i \in DOMAIN functions[n].upvalues :
        Made(n, functions[n].upvalues[i])

AllDistinct ==
    \A n \in DOMAIN functions : \A i, j \in DOMAIN functions[n].upvalues :
        functions[n].upvalues[i].of = functions[n].upvalues[j].of => i = j

Pending ==
    search.step = "add" =>
        /\ search.at > 1
        /\ search.of[1] < search.at
        /\ LeadsTo(search.at - 1, search.index, search.of[1] = search.at - 1, search.of)

IndicesHold == IndexHolds(search) /\ \A i \in DOMAIN targets : IndexHolds(targets[i])

Links == AllMade /\ AllDistinct /\ Pending /\ IndicesHold

Extends(c, d) ==
    /\ DOMAIN c.locals \subseteq DOMAIN d.locals
    /\ DOMAIN c.upvalues \subseteq DOMAIN d.upvalues
    /\ \A i \in DOMAIN c.upvalues : d.upvalues[i] = c.upvalues[i]

(* A variable is found where it was while the arrays only grow.               *)
LEMMA LeadsStays ==
    ASSUME NEW n, NEW index, NEW is_local, NEW of, LeadsTo(n, index, is_local, of),
           Extends(functions[n], functions'[n])
    PROVE  LeadsTo(n, index, is_local, of)'
BY DEF LeadsTo, Extends

LEMMA IdleHolds == IndexHolds(Idle) /\ Idle.step # "add" /\ Idle.step # "done"
BY DEF IndexHolds, Idle

LEMMA InitLinks == Init => Links
<1> SUFFICES ASSUME Init PROVE Links
  OBVIOUS
<1> DEFINE c == NewCompiler("script", 0)
<1>1. functions = <<c>> /\ search = Idle /\ targets = <<>>
  BY DEF Init
<1>2. c.upvalues = <<>>
  BY NewForms
<1>3. DOMAIN functions = {1} /\ functions[1] = c
  <2> HIDE DEF c
  <2>1. QED BY <1>1
<1>4. \A n \in DOMAIN functions : DOMAIN functions[n].upvalues = {}
  <2> HIDE DEF c
  <2>1. QED BY <1>2, <1>3
<1>5. AllMade /\ AllDistinct
  BY <1>4 DEF AllMade, AllDistinct
<1>6. Pending /\ IndicesHold
  BY <1>1, IdleHolds DEF Pending, IndicesHold
<1>7. QED BY <1>5, <1>6 DEF Links

(* Declarations, scopes and the ends of functions: the functions around stay     *)
(* as they are, and the innermost keeps its upvalues or has none.             *)
LEMMA QuietLinks ==
    ASSUME Shape, Links,
           search = Idle, search' = Idle, targets = <<>>, targets' = <<>>,
           NEW inner \in Nat, DOMAIN functions' = 1 .. inner, inner <= F + 1,
           \A m \in 1 .. inner - 1 : functions'[m] = functions[m],
           \/ functions'[inner].upvalues = <<>>
           \/ inner <= F /\ functions'[inner].upvalues = functions[inner].upvalues
    PROVE  Links'
<1>1. F \in Nat /\ DOMAIN functions = 1 .. F
  BY ShapeParts, TopFacts
<1>2. ASSUME NEW n \in 1 .. inner
      PROVE  \/ n \in 1 .. F /\ functions'[n].upvalues = functions[n].upvalues
             \/ functions'[n].upvalues = <<>>
  <2>1. CASE n = inner
    BY <1>1, <2>1
  <2>2. CASE n # inner
    <3>1. n \in 1 .. inner - 1 /\ n \in 1 .. F
      BY <1>1, <2>2
    <3>2. QED BY <3>1
  <2>3. QED BY <2>1, <2>2
<1>3. AllMade'
  <2>1. ASSUME NEW n \in 1 .. inner, NEW i \in DOMAIN functions'[n].upvalues
        PROVE  Made(n, functions[n].upvalues[i])'
    <3>1. functions'[n].upvalues # <<>>
      <4>1. DOMAIN <<>> = {}
        OBVIOUS
      <4>2. QED BY <2>1, <4>1
    <3>2. n \in 1 .. F /\ functions'[n].upvalues = functions[n].upvalues
      BY <1>2, <3>1
    <3>3. Made(n, functions[n].upvalues[i])
      BY <1>1, <2>1, <3>2 DEF Links, AllMade
    <3>4. functions'[n - 1] = functions[n - 1]
      <4>1. n > 1
        BY <3>3 DEF Made
      <4>2. n - 1 \in 1 .. inner - 1
        BY <1>1, <4>1
      <4>3. QED BY <4>2
    <3>5. QED BY <3>2, <3>3, <3>4 DEF Made, LeadsTo
  <2>2. QED BY <2>1 DEF AllMade
<1>4. AllDistinct'
  <2>1. ASSUME NEW n \in 1 .. inner,
               NEW i \in DOMAIN functions'[n].upvalues, NEW j \in DOMAIN functions'[n].upvalues,
               functions'[n].upvalues[i].of = functions'[n].upvalues[j].of
        PROVE  i = j
    <3>1. functions'[n].upvalues # <<>>
      <4>1. DOMAIN <<>> = {}
        OBVIOUS
      <4>2. QED BY <2>1, <4>1
    <3>2. n \in 1 .. F /\ functions'[n].upvalues = functions[n].upvalues
      BY <1>2, <3>1
    <3>3. QED BY <1>1, <2>1, <3>2 DEF Links, AllDistinct
  <2>2. QED BY <2>1 DEF AllDistinct
<1>5. Pending' /\ IndicesHold'
  <2>1. Pending'
    BY IdleHolds DEF Pending
  <2>2. IndexHolds(search)'
    BY IdleHolds DEF IndexHolds
  <2>3. DOMAIN targets' = {}
    OBVIOUS
  <2>4. QED BY <2>1, <2>2, <2>3 DEF IndicesHold
<1>6. QED BY <1>3, <1>4, <1>5 DEF Links
(* Searches: the arrays may only grow, and what they held stays.              *)
LEMMA GrownLinks ==
    ASSUME Shape, Links,
           F' = F, DOMAIN functions' = DOMAIN functions,
           \A m \in DOMAIN functions : Extends(functions[m], functions'[m])
    PROVE  /\ \A n \in DOMAIN functions : \A i \in DOMAIN functions[n].upvalues :
                 Made(n, functions[n].upvalues[i])' /\ functions'[n].upvalues[i] = functions[n].upvalues[i]
           /\ \A s : IndexHolds(s) => IndexHolds(s)'
<1>1. F \in Nat /\ DOMAIN functions = 1 .. F /\ F \in DOMAIN functions
  BY ShapeParts, TopFacts
<1>2. ASSUME NEW n \in DOMAIN functions, NEW i \in DOMAIN functions[n].upvalues
      PROVE  Made(n, functions[n].upvalues[i])' /\ functions'[n].upvalues[i] = functions[n].upvalues[i]
  <2>1. Made(n, functions[n].upvalues[i])
    BY DEF Links, AllMade
  <2>2. functions'[n].upvalues[i] = functions[n].upvalues[i]
    BY DEF Extends
  <2>3. n - 1 \in DOMAIN functions
    BY <1>1, <2>1 DEF Made
  <2> DEFINE u == functions[n].upvalues[i]
  <2>4. LeadsTo(n - 1, u.index, u.is_local, u.of)
    BY <2>1 DEF Made
  <2> HIDE DEF u
  <2>5. u' = u
    BY <2>2 DEF u
  <2>6. IF u.is_local
        THEN u.of = <<n - 1, u.index>> /\ u.index \in DOMAIN functions'[n - 1].locals
        ELSE u.index \in DOMAIN functions'[n - 1].upvalues /\ functions'[n - 1].upvalues[u.index].of = u.of
    BY <2>3, <2>4 DEF LeadsTo, Extends
  <2>7. Made(n, u)'
    <3>1. n > 1 /\ u.of[1] < n /\ (u.is_local <=> (u.of[1] = n - 1))
      BY <2>1 DEF Made, u
    <3>2. LeadsTo(n - 1, u.index, u.is_local, u.of)'
      BY <2>5, <2>6 DEF LeadsTo
    <3>3. QED BY <2>5, <3>1, <3>2 DEF Made
  <2>8. QED BY <2>2, <2>7 DEF u
<1>3. ASSUME NEW s, IndexHolds(s) PROVE IndexHolds(s)'
  <2>1. CASE s.step = "done" /\ s.of # Global
    <3>1. LeadsTo(F, s.index, s.of[1] = F, s.of)
      BY <1>3, <2>1 DEF IndexHolds
    <3>2. LeadsTo(F, s.index, s.of[1] = F, s.of)'
      BY <1>1, <3>1 DEF LeadsTo, Extends
    <3>3. QED BY <3>2 DEF IndexHolds
  <2>2. CASE ~(s.step = "done" /\ s.of # Global)
    BY <2>2 DEF IndexHolds
  <2>3. QED BY <2>1, <2>2
<1>4. QED BY <1>2, <1>3

LEMMA SameArrays ==
    ASSUME Shape, functions' = functions
    PROVE  /\ F' = F /\ DOMAIN functions' = DOMAIN functions
           /\ \A m \in DOMAIN functions : Extends(functions[m], functions'[m])
BY DEF F, Extends

LEMMA TargetsStay ==
    ASSUME Links, targets' = targets, \A s : IndexHolds(s) => IndexHolds(s)'
    PROVE  \A i \in DOMAIN targets' : IndexHolds(targets[i])'
<1>1. ASSUME NEW i \in DOMAIN targets' PROVE IndexHolds(targets[i])'
  <2> DEFINE s == targets[i]
  <2>1. IndexHolds(s)
    BY DEF Links, IndicesHold
  <2>2. s' = s
    OBVIOUS
  <2> HIDE DEF s
  <2>3. IndexHolds(s)'
    BY <2>1, <2>2 DEF IndexHolds, LeadsTo, F
  <2>4. QED BY <2>3 DEF s
<1>2. QED BY <1>1
LEMMA StepFields ==
    ASSUME NEW step, NEW name, NEW at, NEW index, NEW of
    PROVE  /\ Step(step, name, at, index, of).step = step
           /\ Step(step, name, at, index, of).at = at
           /\ Step(step, name, at, index, of).index = index
           /\ Step(step, name, at, index, of).of = of
BY DEF Step

(* Steps that leave the arrays alone.                                      *)
LEMMA StillLinks ==
    ASSUME Shape, Links, functions' = functions,
           search' = Idle \/ search'.step \in {"find", "done"},
           IndexHolds(search)',
           \A i \in DOMAIN targets' : IndexHolds(targets[i])'
    PROVE  Links'
<1>1. /\ F' = F /\ DOMAIN functions' = DOMAIN functions
      /\ \A m \in DOMAIN functions : Extends(functions[m], functions'[m])
  BY SameArrays
<1>2. AllMade'
  BY <1>1, GrownLinks DEF AllMade
<1>3. AllDistinct'
  BY DEF Links, AllDistinct
<1>4. Pending'
  BY IdleHolds DEF Pending
<1>5. QED BY <1>2, <1>3, <1>4 DEF Links, IndicesHold

LEMMA NamedLinks ==
    ASSUME Shape, Links,
           NotHere \/ Get \/ Assign \/ Set \/ (\E name \in Names : Use(name))
    PROVE  Links'
<1>1. functions' = functions
  BY DEF NotHere, Get, Assign, Set, Use
<1>2. \A s : IndexHolds(s) => IndexHolds(s)'
  BY <1>1 DEF IndexHolds, LeadsTo, F
<1>3. IndexHolds(Idle)'
  BY DEF IndexHolds, Idle
<1>4. CASE \E name \in Names : Use(name)
  <2>1. search'.step = "find" /\ targets' = targets
    <3>1. PICK name \in Names : Use(name)
      BY <1>4
    <3>2. search' = Step("find", name, F, 0, Global) /\ targets' = targets
      BY <3>1 DEF Use
    <3>3. QED BY <3>2, StepFields
  <2>2. IndexHolds(search)'
    BY <2>1 DEF IndexHolds
  <2>3. QED BY <1>1, <1>2, <2>1, <2>2, TargetsStay, StillLinks
<1>5. CASE NotHere
  <2>1. /\ search'.step \in {"find", "done"}
        /\ search'.step = "done" => search'.of = Global
        /\ targets' = targets
    BY <1>5 DEF NotHere, Step
  <2>2. IndexHolds(search)'
    BY <2>1 DEF IndexHolds, Global
  <2>3. QED BY <1>1, <1>2, <2>1, <2>2, TargetsStay, StillLinks
<1>6. CASE Get
  <2>1. search' = Idle /\ targets' = targets
    BY <1>6 DEF Get
  <2>2. IndexHolds(search)'
    BY <2>1 DEF IndexHolds, Idle
  <2>3. QED BY <1>1, <1>2, <2>1, <2>2, TargetsStay, StillLinks
<1>7. targets \in Seq(Steps) /\ search \in Steps \cup {Idle}
  BY DEF Shape, TypeOK
<1>8. CASE Assign
  <2>1. search' = Idle /\ targets' = Append(targets, search) /\ search \in Steps
    BY <1>7, <1>8 DEF Assign, Idle
  <2>2. IndexHolds(search)'
    BY <2>1 DEF IndexHolds, Idle
  <2>3. ASSUME NEW i \in DOMAIN targets' PROVE IndexHolds(targets[i])'
    <3>1. /\ DOMAIN targets' = 1 .. Len(targets) + 1 /\ targets'[Len(targets) + 1] = search
          /\ \A j \in 1 .. Len(targets) : targets'[j] = targets[j]
      BY <1>7, <2>1, Longer
    <3>2. DOMAIN targets = 1 .. Len(targets) /\ Len(targets) \in Nat
      BY <1>7
    <3>3. CASE i = Len(targets) + 1
      <4>1. IndexHolds(search)
        BY DEF Links, IndicesHold
      <4>2. targets'[i] = search
        BY <3>1, <3>3
      <4>3. QED BY <1>1, <4>1, <4>2 DEF IndexHolds, LeadsTo, F
    <3>4. CASE i \in 1 .. Len(targets)
      <4>1. IndexHolds(targets[i])
        BY <3>2, <3>4 DEF Links, IndicesHold
      <4>2. targets'[i] = targets[i]
        BY <3>1, <3>4
      <4>3. QED BY <1>1, <4>1, <4>2 DEF IndexHolds, LeadsTo, F
    <3>5. QED BY <3>1, <3>2, <3>3, <3>4
  <2>4. QED BY <1>1, <2>1, <2>2, <2>3, StillLinks
<1>9. CASE Set
  <2>1. search' = Idle /\ targets' = SubSeq(targets, 1, Len(targets) - 1) /\ targets # <<>>
    BY <1>9 DEF Set
  <2>2. IndexHolds(search)'
    BY <2>1 DEF IndexHolds, Idle
  <2>3. Len(targets) - 1 \in 0 .. Len(targets)
    BY <1>7, <2>1
  <2>4. /\ DOMAIN targets' = 1 .. Len(targets) - 1
        /\ \A j \in 1 .. Len(targets) - 1 : targets'[j] = targets[j]
    BY <1>7, <2>1, <2>3, Prefix
  <2>5. ASSUME NEW i \in DOMAIN targets' PROVE IndexHolds(targets[i])'
    <3>1. i \in DOMAIN targets
      BY <1>7, <2>3, <2>4
    <3>2. IndexHolds(targets[i])
      BY <3>1 DEF Links, IndicesHold
    <3>3. targets'[i] = targets[i]
      BY <2>4
    <3>4. QED BY <1>1, <3>2, <3>3 DEF IndexHolds, LeadsTo, F
  <2>6. QED BY <1>1, <2>1, <2>2, <2>5, StillLinks
<1>10. QED BY <1>4, <1>5, <1>6, <1>8, <1>9

LEMMA FoundLinks ==
    ASSUME Shape, Links, Found
    PROVE  Links'
<1>1. F \in Nat /\ DOMAIN functions = 1 .. F /\ F \in DOMAIN functions
  BY ShapeParts, TopFacts
<1>2. PICK n \in 1 .. F : n = search.at
  <2>1. search.step = "find" /\ Idle.step # "find"
    BY DEF Found, Idle
  <2>2. QED BY <1>1, <2>1 DEF Shape, TypeOK
<1>3. PICK i \in DOMAIN functions[n].locals :
          IF n = F
          THEN /\ search' = Step("done", search.name, n, i, <<n, i>>)
               /\ UNCHANGED functions
          ELSE /\ search' = Step("add", search.name, n + 1, i, <<n, i>>)
               /\ functions' = [functions EXCEPT ![n] = Captured(@, i)]
  BY <1>2 DEF Found
<1>4. targets' = targets
  BY DEF Found
<1>5. CASE n = F
  <2>1. search'.step = "done" /\ search'.index = i /\ search'.of = <<F, i>> /\ functions' = functions
    <3>1. search' = Step("done", search.name, n, i, <<n, i>>) /\ functions' = functions
      BY <1>3, <1>5
    <3>2. QED BY <1>5, <3>1, StepFields
  <2>2. \A s : IndexHolds(s) => IndexHolds(s)'
    BY <2>1 DEF IndexHolds, LeadsTo, F
  <2>3. F' = F /\ i \in DOMAIN functions'[F].locals
    BY <1>3, <1>5, <2>1 DEF F
  <2>4. IndexHolds(search)'
    <3>1. search'.of[1] = F' /\ search'.of = <<F', search'.index>>
      BY <2>1, <2>3
    <3>2. LeadsTo(F, search.index, search.of[1] = F, search.of)'
      BY <2>1, <2>3, <3>1 DEF LeadsTo
    <3>3. QED BY <3>2 DEF IndexHolds
  <2>5. QED BY <1>4, <2>1, <2>2, <2>4, TargetsStay, StillLinks
<1>6. CASE n # F
  <2> DEFINE c == Captured(functions[n], i)
  <2>1. /\ search'.step = "add" /\ search'.at = n + 1 /\ search'.index = i /\ search'.of = <<n, i>>
        /\ functions' = [functions EXCEPT ![n] = c]
    <3>1. search' = Step("add", search.name, n + 1, i, <<n, i>>)
      BY <1>3, <1>6
    <3>2. functions' = [functions EXCEPT ![n] = c]
      BY <1>1, <1>2, <1>3, <1>6
    <3>3. QED BY <3>1, <3>2, StepFields
  <2>2. Formed(functions[n])
    BY <1>1, <1>2, ShapeParts DEF AllFormed
  <2>3. /\ Formed(c) /\ c.upvalues = functions[n].upvalues
        /\ DOMAIN c.locals = DOMAIN functions[n].locals
    BY <1>3, <2>2, CapturedForms
  <2> HIDE DEF c
  <2>4. /\ F' = F /\ DOMAIN functions' = DOMAIN functions /\ functions'[n] = c
        /\ \A m \in DOMAIN functions : m # n => functions'[m] = functions[m]
    BY <1>1, <1>2, <2>1, <2>3, ShapeParts, UpdateForms
  <2>5. \A m \in DOMAIN functions :
            Extends(functions[m], functions'[m]) /\ functions'[m].upvalues = functions[m].upvalues
    BY <2>3, <2>4 DEF Extends
  <2>6. AllMade'
    BY <2>4, <2>5, GrownLinks DEF AllMade
  <2>7. AllDistinct'
    BY <2>4, <2>5 DEF Links, AllDistinct
  <2>8. Pending'
    <3>1. i \in DOMAIN functions'[n].locals
      BY <1>3, <2>3, <2>4
    <3>2. n \in Nat /\ n >= 1 /\ (n + 1) - 1 = n
      BY <1>1, <1>2
    <3>3. LeadsTo(search.at - 1, search.index, search.of[1] = search.at - 1, search.of)'
      <4>1. search'.at - 1 = n /\ search'.of[1] = n /\ search'.of = <<n, search'.index>>
        BY <2>1, <3>2
      <4>2. search'.index \in DOMAIN functions'[search'.at - 1].locals
        BY <2>1, <3>1, <4>1
      <4>3. QED BY <4>1, <4>2 DEF LeadsTo
    <3>4. QED BY <2>1, <3>2, <3>3 DEF Pending
  <2>9. IndexHolds(search)'
    BY <2>1 DEF IndexHolds
  <2>10. \A j \in DOMAIN targets' : IndexHolds(targets[j])'
    BY <1>4, <2>4, <2>5, GrownLinks, TargetsStay
  <2>11. QED BY <2>6, <2>7, <2>8, <2>9, <2>10 DEF Links, IndicesHold
<1>7. QED BY <1>5, <1>6
LEMMA SameVariable ==
    ASSUME NEW n, NEW index, NEW is_local, NEW u, NEW v,
           LeadsTo(n, index, is_local, u), LeadsTo(n, index, is_local, v)
    PROVE  u = v
BY DEF LeadsTo

Fine == error = ""

(* Two upvalues of one variable are taken from the same place: SameUpvalue says  *)
(* whether a variable has an upvalue already.                               *)
LEMMA SameUpvalueIsSameVariable ==
    ASSUME Shape, Links, NEW n \in DOMAIN functions, NEW i \in DOMAIN functions[n].upvalues,
           NEW index, NEW is_local, NEW of,
           n > 1, LeadsTo(n - 1, index, is_local, of), is_local <=> (of[1] = n - 1),
           is_local \in BOOLEAN
    PROVE  SameUpvalue(functions[n].upvalues[i], Upvalue(index, is_local, of)) <=>
              functions[n].upvalues[i].of = of
<1> DEFINE u == functions[n].upvalues[i]
<1>1. /\ u.is_local <=> (u.of[1] = n - 1)
      /\ LeadsTo(n - 1, u.index, u.is_local, u.of)
  BY DEF Links, AllMade, Made
<1>2. F \in Nat /\ DOMAIN functions = 1 .. F
  BY ShapeParts, TopFacts
<1>3. u \in Upvalues
  <2>1. Formed(functions[n])
    BY ShapeParts DEF AllFormed
  <2>2. functions[n].upvalues \in Seq(Upvalues) /\ i \in 1 .. Len(functions[n].upvalues)
    BY <2>1, CompilerFields DEF Formed
  <2>3. QED BY <2>2, Element
<1>4. u.is_local \in BOOLEAN
  BY <1>3 DEF Upvalues
<1>5. SameUpvalue(u, Upvalue(index, is_local, of)) <=> u.index = index /\ u.is_local = is_local
  BY DEF SameUpvalue, Upvalue
<1> HIDE DEF u
<1>6. ASSUME u.index = index, u.is_local = is_local PROVE u.of = of
  BY <1>1, <1>6, SameVariable
<1>7. ASSUME u.of = of PROVE u.index = index /\ u.is_local = is_local
  <2>1. u.is_local = is_local
    BY <1>1, <1>4, <1>7
  <2>2. CASE is_local
    BY <1>1, <1>7, <2>1, <2>2 DEF LeadsTo
  <2>3. CASE ~is_local
    <3>1. /\ index \in DOMAIN functions[n - 1].upvalues /\ functions[n - 1].upvalues[index].of = of
          /\ u.index \in DOMAIN functions[n - 1].upvalues /\ functions[n - 1].upvalues[u.index].of = of
      BY <1>1, <1>7, <2>1, <2>3 DEF LeadsTo
    <3>2. n - 1 \in DOMAIN functions
      BY <1>2
    <3>3. QED BY <2>1, <3>1, <3>2 DEF Links, AllDistinct
  <2>4. QED BY <2>2, <2>3
<1>8. QED BY <1>5, <1>6, <1>7 DEF u

(* A search returns from function n with the index of an upvalue there.        *)
LEMMA ReturnLinks ==
    ASSUME NEW n \in 1 .. F, F \in Nat, F' = F, n = search.at,
           NEW index, Return(index), search.of[1] \in Nat, search.of[1] < n,
           index \in DOMAIN functions'[n].upvalues, functions'[n].upvalues[index].of = search.of
    PROVE  Pending' /\ IndexHolds(search)'
<1>1. LeadsTo(n, index, FALSE, search.of)'
  <2>1. search'.of = search.of
    BY DEF Return, Step
  <2>2. functions'[n].upvalues[index].of = search'.of
    BY <2>1
  <2>3. QED BY <2>2 DEF LeadsTo
<1>2. CASE n = F
  <2>1. search'.step = "done" /\ search'.index = index /\ search'.of = search.of
    BY <1>2 DEF Return, Step
  <2>2. search'.of[1] # F'
    BY <1>2, <2>1
  <2>3. LeadsTo(F, search.index, search.of[1] = F, search.of)'
    BY <1>1, <1>2, <2>1, <2>2 DEF LeadsTo
  <2>4. QED BY <2>1, <2>3 DEF Pending, IndexHolds
<1>3. CASE n # F
  <2>1. search'.step = "add" /\ search'.index = index /\ search'.of = search.of /\ search'.at = n + 1
    BY <1>3 DEF Return, Step
  <2>2. /\ search'.at - 1 = n /\ search'.at > 1 /\ search'.of[1] # search'.at - 1
        /\ search'.of[1] < search'.at
    BY <2>1
  <2>3. LeadsTo(search.at - 1, search.index, search.of[1] = search.at - 1, search.of)'
    BY <1>1, <2>1, <2>2 DEF LeadsTo
  <2>4. QED BY <2>1, <2>2, <2>3 DEF Pending, IndexHolds
<1>4. QED BY <1>2, <1>3
LEMMA AddUpvalueLinks ==
    ASSUME Shape, Links, AddUpvalue, Fine'
    PROVE  Links'
<1>1. F \in Nat /\ DOMAIN functions = 1 .. F /\ F \in DOMAIN functions
  BY ShapeParts, TopFacts
<1>2. /\ search \in Steps /\ search.at \in 1 .. F /\ search.step = "add"
      /\ search.index \in Nat \ {0}
  <2>1. search.step = "add" /\ Idle.step # "add"
    BY DEF AddUpvalue, Idle
  <2>2. search \in Steps /\ search.at \in 1 .. F
    BY <1>1, <2>1 DEF Shape, TypeOK
  <2>3. search.index # 0
    BY <2>1 DEF Shape
  <2>4. search.index \in Nat
    BY <2>2 DEF Steps
  <2>5. QED BY <2>1, <2>2, <2>3, <2>4
<1>3. PICK n \in 1 .. F : n = search.at
  BY <1>2
<1>4. /\ n > 1 /\ search.of[1] < n /\ search.of[1] \in Nat /\ search.of \in Positions
      /\ LeadsTo(n - 1, search.index, search.of[1] = n - 1, search.of)
  <2>1. search.of \in Positions
    BY <1>2 DEF Steps
  <2>2. search.of[1] \in Nat
    BY <2>1 DEF Positions
  <2>3. QED BY <1>2, <1>3, <2>1, <2>2 DEF Links, Pending
<1>5. PICK here \in BOOLEAN : here <=> (search.of[1] = n - 1)
  OBVIOUS
<1> DEFINE u == Upvalue(search.index, here, search.of)
<1>6. LeadsTo(n - 1, search.index, here, search.of)
  BY <1>4, <1>5 DEF LeadsTo
<1>7. u = Upvalue(search.index, search.of[1] = n - 1, search.of)
  BY <1>5
<1>8. \A i \in DOMAIN functions[n].upvalues :
          SameUpvalue(functions[n].upvalues[i], u) <=> functions[n].upvalues[i].of = search.of
  BY <1>1, <1>4, <1>5, <1>6, SameUpvalueIsSameVariable
<1>9. targets' = targets
  BY DEF AddUpvalue
<1>10. Formed(functions[n]) /\ DOMAIN functions[n].upvalues = 1 .. Len(functions[n].upvalues)
      /\ Len(functions[n].upvalues) \in Nat
  <2>1. Formed(functions[n])
    BY <1>1, ShapeParts DEF AllFormed
  <2>2. QED BY <2>1, CompilerFields DEF Formed
<1>11. CASE \E i \in DOMAIN functions[n].upvalues :
              /\ SameUpvalue(functions[n].upvalues[i], u)
              /\ Return(i)
              /\ functions' = functions
  <2>1. PICK i \in DOMAIN functions[n].upvalues :
            SameUpvalue(functions[n].upvalues[i], u) /\ Return(i) /\ functions' = functions
    BY <1>11
  <2>2. functions'[n].upvalues[i].of = search.of /\ i \in DOMAIN functions'[n].upvalues
    BY <1>8, <2>1
  <2>3. /\ F' = F /\ DOMAIN functions' = DOMAIN functions
        /\ \A m \in DOMAIN functions : Extends(functions[m], functions'[m])
    BY <2>1, SameArrays
  <2>4. Pending' /\ IndexHolds(search)'
    BY <1>1, <1>3, <1>4, <2>1, <2>2, <2>3, ReturnLinks
  <2>5. AllMade'
    BY <2>3, <2>1, GrownLinks DEF AllMade
  <2>6. AllDistinct'
    BY <2>1 DEF Links, AllDistinct
  <2>7. \A j \in DOMAIN targets' : IndexHolds(targets[j])'
    BY <1>9, <2>3, GrownLinks, TargetsStay
  <2>8. QED BY <2>4, <2>5, <2>6, <2>7 DEF Links, IndicesHold
<1>12. CASE /\ \A i \in DOMAIN functions[n].upvalues : ~SameUpvalue(functions[n].upvalues[i], u)
           /\ ~(Len(functions[n].upvalues) > UINT8_MAX)
           /\ Return(Len(functions[n].upvalues) + 1)
           /\ functions' = [functions EXCEPT ![n] = WithUpvalue(@, u)]
  <2> DEFINE c == WithUpvalue(functions[n], u)
  <2>0. PICK last \in Nat : last = Len(functions[n].upvalues) + 1
    BY <1>10
  <2>1. u \in Upvalues /\ u.of = search.of /\ u.index = search.index
        /\ u.is_local = here
    BY <1>2, <1>4 DEF Upvalue, Upvalues
  <2> HIDE DEF u
  <2>2. functions[n].upvalues \in Seq(Upvalues)
    BY <1>10, CompilerFields DEF Formed
  <2>3. Formed(c) /\ c.locals = functions[n].locals /\ c.upvalues = Append(functions[n].upvalues, u)
    BY <1>10, <1>12, <2>1, WithUpvalueForms
  <2>4. functions' = [functions EXCEPT ![n] = c]
    BY <1>1, <1>12
  <2> HIDE DEF c
  <2>5. /\ F' = F /\ DOMAIN functions' = DOMAIN functions /\ functions'[n] = c
        /\ \A m \in DOMAIN functions : m # n => functions'[m] = functions[m]
    BY <1>1, <2>3, <2>4, ShapeParts, UpdateForms
  <2>6. /\ DOMAIN functions'[n].upvalues = 1 .. last
        /\ functions'[n].upvalues[last] = u
        /\ \A i \in DOMAIN functions[n].upvalues : functions'[n].upvalues[i] = functions[n].upvalues[i]
    BY <1>10, <2>0, <2>1, <2>2, <2>3, <2>5, Longer
  <2>7. \A m \in DOMAIN functions : Extends(functions[m], functions'[m])
    <3>1. Extends(functions[n], functions'[n])
      BY <1>10, <2>3, <2>5, <2>6 DEF Extends
    <3>2. QED BY <2>5, <3>1 DEF Extends
  <2>8. Pending' /\ IndexHolds(search)'
    <3>1. last \in DOMAIN functions'[n].upvalues /\ functions'[n].upvalues[last].of = search.of
      BY <1>10, <2>0, <2>1, <2>6
    <3>2. QED BY <1>1, <1>3, <1>4, <1>12, <2>0, <2>5, <3>1, ReturnLinks
  <2>9. Made(n, functions[n].upvalues[last])'
    <3>1. LeadsTo(n - 1, search.index, here, search.of)
      BY <1>6
    <3>2. n - 1 \in DOMAIN functions /\ functions'[n - 1] = functions[n - 1]
      BY <1>1, <1>4, <2>5
    <3>3. LeadsTo(n - 1, u.index, u.is_local, u.of)
      BY <2>1, <3>1
    <3>4. u.of[1] < n /\ (u.is_local <=> (u.of[1] = n - 1))
      BY <1>4, <1>5, <2>1
    <3>5. QED BY <1>4, <2>6, <3>2, <3>3, <3>4 DEF Made, LeadsTo
  <2>10. AllMade'
    <3>1. ASSUME NEW m \in DOMAIN functions', NEW i \in DOMAIN functions'[m].upvalues
          PROVE  Made(m, functions[m].upvalues[i])'
      <4>1. CASE m = n /\ i = last
        BY <2>9, <4>1
      <4>2. CASE ~(m = n /\ i = last)
        <5>1. m \in DOMAIN functions /\ i \in DOMAIN functions[m].upvalues
          BY <1>10, <2>0, <2>5, <2>6, <3>1, <4>2
        <5>2. QED BY <2>5, <2>7, <5>1, GrownLinks
      <4>3. QED BY <4>1, <4>2
    <3>2. QED BY <3>1 DEF AllMade
  <2>11. AllDistinct'
    <3>1. \A i \in DOMAIN functions[n].upvalues : functions[n].upvalues[i].of # search.of
      BY <1>8, <1>12 DEF u
    <3>2. ASSUME NEW m \in DOMAIN functions',
                 NEW i \in DOMAIN functions'[m].upvalues, NEW j \in DOMAIN functions'[m].upvalues,
                 functions'[m].upvalues[i].of = functions'[m].upvalues[j].of
          PROVE  i = j
      <4>1. CASE m # n
        BY <2>5, <3>2, <4>1 DEF Links, AllDistinct
      <4>2. CASE m = n
        <5>1. \A k \in 1 .. last : k # last => k \in DOMAIN functions[n].upvalues
          BY <1>10, <2>0
        <5>2. CASE i = last /\ j # last
          BY <2>1, <2>6, <3>1, <3>2, <4>2, <5>1, <5>2
        <5>3. CASE j = last /\ i # last
          BY <2>1, <2>6, <3>1, <3>2, <4>2, <5>1, <5>3
        <5>4. CASE i # last /\ j # last
          BY <1>1, <2>6, <3>2, <4>2, <5>1, <5>4 DEF Links, AllDistinct
        <5>5. QED BY <5>2, <5>3, <5>4
      <4>3. QED BY <4>1, <4>2
    <3>3. QED BY <3>2 DEF AllDistinct
  <2>12. \A j \in DOMAIN targets' : IndexHolds(targets[j])'
    BY <1>9, <2>5, <2>7, GrownLinks, TargetsStay
  <2>13. QED BY <2>8, <2>10, <2>11, <2>12 DEF Links, IndicesHold
<1>13. ~Report("limit")
  BY DEF Report, Fine
<1>14. QED BY <1>3, <1>11, <1>12, <1>13, <1>7 DEF AddUpvalue
(* Steps that change nothing but the locals and scopes of the innermost function. *)
LEMMA InnermostLinks ==
    ASSUME Shape, Links,
           search = Idle, search' = Idle, targets = <<>>, targets' = <<>>,
           NEW c, functions' = [functions EXCEPT ![F] = c], c.upvalues = compiler.upvalues
    PROVE  Links'
<1>1. F \in Nat /\ F >= 1 /\ DOMAIN functions = 1 .. F /\ functions[F] = compiler
  BY ShapeParts, TopFacts DEF compiler
<1>2. /\ DOMAIN functions' = 1 .. F
      /\ \A m \in 1 .. F - 1 : functions'[m] = functions[m]
      /\ functions'[F].upvalues = functions[F].upvalues
  BY <1>1
<1>3. QED BY <1>1, <1>2, QuietLinks

LEMMA DeclaredLinks ==
    ASSUME Shape, Links,
           search = Idle, search' = Idle, targets = <<>>, targets' = <<>>,
           \/ \E name \in Identifiers :
                 \/ functions' = [functions EXCEPT ![F] = declare_variable(@, name)]
                 \/ functions' = [functions EXCEPT ![F] = mark_initialized(declare_variable(@, name))]
           \/ functions' = [functions EXCEPT ![F] = mark_initialized(add_local(@, "super"))]
    PROVE  Links'
<1>1. Formed(compiler) /\ F \in DOMAIN functions /\ compiler = functions[F]
  BY ShapeParts, TopFacts DEF compiler
<1>2. CASE \E name \in Identifiers :
              \/ functions' = [functions EXCEPT ![F] = declare_variable(@, name)]
              \/ functions' = [functions EXCEPT ![F] = mark_initialized(declare_variable(@, name))]
  <2>1. PICK name \in Identifiers :
              \/ functions' = [functions EXCEPT ![F] = declare_variable(@, name)]
              \/ functions' = [functions EXCEPT ![F] = mark_initialized(declare_variable(@, name))]
    BY <1>2
  <2> DEFINE c == declare_variable(compiler, name)
  <2>2. /\ c.upvalues = compiler.upvalues
        /\ mark_initialized(c).upvalues = compiler.upvalues
    BY <1>1, DeclareForms, MarkForms
  <2>3. \/ functions' = [functions EXCEPT ![F] = c]
        \/ functions' = [functions EXCEPT ![F] = mark_initialized(c)]
    BY <1>1, <2>1
  <2>4. QED BY <2>2, <2>3, InnermostLinks
<1>3. CASE functions' = [functions EXCEPT ![F] = mark_initialized(add_local(@, "super"))]
  <2> DEFINE c == mark_initialized(add_local(compiler, "super"))
  <2>1. c.upvalues = compiler.upvalues
    BY <1>1, AddLocalForms, MarkForms
  <2>2. functions' = [functions EXCEPT ![F] = c]
    BY <1>1, <1>3
  <2>3. QED BY <2>1, <2>2, InnermostLinks
<1>4. QED BY <1>2, <1>3

LEMMA OpenedLinks ==
    ASSUME Shape, Links,
           search = Idle, search' = Idle, targets = <<>>, targets' = <<>>,
           \/ functions' = [functions EXCEPT ![F] = mark_initialized(@)]
           \/ \E what \in {"block", "class", "subclass"}, levels \in {0, 1} : Opens(what, levels)
           \/ functions' = [functions EXCEPT ![F] = Closing(@)]
           \/ scope_exit
    PROVE  Links'
<1>1. compiler \in Compilers /\ F \in DOMAIN functions /\ compiler = functions[F]
  BY ShapeParts, TopFacts DEF compiler, Formed
<1>2. CASE functions' = [functions EXCEPT ![F] = mark_initialized(@)]
  <2> DEFINE c == mark_initialized(compiler)
  <2>1. c.upvalues = compiler.upvalues
    BY <1>1 DEF mark_initialized, Compilers
  <2>2. functions' = [functions EXCEPT ![F] = c]
    BY <1>1, <1>2
  <2>3. QED BY <2>1, <2>2, InnermostLinks
<1>3. CASE \E what \in {"block", "class", "subclass"}, levels \in {0, 1} : Opens(what, levels)
  <2>1. PICK what \in {"block", "class", "subclass"}, levels \in {0, 1} : Opens(what, levels)
    BY <1>3
  <2> DEFINE c == Opening(compiler, what, levels)
  <2>2. c.upvalues = compiler.upvalues
    BY <1>1 DEF Opening, Compilers
  <2>3. functions' = [functions EXCEPT ![F] = c]
    BY <1>1, <2>1 DEF Opens
  <2>4. QED BY <2>2, <2>3, InnermostLinks
<1>4. CASE functions' = [functions EXCEPT ![F] = Closing(@)]
  <2> DEFINE c == Closing(compiler)
  <2>1. c.upvalues = compiler.upvalues
    BY <1>1 DEF Closing, Compilers
  <2>2. functions' = [functions EXCEPT ![F] = c]
    BY <1>1, <1>4
  <2>3. QED BY <2>1, <2>2, InnermostLinks
<1>5. CASE scope_exit
  <2>1. PICK k : functions' = [functions EXCEPT ![F] = Leaving(Closing(@), compiler.level - 1, k)]
    BY <1>5 DEF scope_exit
  <2> DEFINE c == Leaving(Closing(compiler), compiler.level - 1, k)
  <2>2. c.upvalues = compiler.upvalues
    BY <1>1 DEF Leaving, Closing, Compilers
  <2>3. functions' = [functions EXCEPT ![F] = c]
    BY <1>1, <2>1
  <2>4. QED BY <2>2, <2>3, InnermostLinks
<1>6. QED BY <1>2, <1>3, <1>4, <1>5

LEMMA NestedLinks ==
    ASSUME Shape, Links,
           search = Idle, search' = Idle, targets = <<>>, targets' = <<>>,
           \/ \E type \in {"function", "method"} : functions' = Append(functions, NewCompiler(type, 1))
           \/ F > 1 /\ functions' = SubSeq(functions, 1, F - 1)
    PROVE  Links'
<1>1. F \in Nat /\ F >= 1 /\ DOMAIN functions = 1 .. F /\ AllFormed
  BY ShapeParts, TopFacts
<1>2. CASE \E type \in {"function", "method"} : functions' = Append(functions, NewCompiler(type, 1))
  <2>1. PICK type \in {"function", "method"} : functions' = Append(functions, NewCompiler(type, 1))
    BY <1>2
  <2> DEFINE c == NewCompiler(type, 1)
  <2>2. Formed(c) /\ c.upvalues = <<>>
    BY NewForms
  <2>3. functions' = Append(functions, c)
    BY <2>1
  <2> HIDE DEF c
  <2>4. /\ DOMAIN functions' = 1 .. F + 1 /\ functions'[F + 1] = c
        /\ \A m \in DOMAIN functions : functions'[m] = functions[m]
    BY <1>1, <2>2, <2>3, PushForms
  <2>5. /\ F + 1 \in Nat /\ F + 1 <= F + 1
        /\ \A m \in 1 .. (F + 1) - 1 : functions'[m] = functions[m]
        /\ functions'[F + 1].upvalues = <<>>
    BY <1>1, <2>2, <2>4
  <2>6. QED BY <2>4, <2>5, QuietLinks
<1>3. CASE F > 1 /\ functions' = SubSeq(functions, 1, F - 1)
  <2>1. DOMAIN functions' = 1 .. F - 1 /\ \A m \in 1 .. F - 1 : functions'[m] = functions[m]
    BY <1>1, <1>3, PopForms
  <2>2. /\ F - 1 \in Nat /\ F - 1 <= F + 1 /\ F - 1 <= F
        /\ \A m \in 1 .. (F - 1) - 1 : functions'[m] = functions[m]
        /\ functions'[F - 1].upvalues = functions[F - 1].upvalues
    BY <1>1, <1>3, <2>1
  <2>3. QED BY <2>1, <2>2, QuietLinks
<1>4. QED BY <1>2, <1>3

LEMMA LinksStay ==
    ASSUME Links, functions' = functions, search' = search, targets' = targets
    PROVE  Links'
<1>1. AllMade'
  BY DEF Links, AllMade, Made, LeadsTo
<1>2. AllDistinct'
  BY DEF Links, AllDistinct
<1>3. Pending'
  BY DEF Links, Pending, LeadsTo
<1>4. IndicesHold'
  BY DEF Links, IndicesHold, IndexHolds, LeadsTo, F
<1>5. QED BY <1>1, <1>2, <1>3, <1>4 DEF Links

LEMMA LinksStep ==
    ASSUME Shape, Fine => Links, Next, Fine'
    PROVE  Links'
<1>1. Fine
  BY DEF Next, Resolving, Fine, VarDeclaration, FuncDeclaration, Parameter, ClassDeclaration, Declared,
         DefineVariable, BlockBegin, BlockEnd, FunctionBegin, MethodBegin, Begin, BodyBegin, End,
         ClassBegin, SubclassBegin, Superclass, ClassEnd, Use, Found, NotHere, AddUpvalue, Get, Assign,
         Set, Report
<1>2. Links
  BY <1>1
<1>3. ASSUME NEW name \in Identifiers,
             VarDeclaration(name) \/ FuncDeclaration(name) \/ Parameter(name) \/ ClassDeclaration(name)
      PROVE  Links'
  <2>1. /\ search = Idle /\ search' = Idle /\ targets = <<>> /\ targets' = <<>>
        /\ \/ functions' = [functions EXCEPT ![F] = declare_variable(@, name)]
           \/ functions' = [functions EXCEPT ![F] = mark_initialized(declare_variable(@, name))]
    BY <1>3 DEF VarDeclaration, FuncDeclaration, Parameter, ClassDeclaration, Declared, In
  <2>2. QED BY <1>2, <2>1, DeclaredLinks
<1>4. CASE Superclass
  BY <1>2, <1>4, DeclaredLinks DEF Superclass, In
<1>5. CASE DefineVariable
  BY <1>2, <1>5, OpenedLinks DEF DefineVariable, In
<1>6. CASE BlockBegin \/ ClassBegin \/ SubclassBegin
  <2>1. /\ search = Idle /\ search' = Idle /\ targets = <<>> /\ targets' = <<>>
        /\ Opens("block", 1) \/ Opens("class", 0) \/ Opens("subclass", 1)
    BY <1>6 DEF BlockBegin, ClassBegin, SubclassBegin, In
  <2>2. QED BY <1>2, <2>1, OpenedLinks
<1>7. CASE BlockEnd \/ ClassEnd
  <2>1. /\ search = Idle /\ search' = Idle /\ targets = <<>> /\ targets' = <<>>
        /\ scope_exit \/ functions' = [functions EXCEPT ![F] = Closing(@)]
    BY <1>7 DEF BlockEnd, ClassEnd, In
  <2>2. QED BY <1>2, <2>1, OpenedLinks
<1>8. CASE FunctionBegin \/ MethodBegin
  <2>1. /\ search = Idle /\ search' = Idle /\ targets = <<>> /\ targets' = <<>>
        /\ \E type \in {"function", "method"} : functions' = Append(functions, NewCompiler(type, 1))
    BY <1>8 DEF FunctionBegin, MethodBegin, Begin, In
  <2>2. QED BY <1>2, <2>1, NestedLinks
<1>9. CASE BodyBegin
  <2>1. functions' = functions /\ search' = search /\ targets' = targets
    BY <1>9 DEF BodyBegin
  <2>2. QED BY <1>2, <2>1, LinksStay
<1>10. CASE End
  <2>1. /\ search = Idle /\ search' = Idle /\ targets = <<>> /\ targets' = <<>>
        /\ F > 1 /\ functions' = SubSeq(functions, 1, F - 1)
    BY <1>10 DEF End, In
  <2>2. QED BY <1>2, <2>1, NestedLinks
<1>11. CASE \E name \in Names : Use(name)
  BY <1>2, <1>11, NamedLinks
<1>12. CASE Resolving
  <2>1. CASE Found
    BY <1>2, <2>1, FoundLinks
  <2>2. CASE AddUpvalue
    BY <1>2, <2>2, AddUpvalueLinks
  <2>3. CASE NotHere \/ Get \/ Assign \/ Set
    BY <1>2, <2>3, NamedLinks
  <2>4. QED BY <1>12, <2>1, <2>2, <2>3 DEF Resolving
<1>13. QED BY <1>3, <1>4, <1>5, <1>6, <1>7, <1>8, <1>9, <1>10, <1>11, <1>12 DEF Next

LEMMA LinksHold == Spec => [](Fine => Links)
<1>1. Init => (Fine => Links)
  BY InitLinks
<1>2. Shape /\ (Fine => Links) /\ [Next]_vars => (Fine => Links)'
  <2>1. ASSUME Links, UNCHANGED vars PROVE Links'
    <3>1. functions' = functions /\ search' = search /\ targets' = targets
      BY <2>1 DEF vars
    <3>2. QED BY <2>1, <3>1, LinksStay
  <2>2. UNCHANGED vars => (Fine' <=> Fine)
    BY DEF vars, Fine
  <2>3. QED BY <2>1, <2>2, LinksStep
<1>3. QED BY <1>1, <1>2, ShapeHolds, PTL DEF Spec

(* OP_CLOSURE takes every upvalue from where its variable is, for functions       *)
(* nested to any depth.                                                    *)
THEOREM UpvaluesLeadToVariables == Spec => []UpvaluesLead
<1>1. (Fine => Links) => UpvaluesLead
  BY DEF Fine, Links, AllMade, Made, UpvaluesLead
<1>2. QED BY LinksHold, <1>1, PTL

(* Two closures of one function over one variable share its upvalue.           *)
THEOREM UpvaluesAreDistinct == Spec => []UpvaluesDistinct
<1>1. (Fine => Links) => UpvaluesDistinct
  BY DEF Fine, Links, AllDistinct, UpvaluesDistinct
<1>2. QED BY LinksHold, <1>1, PTL

(* The index emitted for a name, also one kept while the value of its assignment *)
(* was compiled, is of the variable that the name was resolved to.             *)
THEOREM InstructionsLeadToVariables == Spec => []InstructionsLead
<1>1. (Fine => Links) => InstructionsLead
  BY DEF Fine, Links, IndicesHold, InstructionsLead
<1>2. QED BY LinksHold, <1>1, PTL

-----------------------------------------------------------------------------
(* Scope implements Lexical.  What a compiler stands for: the level, and the    *)
(* variables in scope.                                                     *)

Seen(local, level) ==
    [name |-> local.name,
     scope |-> IF local.level = Uninitialized THEN level ELSE local.level,
     ready |-> local.level # Uninitialized,
     taken |-> local.captured]

View(c) ==
    [level |-> c.level,
     variables |-> [i \in DOMAIN c.locals |-> Seen(c.locals[i], c.level)]]

Variables ==
    [name : Identifiers \cup {"this", "super", ""}, scope : Nat, ready : BOOLEAN, taken : BOOLEAN]
Views == [level : Nat, variables : Seq(Variables)]

LEMMA SameSequence ==
    ASSUME NEW S, NEW s \in Seq(S), NEW t \in Seq(S), Len(s) = Len(t),
           \A i \in 1 .. Len(s) : s[i] = t[i]
    PROVE  s = t
OBVIOUS

LEMMA SeenTypes ==
    ASSUME NEW local \in Locals, NEW level \in Nat
    PROVE  /\ Seen(local, level) \in Variables
           /\ Seen(local, level).name = local.name
           /\ Seen(local, level).ready = (local.level # Uninitialized)
           /\ Seen(local, level).scope = IF local.level = Uninitialized THEN level ELSE local.level
BY DEF Seen, Locals, Levels, Variables, Uninitialized

LEMMA ViewTypes ==
    ASSUME NEW c \in Compilers
    PROVE  /\ View(c) \in Views
           /\ View(c).level = c.level
           /\ View(c).variables \in Seq(Variables)
           /\ Len(View(c).variables) = Len(c.locals)
           /\ DOMAIN View(c).variables = 1 .. Len(c.locals)
           /\ \A i \in 1 .. Len(c.locals) : View(c).variables[i] = Seen(c.locals[i], c.level)
<1>1. /\ c.level \in Nat /\ c.locals \in Seq(Locals) /\ Len(c.locals) \in Nat
      /\ DOMAIN c.locals = 1 .. Len(c.locals)
  BY CompilerFields
<1> DEFINE l == Len(c.locals)
           vs == [i \in 1 .. l |-> Seen(c.locals[i], c.level)]
<1>2. \A i \in 1 .. l : Seen(c.locals[i], c.level) \in Variables
  BY <1>1, Element, SeenTypes
<1>3. vs \in Seq(Variables) /\ Len(vs) = l /\ DOMAIN vs = 1 .. l
  <2> HIDE DEF l
  <2>1. l \in Nat
    BY <1>1 DEF l
  <2>2. QED BY <1>2, <2>1
<1>4. \A i \in 1 .. l : vs[i] = Seen(c.locals[i], c.level)
  OBVIOUS
<1>5. View(c) = [level |-> c.level, variables |-> vs]
  BY <1>1 DEF View
<1> HIDE DEF vs
<1>6. QED BY <1>1, <1>3, <1>4, <1>5 DEF Views

(* Compilers with the same level and variables look the same.                *)
LEMMA SameView ==
    ASSUME NEW c, NEW d, c.level = d.level, c.locals = d.locals
    PROVE  View(c) = View(d)
BY DEF View

LEMMA ViewIs ==
    ASSUME NEW c \in Compilers, NEW level \in Nat, NEW vs \in Seq(Variables), c.level = level,
           Len(vs) = Len(c.locals),
           \A i \in 1 .. Len(vs) : vs[i] = Seen(c.locals[i], level)
    PROVE  View(c) = [level |-> level, variables |-> vs]
<1>1. /\ View(c).variables \in Seq(Variables) /\ Len(View(c).variables) = Len(vs)
      /\ \A i \in 1 .. Len(vs) : View(c).variables[i] = vs[i]
  BY ViewTypes
<1>2. View(c).variables = vs
  BY <1>1, SameSequence
<1>3. View(c) = [level |-> c.level, variables |-> View(c).variables]
  BY DEF View
<1>4. QED BY <1>2, <1>3

LEMMA AddView ==
    ASSUME NEW c, Formed(c), ~Full(c), NEW name \in Identifiers \cup {"super"}
    PROVE  View(add_local(c, name)) =
             [level |-> c.level,
              variables |-> Append(View(c).variables, L!Variable(name, c.level, FALSE))]
<1> DEFINE d == add_local(c, name)
           new == Local(name, Uninitialized)
           v == L!Variable(name, c.level, FALSE)
<1>1. /\ c \in Compilers /\ c.locals \in Seq(Locals) /\ Len(c.locals) \in Nat /\ c.level \in Nat
      /\ d \in Compilers /\ d.level = c.level
  BY CompilerFields, AddLocalForms DEF Formed
<1>2. d.locals = Append(c.locals, new)
  BY <1>1 DEF add_local, Compilers
<1>3. new \in Locals
  BY DEF Local, Locals, Levels, Uninitialized
<1>4. Seen(new, c.level) = v
  BY <1>1 DEF Seen, Local, L!Variable
<1>5. v \in Variables
  <2> HIDE DEF new, v
  <2>1. QED BY <1>1, <1>3, <1>4, SeenTypes
<1> DEFINE vs == Append(View(c).variables, v)
<1>6. /\ View(c).variables \in Seq(Variables) /\ Len(View(c).variables) = Len(c.locals)
      /\ \A i \in 1 .. Len(c.locals) : View(c).variables[i] = Seen(c.locals[i], c.level)
  BY <1>1, ViewTypes
<1>7. /\ vs \in Seq(Variables) /\ Len(vs) = Len(c.locals) + 1 /\ vs[Len(c.locals) + 1] = v
      /\ \A i \in 1 .. Len(c.locals) : vs[i] = Seen(c.locals[i], c.level)
  <2> HIDE DEF v
  <2>1. QED BY <1>5, <1>6, Longer
<1> HIDE DEF new, v, vs
<1>8. /\ Len(d.locals) = Len(c.locals) + 1 /\ d.locals[Len(c.locals) + 1] = new
      /\ \A i \in 1 .. Len(c.locals) : d.locals[i] = c.locals[i]
  BY <1>1, <1>2, <1>3, Longer
<1> HIDE DEF d
<1>9. ASSUME NEW i \in 1 .. Len(vs) PROVE vs[i] = Seen(d.locals[i], c.level)
  <2>1. i = Len(c.locals) + 1 \/ i \in 1 .. Len(c.locals)
    BY <1>1, <1>7
  <2>2. QED BY <1>4, <1>7, <1>8, <2>1
<1>10. View(d) = [level |-> c.level, variables |-> vs]
  BY <1>1, <1>7, <1>8, <1>9, ViewIs
<1>11. QED BY <1>10 DEF d, v, vs

LEMMA VariableIs ==
    ASSUME NEW v \in Variables
    PROVE  v = [name |-> v.name, scope |-> v.scope, ready |-> v.ready, taken |-> v.taken]
BY DEF Variables

LEMMA ReadyChanges ==
    ASSUME NEW v \in Variables
    PROVE  /\ [v EXCEPT !.ready = TRUE] \in Variables
           /\ [v EXCEPT !.ready = TRUE] =
                [name |-> v.name, scope |-> v.scope, ready |-> TRUE, taken |-> v.taken]
<1> DEFINE w == [v EXCEPT !.ready = TRUE]
<1>1. w \in Variables /\ w.name = v.name /\ w.scope = v.scope /\ w.taken = v.taken
  BY DEF Variables
<1>2. w.ready = TRUE
  BY Zenon DEF Variables
<1> HIDE DEF w
<1>3. QED BY <1>1, <1>2, VariableIs, Zenon DEF w

LEMMA TakenChanges ==
    ASSUME NEW v \in Variables, NEW t \in BOOLEAN
    PROVE  /\ [v EXCEPT !.taken = t] \in Variables
           /\ [v EXCEPT !.taken = t] =
                [name |-> v.name, scope |-> v.scope, ready |-> v.ready, taken |-> t]
<1> DEFINE w == [v EXCEPT !.taken = t]
<1>1. w \in Variables /\ w.name = v.name /\ w.scope = v.scope /\ w.ready = v.ready
  BY DEF Variables
<1>2. w.taken = t
  BY Zenon DEF Variables
<1> HIDE DEF w
<1>3. QED BY <1>1, <1>2, VariableIs, Zenon DEF w

LEMMA VariablesChange ==
    ASSUME NEW level, NEW vs, NEW ws
    PROVE  [[level |-> level, variables |-> vs] EXCEPT !.variables = ws]
             = [level |-> level, variables |-> ws]
OBVIOUS

(* The last variable is ready.                                             *)
LEMMA MarkView ==
    ASSUME NEW c, Formed(c), c.level > 0, Len(c.locals) > 1,
           c.locals[Len(c.locals)].level = Uninitialized
    PROVE  View(mark_initialized(c)) =
             [level |-> c.level,
              variables |-> [View(c).variables EXCEPT ![Len(c.locals)] =
                               [View(c).variables[Len(c.locals)] EXCEPT !.ready = TRUE]]]
<1> DEFINE d == mark_initialized(c)
           last == Len(c.locals)
           vs == View(c).variables
           v == vs[last]
           new == [v EXCEPT !.ready = TRUE]
           ws == [vs EXCEPT ![last] = new]
<1>1. /\ c \in Compilers /\ c.locals \in Seq(Locals) /\ last \in Nat /\ last > 1
      /\ c.level \in Nat /\ c.level > 0 /\ d \in Compilers /\ d.level = c.level
  BY CompilerFields, MarkForms DEF Formed
<1>2. /\ c.locals[last] \in Locals /\ last \in 1 .. Len(c.locals)
  BY <1>1
<1>3. d.locals = [c.locals EXCEPT ![last] = [c.locals[last] EXCEPT !.level = c.level]]
  BY <1>1 DEF mark_initialized, Compilers
<1>4. /\ Len(d.locals) = last /\ d.locals[last] = [c.locals[last] EXCEPT !.level = c.level]
      /\ \A i \in 1 .. last : i # last => d.locals[i] = c.locals[i]
  <2>1. [c.locals[last] EXCEPT !.level = c.level] \in Locals
    BY <1>1, <1>2 DEF Locals, Levels
  <2>2. QED BY <1>1, <1>2, <1>3, <2>1, Replaced
<1>5. /\ vs \in Seq(Variables) /\ Len(vs) = last
      /\ \A i \in 1 .. last : vs[i] = Seen(c.locals[i], c.level)
  BY <1>1, ViewTypes
<1>6. new = Seen([c.locals[last] EXCEPT !.level = c.level], c.level) /\ new \in Variables
  <2> DEFINE old == c.locals[last]
             now == [old EXCEPT !.level = c.level]
  <2>1. v = Seen(old, c.level)
    BY <1>2, <1>5
  <2>2. c.level # Uninitialized
    BY <1>1 DEF Uninitialized
  <2>3. now.level = c.level /\ now.name = old.name /\ now.captured = old.captured
    BY <1>2 DEF Locals
  <2>4. new = Seen(now, c.level) /\ new \in Variables
    <3>0. /\ old.level = Uninitialized /\ v = Seen(old, c.level) /\ v \in Variables
          /\ v.name = old.name /\ v.scope = c.level /\ v.taken = old.captured
      <4>1. v \in Variables
        BY <1>1, <1>2, <2>1, SeenTypes
      <4>2. old.level = Uninitialized
        OBVIOUS
      <4> HIDE DEF old, v
      <4>3. QED BY <2>1, <4>1, <4>2 DEF Seen
    <3> HIDE DEF old, now, v
    <3>2. new = [name |-> old.name, scope |-> c.level, ready |-> TRUE, taken |-> old.captured]
      BY <3>0, ReadyChanges, Zenon
    <3>3. Seen(now, c.level) =
            [name |-> old.name, scope |-> c.level, ready |-> TRUE, taken |-> old.captured]
      BY <2>2, <2>3 DEF Seen
    <3>4. new \in Variables
      BY <3>0, ReadyChanges
    <3>5. QED BY <3>2, <3>3, <3>4, Zenon
  <2>5. QED BY <2>4
<1> HIDE DEF new
<1>7. /\ ws \in Seq(Variables) /\ Len(ws) = last /\ ws[last] = new
      /\ \A i \in 1 .. last : i # last => ws[i] = vs[i]
  <2> HIDE DEF vs, last
  <2>1. last \in 1 .. Len(vs)
    BY <1>1, <1>5
  <2>2. QED BY <1>5, <1>6, <2>1, Replaced
<1> HIDE DEF ws, vs, d
<1>8. ASSUME NEW i \in 1 .. last PROVE ws[i] = Seen(d.locals[i], c.level)
  BY <1>4, <1>5, <1>6, <1>7
<1>9. View(d) = [level |-> c.level, variables |-> ws]
  <2> HIDE DEF last
  <2>1. Len(d.locals) = last
    BY <1>4
  <2>2. QED BY <1>1, <1>7, <1>8, <2>1, ViewIs
<1>10. QED BY <1>9 DEF d, ws, vs, new, last

LEMMA NewView ==
    ASSUME NEW type \in {"script", "function", "method"}, NEW level \in Nat
    PROVE  View(NewCompiler(type, level)) =
             L!NewFunction(IF type = "function" THEN "" ELSE "this", level)
<1> DEFINE d == NewCompiler(type, level)
           self == IF type = "function" THEN "" ELSE "this"
           v == L!Variable(self, 0, TRUE)
<1>1. /\ d \in Compilers /\ d.level = level /\ Len(d.locals) = 1
  BY NewForms DEF Formed, NewCompiler
<1>2. d.locals[1] = Local(self, 0)
  BY DEF NewCompiler
<1>3. Seen(Local(self, 0), level) = v
  <2>1. 0 # Uninitialized
    BY DEF Uninitialized
  <2>2. QED BY <2>1 DEF Seen, Local, L!Variable
<1>4. v \in Variables
  <2>1. Local(self, 0) \in Locals
    BY DEF Local, Locals, Levels
  <2> HIDE DEF v, self
  <2>2. QED BY <1>3, <2>1, SeenTypes
<1> HIDE DEF d, v
<1>5. <<v>> \in Seq(Variables) /\ Len(<<v>>) = 1 /\ <<v>>[1] = v
  BY <1>4
<1>6. View(d) = [level |-> level, variables |-> <<v>>]
  <2> DEFINE vs == <<v>>
  <2>1. vs \in Seq(Variables) /\ Len(vs) = 1 /\ vs[1] = v
    BY <1>5
  <2> HIDE DEF vs, self
  <2>2. \A i \in 1 .. Len(vs) : vs[i] = Seen(d.locals[i], level)
    <3>1. vs[1] = Seen(d.locals[1], level)
      BY <1>2, <1>3, <2>1
    <3>2. QED BY <2>1, <3>1
  <2>3. View(d) = [level |-> level, variables |-> vs]
    BY <1>1, <2>1, <2>2, ViewIs
  <2>4. QED BY <2>3 DEF vs
<1>7. QED BY <1>6 DEF d, v, self, L!NewFunction

(* The variables of c are all ready, in the order of their scopes.            *)
Settled(c, k) ==
    /\ \A i \in 1 .. k : c.locals[i].level \in 0 .. c.level
    /\ \A i, j \in 1 .. k : i <= j => c.locals[i].level <= c.locals[j].level

LEMMA SettledView ==
    ASSUME NEW c \in Compilers, NEW k \in 0 .. Len(c.locals), Settled(c, k), NEW i \in 1 .. k
    PROVE  /\ View(c).variables[i].scope = c.locals[i].level
           /\ View(c).variables[i].name = c.locals[i].name
           /\ c.locals[i].level # Uninitialized
           /\ c.locals[i].level \in Nat
           /\ \A level : Seen(c.locals[i], level) = Seen(c.locals[i], c.level)
<1>1. c.level \in Nat /\ i \in 1 .. Len(c.locals) /\ c.locals[i] \in Locals
  BY CompilerFields, Element
<1>2. c.locals[i].level \in 0 .. c.level
  BY DEF Settled
<1>3. c.locals[i].level # Uninitialized /\ c.locals[i].level \in Nat
  BY <1>1, <1>2 DEF Uninitialized
<1>4. View(c).variables[i] = Seen(c.locals[i], c.level)
  BY <1>1, ViewTypes
<1>5. \A level : Seen(c.locals[i], level) = Seen(c.locals[i], c.level)
  BY <1>3 DEF Seen
<1>6. QED BY <1>1, <1>3, <1>4, <1>5, SeenTypes

LEMMA OpeningView ==
    ASSUME NEW c, Formed(c), Settled(c, Len(c.locals)),
           NEW what \in {"block", "class", "subclass"},
           NEW levels, levels = IF what = "class" THEN 0 ELSE 1
    PROVE  View(Opening(c, what, levels)) =
             [level |-> c.level + levels, variables |-> View(c).variables]
<1> DEFINE d == Opening(c, what, levels)
           vs == View(c).variables
<1>1. /\ d \in Compilers /\ d.locals = c.locals /\ c \in Compilers
      /\ c.level \in Nat /\ levels \in Nat /\ Len(c.locals) \in Nat
  BY CompilerFields, OpeningForms DEF Formed
<1>2. d.level = c.level + levels
  BY <1>1 DEF Opening, Compilers
<1>3. /\ vs \in Seq(Variables) /\ Len(vs) = Len(c.locals)
      /\ \A i \in 1 .. Len(c.locals) : vs[i] = Seen(c.locals[i], c.level)
  BY <1>1, ViewTypes
<1>4. \A i \in 1 .. Len(c.locals) : \A level : Seen(c.locals[i], level) = Seen(c.locals[i], c.level)
  <2>1. Len(c.locals) \in 0 .. Len(c.locals)
    BY <1>1
  <2>2. QED BY <1>1, <2>1, SettledView
<1> HIDE DEF d, vs
<1>5. ASSUME NEW i \in 1 .. Len(vs) PROVE vs[i] = Seen(d.locals[i], d.level)
  <2>1. i \in 1 .. Len(c.locals)
    BY <1>3
  <2>2. Seen(c.locals[i], d.level) = Seen(c.locals[i], c.level)
    BY <1>4, <2>1
  <2>3. QED BY <1>1, <1>3, <2>1, <2>2
<1>6. View(d) = [level |-> d.level, variables |-> vs]
  <2>1. d.level \in Nat /\ Len(vs) = Len(d.locals)
    BY <1>1, <1>2, <1>3
  <2>2. QED BY <1>1, <1>3, <1>5, <2>1, ViewIs
<1>7. QED BY <1>2, <1>6 DEF d, vs

LEMMA LeavingView ==
    ASSUME NEW c, Formed(c), Settled(c, Len(c.locals)), NEW k \in 0 .. Len(c.locals),
           NEW l \in Nat, Formed(Leaving(Closing(c), l, k))
    PROVE  View(Leaving(Closing(c), l, k)) =
             [level |-> l, variables |-> SubSeq(View(c).variables, 1, k)]
<1> DEFINE d == Leaving(Closing(c), l, k)
           vs == View(c).variables
           ws == SubSeq(vs, 1, k)
<1>1. /\ c \in Compilers /\ d \in Compilers /\ Len(c.locals) \in Nat /\ c.locals \in Seq(Locals)
  BY CompilerFields DEF Formed
<1>2. d.level = l /\ d.locals = SubSeq(c.locals, 1, k)
  BY <1>1 DEF Leaving, Closing, Compilers
<1>3. /\ vs \in Seq(Variables) /\ Len(vs) = Len(c.locals)
      /\ \A i \in 1 .. Len(c.locals) : vs[i] = Seen(c.locals[i], c.level)
  BY <1>1, ViewTypes
<1>4. Len(d.locals) = k /\ \A i \in 1 .. k : d.locals[i] = c.locals[i]
  <2> HIDE DEF d
  <2>1. QED BY <1>1, <1>2, Prefix
<1>5. ws \in Seq(Variables) /\ Len(ws) = k /\ \A i \in 1 .. k : ws[i] = vs[i]
  <2> HIDE DEF vs
  <2>1. QED BY <1>3, Prefix
<1> HIDE DEF d, ws
<1>6. ASSUME NEW i \in 1 .. k PROVE ws[i] = Seen(d.locals[i], l)
  <2>1. i \in 1 .. Len(c.locals) /\ Len(c.locals) \in 0 .. Len(c.locals)
    BY <1>1
  <2>2. Seen(c.locals[i], l) = Seen(c.locals[i], c.level)
    BY <1>1, <2>1, SettledView
  <2>3. QED BY <1>3, <1>4, <1>5, <2>1, <2>2
<1> HIDE DEF vs
<1>7. View(d) = [level |-> l, variables |-> ws]
  BY <1>1, <1>2, <1>4, <1>5, <1>6, ViewIs
<1>8. QED BY <1>7 DEF d, ws, vs

LEMMA CapturedView ==
    ASSUME NEW c, Formed(c), NEW i \in DOMAIN c.locals
    PROVE  View(Captured(c, i)) =
             [level |-> c.level,
              variables |-> [View(c).variables EXCEPT ![i] =
                               [View(c).variables[i] EXCEPT !.taken = TRUE]]]
<1> DEFINE d == Captured(c, i)
           vs == View(c).variables
           v == vs[i]
           new == [v EXCEPT !.taken = TRUE]
           ws == [vs EXCEPT ![i] = new]
           old == c.locals[i]
           now == [old EXCEPT !.captured = TRUE]
<1>1. /\ c \in Compilers /\ d \in Compilers /\ d.level = c.level /\ c.locals \in Seq(Locals)
      /\ i \in 1 .. Len(c.locals) /\ Len(d.locals) = Len(c.locals) /\ c.level \in Nat
      /\ d.locals = [c.locals EXCEPT ![i] = now] /\ Len(c.locals) \in Nat
  BY CompilerFields, CapturedForms DEF Formed
<1>2. old \in Locals
  BY <1>1, Element
<1>3. now \in Locals /\ now.name = old.name /\ now.level = old.level
  BY <1>2 DEF Locals
<1>4. now.captured = TRUE
  BY <1>2, Zenon DEF Locals
<1>5. d.locals[i] = now /\ \A j \in 1 .. Len(c.locals) : j # i => d.locals[j] = c.locals[j]
  <2> HIDE DEF now, d
  <2>1. QED BY <1>1, <1>3, Replaced
<1>6. /\ vs \in Seq(Variables) /\ Len(vs) = Len(c.locals)
      /\ \A j \in 1 .. Len(c.locals) : vs[j] = Seen(c.locals[j], c.level)
  BY <1>1, ViewTypes
<1>7. v = Seen(old, c.level) /\ v \in Variables
  BY <1>1, <1>2, <1>6, SeenTypes
<1>8. v.name = old.name /\ v.scope = Seen(now, c.level).scope
  <2> HIDE DEF old, now, v
  <2>1. QED BY <1>3, <1>7 DEF Seen
<1>9. v.ready = (now.level # Uninitialized)
  <2> HIDE DEF v
  <2>1. QED BY <1>1, <1>2, <1>3, <1>7, SeenTypes
<1> HIDE DEF old, now, v
<1>10. Seen(now, c.level) = [name |-> v.name, scope |-> v.scope, ready |-> v.ready, taken |-> TRUE]
  <2>1. Seen(now, c.level) =
          [name |-> now.name, scope |-> Seen(now, c.level).scope,
           ready |-> now.level # Uninitialized, taken |-> now.captured]
    BY DEF Seen
  <2>2. QED BY <1>3, <1>4, <1>8, <1>9, <2>1, Zenon
<1>11. new = Seen(now, c.level) /\ new \in Variables
  <2>1. TRUE \in BOOLEAN
    OBVIOUS
  <2>2. QED BY <1>7, <1>10, <2>1, TakenChanges, Zenon
<1> HIDE DEF new
<1>12. /\ ws \in Seq(Variables) /\ Len(ws) = Len(c.locals) /\ ws[i] = new
       /\ \A j \in 1 .. Len(c.locals) : j # i => ws[j] = vs[j]
  <2> HIDE DEF vs
  <2>1. QED BY <1>1, <1>6, <1>11, Replaced
<1> HIDE DEF ws, vs, d
<1>13. ASSUME NEW j \in 1 .. Len(ws) PROVE ws[j] = Seen(d.locals[j], c.level)
  BY <1>1, <1>5, <1>6, <1>11, <1>12
<1>14. View(d) = [level |-> c.level, variables |-> ws]
  BY <1>1, <1>12, <1>13, ViewIs
<1>15. QED BY <1>14 DEF d, ws, vs, new, v

-----------------------------------------------------------------------------
(* What the compilers in use stand for.                                    *)

ViewsOf(fs) == [n \in DOMAIN fs |-> View(fs[n])]

LEMMA LexicalIs ==
    /\ LexicalFunctions = ViewsOf(functions)
    /\ LexicalFunctions' = ViewsOf(functions')
BY DEF LexicalFunctions, ViewsOf, View, Seen

LEMMA ViewsTypes ==
    ASSUME NEW fs \in Seq(Compilers)
    PROVE  /\ ViewsOf(fs) \in Seq(Views)
           /\ Len(ViewsOf(fs)) = Len(fs)
           /\ DOMAIN ViewsOf(fs) = 1 .. Len(fs)
           /\ Len(fs) \in Nat
           /\ \A n \in 1 .. Len(fs) : ViewsOf(fs)[n] = View(fs[n]) /\ fs[n] \in Compilers
<1> DEFINE l == Len(fs)
<1>1. l \in Nat /\ DOMAIN fs = 1 .. l
  OBVIOUS
<1>2. \A n \in 1 .. l : fs[n] \in Compilers /\ View(fs[n]) \in Views
  BY Element, ViewTypes
<1>3. ViewsOf(fs) = [n \in 1 .. l |-> View(fs[n])]
  BY <1>1 DEF ViewsOf
<1> HIDE DEF l
<1>4. /\ [n \in 1 .. l |-> View(fs[n])] \in Seq(Views)
      /\ Len([n \in 1 .. l |-> View(fs[n])]) = l
  BY <1>1, <1>2
<1>5. QED BY <1>1, <1>2, <1>3, <1>4 DEF l

LEMMA ViewsUpdate ==
    ASSUME NEW fs \in Seq(Compilers), NEW n \in 1 .. Len(fs), NEW c \in Compilers
    PROVE  ViewsOf([fs EXCEPT ![n] = c]) = [ViewsOf(fs) EXCEPT ![n] = View(c)]
<1> DEFINE gs == [fs EXCEPT ![n] = c]
           vs == [ViewsOf(fs) EXCEPT ![n] = View(c)]
<1>1. /\ gs \in Seq(Compilers) /\ Len(gs) = Len(fs) /\ gs[n] = c
      /\ \A i \in 1 .. Len(fs) : i # n => gs[i] = fs[i]
  BY Replaced
<1>2. View(c) \in Views /\ ViewsOf(fs) \in Seq(Views) /\ Len(ViewsOf(fs)) = Len(fs)
  BY ViewTypes, ViewsTypes
<1>3. /\ vs \in Seq(Views) /\ Len(vs) = Len(fs) /\ vs[n] = View(c)
      /\ \A i \in 1 .. Len(fs) : i # n => vs[i] = ViewsOf(fs)[i]
  BY <1>2, Replaced
<1> HIDE DEF gs, vs
<1>4. \A i \in 1 .. Len(fs) : ViewsOf(gs)[i] = vs[i]
  BY <1>1, <1>3, ViewsTypes
<1>5. ViewsOf(gs) \in Seq(Views) /\ Len(ViewsOf(gs)) = Len(fs)
  BY <1>1, ViewsTypes
<1>6. ViewsOf(gs) = vs
  BY <1>3, <1>4, <1>5, SameSequence
<1>7. QED BY <1>6 DEF gs, vs

LEMMA ViewsPush ==
    ASSUME NEW fs \in Seq(Compilers), NEW c \in Compilers
    PROVE  ViewsOf(Append(fs, c)) = Append(ViewsOf(fs), View(c))
<1> DEFINE gs == Append(fs, c)
           vs == Append(ViewsOf(fs), View(c))
           l == Len(fs)
<1>1. /\ gs \in Seq(Compilers) /\ Len(gs) = l + 1 /\ gs[l + 1] = c
      /\ \A i \in 1 .. l : gs[i] = fs[i]
  BY Longer
<1>2. View(c) \in Views /\ ViewsOf(fs) \in Seq(Views) /\ Len(ViewsOf(fs)) = l /\ l \in Nat
  BY ViewTypes, ViewsTypes
<1>3. /\ vs \in Seq(Views) /\ Len(vs) = l + 1 /\ vs[l + 1] = View(c)
      /\ \A i \in 1 .. l : vs[i] = ViewsOf(fs)[i]
  <2> HIDE DEF l
  <2>1. QED BY <1>2, Longer
<1>4. \A i \in 1 .. l : ViewsOf(fs)[i] = View(fs[i])
  BY ViewsTypes
<1> HIDE DEF gs, vs, l
<1>5. /\ ViewsOf(gs) \in Seq(Views) /\ Len(ViewsOf(gs)) = l + 1
      /\ \A i \in 1 .. l + 1 : ViewsOf(gs)[i] = View(gs[i])
  BY <1>1, ViewsTypes
<1>6. ASSUME NEW i \in 1 .. l + 1 PROVE ViewsOf(gs)[i] = vs[i]
  <2>1. i = l + 1 \/ i \in 1 .. l
    BY <1>2
  <2>2. QED BY <1>1, <1>3, <1>4, <1>5, <2>1
<1>7. ViewsOf(gs) = vs
  BY <1>3, <1>5, <1>6, SameSequence
<1>8. QED BY <1>7 DEF gs, vs

LEMMA ViewsPop ==
    ASSUME NEW fs \in Seq(Compilers), NEW n \in 0 .. Len(fs)
    PROVE  ViewsOf(SubSeq(fs, 1, n)) = SubSeq(ViewsOf(fs), 1, n)
<1> DEFINE gs == SubSeq(fs, 1, n)
           vs == SubSeq(ViewsOf(fs), 1, n)
<1>1. gs \in Seq(Compilers) /\ Len(gs) = n /\ \A i \in 1 .. n : gs[i] = fs[i]
  BY Prefix
<1>2. /\ ViewsOf(fs) \in Seq(Views) /\ Len(ViewsOf(fs)) = Len(fs) /\ Len(fs) \in Nat
      /\ \A i \in 1 .. Len(fs) : ViewsOf(fs)[i] = View(fs[i])
  BY ViewsTypes
<1>3. vs \in Seq(Views) /\ Len(vs) = n /\ \A i \in 1 .. n : vs[i] = ViewsOf(fs)[i]
  BY <1>2, Prefix
<1> HIDE DEF gs, vs
<1>4. /\ ViewsOf(gs) \in Seq(Views) /\ Len(ViewsOf(gs)) = n
      /\ \A i \in 1 .. n : ViewsOf(gs)[i] = View(gs[i])
  BY <1>1, ViewsTypes
<1>5. ASSUME NEW i \in 1 .. n PROVE ViewsOf(gs)[i] = vs[i]
  <2>1. i \in 1 .. Len(fs)
    BY <1>2
  <2>2. QED BY <1>1, <1>2, <1>3, <1>4, <2>1
<1>6. ViewsOf(gs) = vs
  BY <1>3, <1>4, <1>5, SameSequence
<1>7. QED BY <1>6 DEF gs, vs

(* The innermost function of Lexical.                                      *)
LEMMA LexicalTop ==
    ASSUME AllFormed
    PROVE  /\ L!F = F
           /\ L!Innermost = View(compiler)
           /\ LexicalFunctions[F] = View(compiler)
           /\ DOMAIN LexicalFunctions = 1 .. F
           /\ \A n \in 1 .. F : LexicalFunctions[n] = View(functions[n])
<1>1. functions \in Seq(Compilers) /\ F \in 1 .. Len(functions) /\ F = Len(functions)
  BY TopFacts DEF AllFormed, F
<1>2. LexicalFunctions = ViewsOf(functions)
  BY LexicalIs
<1>3. /\ Len(LexicalFunctions) = F /\ DOMAIN LexicalFunctions = 1 .. F
      /\ \A n \in 1 .. F : LexicalFunctions[n] = View(functions[n])
  BY <1>1, <1>2, ViewsTypes
<1>4. QED BY <1>1, <1>3 DEF L!F, L!Innermost, compiler

LEMMA LexicalUpdate ==
    ASSUME AllFormed, NEW n \in DOMAIN functions, NEW c, Formed(c),
           functions' = [functions EXCEPT ![n] = c]
    PROVE  LexicalFunctions' = [LexicalFunctions EXCEPT ![n] = View(c)]
<1>1. functions \in Seq(Compilers) /\ n \in 1 .. Len(functions) /\ c \in Compilers
  BY TopFacts DEF AllFormed, F, Formed
<1>2. ViewsOf(functions') = [ViewsOf(functions) EXCEPT ![n] = View(c)]
  BY <1>1, ViewsUpdate
<1>3. QED BY <1>2, LexicalIs

(* A name that is resolved is one step of Lexical.                           *)
LEMMA Answers ==
    /\ search = Idle => LexicalAnswer = L!None
    /\ search.step = "find" => LexicalAnswer = L!None
    /\ search.step \in {"add", "done"} => LexicalAnswer = search.of
BY DEF LexicalAnswer, L!None, Idle

LEMMA AnswersNext ==
    /\ search' = Idle => LexicalAnswer' = L!None
    /\ search'.step = "find" => LexicalAnswer' = L!None
    /\ search'.step \in {"add", "done"} => LexicalAnswer' = search'.of
BY DEF LexicalAnswer, L!None, Idle

-----------------------------------------------------------------------------
(* The order of the locals.                                                *)

LEMMA SettledSame ==
    ASSUME NEW c, NEW d, NEW k, Settled(c, k), d.level = c.level,
           \A i \in 1 .. k : d.locals[i].level = c.locals[i].level
    PROVE  Settled(d, k)
BY DEF Settled

LEMMA SettledAdd ==
    ASSUME NEW c, Formed(c), ~Full(c), NEW name \in Identifiers \cup {"super"},
           Settled(c, Len(c.locals))
    PROVE  /\ Len(add_local(c, name).locals) = Len(c.locals) + 1
           /\ add_local(c, name).locals[Len(c.locals) + 1].level = Uninitialized
           /\ add_local(c, name).locals[Len(c.locals) + 1].name = name
           /\ Settled(add_local(c, name), Len(c.locals))
<1> DEFINE d == add_local(c, name)
<1>1. c \in Compilers /\ c.locals \in Seq(Locals) /\ Len(c.locals) \in Nat /\ d.level = c.level
  BY CompilerFields, AddLocalForms DEF Formed
<1>2. d.locals = Append(c.locals, Local(name, Uninitialized))
  BY <1>1 DEF add_local, Compilers
<1>3. Local(name, Uninitialized) \in Locals
  BY DEF Local, Locals, Levels, Uninitialized
<1>4. /\ Len(d.locals) = Len(c.locals) + 1
      /\ d.locals[Len(c.locals) + 1] = Local(name, Uninitialized)
      /\ \A i \in 1 .. Len(c.locals) : d.locals[i] = c.locals[i]
  <2> HIDE DEF d
  <2>1. QED BY <1>1, <1>2, <1>3, Longer
<1> HIDE DEF d
<1>5. Settled(d, Len(c.locals))
  BY <1>1, <1>4, SettledSame
<1>6. QED BY <1>4, <1>5 DEF Local, d

LEMMA SettledMark ==
    ASSUME NEW c, Formed(c), c.level > 0, Len(c.locals) > 1, Settled(c, Len(c.locals) - 1)
    PROVE  /\ Settled(mark_initialized(c), Len(mark_initialized(c).locals))
           /\ Len(mark_initialized(c).locals) = Len(c.locals)
<1> DEFINE d == mark_initialized(c)
           last == Len(c.locals)
           now == [c.locals[last] EXCEPT !.level = c.level]
<1>1. /\ c \in Compilers /\ c.locals \in Seq(Locals) /\ last \in Nat /\ last > 1
      /\ c.level \in Nat /\ d.level = c.level
  BY CompilerFields, MarkForms DEF Formed
<1>2. c.locals[last] \in Locals /\ last \in 1 .. Len(c.locals)
  BY <1>1
<1>3. d.locals = [c.locals EXCEPT ![last] = now]
  BY <1>1 DEF mark_initialized, Compilers
<1>4. now \in Locals /\ now.level = c.level
  BY <1>1, <1>2 DEF Locals, Levels
<1>5. /\ Len(d.locals) = last /\ d.locals[last] = now
      /\ \A i \in 1 .. last : i # last => d.locals[i] = c.locals[i]
  <2> HIDE DEF now, d
  <2>1. QED BY <1>1, <1>2, <1>3, <1>4, Replaced
<1> HIDE DEF d, now
<1>6. \A i \in 1 .. last : i # last => i \in 1 .. last - 1
  <2>0. last = Len(c.locals)
    BY DEF last
  <2> HIDE DEF last
  <2>1. QED BY <1>1
<1>7. \A i \in 1 .. last : d.locals[i].level \in 0 .. c.level /\ (i = last => d.locals[i].level = c.level)
  <2>1. \A i \in 1 .. last : i # last => d.locals[i].level \in 0 .. c.level
    BY <1>5, <1>6 DEF Settled
  <2>2. d.locals[last].level \in 0 .. c.level
    BY <1>1, <1>4, <1>5
  <2>3. QED BY <1>4, <1>5, <2>1, <2>2
<1>8. ASSUME NEW i \in 1 .. last, NEW j \in 1 .. last, i <= j
      PROVE  d.locals[i].level <= d.locals[j].level
  <2>1. CASE j = last
    <3>1. d.locals[j].level = c.level /\ d.locals[i].level \in 0 .. c.level
      BY <1>7, <2>1
    <3>2. QED BY <1>1, <3>1
  <2>2. CASE j # last
    <3>1. i # last
      BY <1>1, <1>8, <2>2
    <3>2. QED BY <1>5, <1>6, <1>8, <2>2, <3>1 DEF Settled
  <2>3. QED BY <2>1, <2>2
<1>9. Settled(d, last)
  BY <1>1, <1>7, <1>8 DEF Settled
<1>10. QED BY <1>5, <1>9 DEF d

LEMMA SettledOpening ==
    ASSUME NEW c, Formed(c), Settled(c, Len(c.locals)),
           NEW what \in {"block", "class", "subclass"},
           NEW levels, levels = IF what = "class" THEN 0 ELSE 1
    PROVE  Settled(Opening(c, what, levels), Len(Opening(c, what, levels).locals))
<1> DEFINE d == Opening(c, what, levels)
<1>1. c.level \in Nat /\ levels \in Nat /\ c \in Compilers /\ d.locals = c.locals
  BY CompilerFields, OpeningForms DEF Formed
<1>2. d.level = c.level + levels
  BY <1>1 DEF Opening, Compilers
<1> HIDE DEF d
<1>3. \A i \in 1 .. Len(c.locals) : d.locals[i].level \in 0 .. d.level
  <2>1. \A n \in 0 .. c.level : n \in 0 .. d.level
    BY <1>1, <1>2
  <2>2. QED BY <1>1, <2>1 DEF Settled
<1>4. Settled(d, Len(d.locals))
  BY <1>1, <1>3 DEF Settled
<1>5. QED BY <1>4 DEF d

LEMMA SettledLeaving ==
    ASSUME NEW c, Formed(c), Settled(c, Len(c.locals)), NEW k \in 0 .. Len(c.locals),
           NEW l \in Nat, l = c.level \/ (k # 0 => c.locals[k].level <= l),
           Formed(Leaving(Closing(c), l, k))
    PROVE  Settled(Leaving(Closing(c), l, k), Len(Leaving(Closing(c), l, k).locals))
<1> DEFINE d == Leaving(Closing(c), l, k)
<1>1. c \in Compilers /\ c.locals \in Seq(Locals) /\ Len(c.locals) \in Nat /\ c.level \in Nat
  BY CompilerFields DEF Formed
<1>2. d.level = l /\ d.locals = SubSeq(c.locals, 1, k)
  BY <1>1 DEF Leaving, Closing, Compilers
<1>3. Len(d.locals) = k /\ \A i \in 1 .. k : d.locals[i] = c.locals[i]
  <2> HIDE DEF d
  <2>1. QED BY <1>1, <1>2, Prefix
<1> HIDE DEF d
<1>4. ASSUME NEW i \in 1 .. k
      PROVE  i \in 1 .. Len(c.locals) /\ c.locals[i].level \in 0 .. l
  <2>1. /\ i \in 1 .. Len(c.locals) /\ k \in 1 .. Len(c.locals) /\ i <= k /\ k # 0
    BY <1>1
  <2>2. c.locals[i].level \in 0 .. c.level /\ c.locals[i].level <= c.locals[k].level
        /\ c.locals[k].level \in 0 .. c.level
    BY <2>1 DEF Settled
  <2>3. c.locals[i].level \in 0 .. l
    BY <1>1, <2>1, <2>2
  <2>4. QED BY <2>1, <2>3
<1>5. Settled(d, k)
  BY <1>1, <1>2, <1>3, <1>4 DEF Settled
<1>6. QED BY <1>3, <1>5 DEF d

LEMMA SettledNew ==
    ASSUME NEW type \in {"script", "function", "method"}, NEW level \in Nat
    PROVE  Settled(NewCompiler(type, level), Len(NewCompiler(type, level).locals))
<1> DEFINE d == NewCompiler(type, level)
<1>1. Len(d.locals) = 1 /\ d.level = level /\ d.locals[1].level = 0
  <2>1. Len(d.locals) = 1
    BY NewForms
  <2>2. QED BY <2>1 DEF NewCompiler, Local
<1> HIDE DEF d
<1>2. Settled(d, 1)
  BY <1>1 DEF Settled
<1>3. QED BY <1>1, <1>2 DEF d

(* With every local settled, a name is declared again if a variable of the       *)
(* scope has it.                                                           *)
LEMMA RedeclaresView ==
    ASSUME NEW c, Formed(c), Settled(c, Len(c.locals)), NEW name
    PROVE  Redeclares(c, name) <=>
             \E i \in DOMAIN View(c).variables :
                /\ View(c).variables[i].name = name
                /\ View(c).variables[i].scope = c.level
<1>1. /\ c \in Compilers /\ Len(c.locals) \in Nat /\ DOMAIN c.locals = 1 .. Len(c.locals)
      /\ c.level \in Nat /\ Len(c.locals) \in 0 .. Len(c.locals)
  BY CompilerFields DEF Formed
<1>2. DOMAIN View(c).variables = 1 .. Len(c.locals)
  BY <1>1, ViewTypes
<1>3. \A i \in 1 .. Len(c.locals) :
        /\ View(c).variables[i].scope = c.locals[i].level
        /\ View(c).variables[i].name = c.locals[i].name
        /\ c.locals[i].level # Uninitialized
  BY <1>1, SettledView
<1>4. ASSUME NEW i \in 1 .. Len(c.locals)
      PROVE  (\A j \in i .. Len(c.locals) :
                  c.locals[j].level = Uninitialized \/ c.locals[j].level >= c.level)
             <=> c.locals[i].level = c.level
  <2>1. ASSUME \A j \in i .. Len(c.locals) :
                  c.locals[j].level = Uninitialized \/ c.locals[j].level >= c.level
        PROVE  c.locals[i].level = c.level
    <3>1. i \in i .. Len(c.locals) /\ c.locals[i].level \in 0 .. c.level
      BY <1>1 DEF Settled
    <3>2. c.locals[i].level >= c.level
      BY <1>3, <2>1, <3>1
    <3>3. QED BY <1>1, <3>1, <3>2
  <2>2. ASSUME c.locals[i].level = c.level, NEW j \in i .. Len(c.locals)
        PROVE  c.locals[j].level >= c.level
    <3>1. j \in 1 .. Len(c.locals) /\ i <= j
      BY <1>1
    <3>2. c.locals[i].level <= c.locals[j].level /\ c.locals[j].level \in 0 .. c.level
      BY <3>1 DEF Settled
    <3>3. QED BY <1>1, <2>2, <3>2
  <2>3. QED BY <2>1, <2>2
<1>5. Redeclares(c, name) <=>
        \E i \in 1 .. Len(c.locals) : c.locals[i].name = name /\ c.locals[i].level = c.level
  BY <1>1, <1>4 DEF Redeclares
<1>6. (\E i \in DOMAIN View(c).variables :
          View(c).variables[i].name = name /\ View(c).variables[i].scope = c.level)
        <=> \E i \in 1 .. Len(c.locals) : c.locals[i].name = name /\ c.locals[i].level = c.level
  BY <1>2, <1>3
<1>7. QED BY <1>5, <1>6

-----------------------------------------------------------------------------
(* The locals of every function are in the order of their scopes, but for one      *)
(* whose initializer is being compiled, and a name that is looked for is none    *)
(* of the functions passed.                                                *)

Whole(c) == Settled(c, Len(c.locals))

Proper(c, place) ==
    /\ IF place = "initializer" /\ c.level > 0
       THEN /\ Settled(c, Len(c.locals) - 1)
            /\ c.locals[Len(c.locals)].level = Uninitialized
       ELSE Whole(c)
    /\ place = "superclass" =>
            c.level > 0 /\ \A i \in DOMAIN c.locals : c.locals[i].level < c.level

Passed ==
    search.step = "find" =>
        \A m \in DOMAIN functions : m > search.at =>
            \A i \in DOMAIN functions[m].locals : functions[m].locals[i].name # search.name

Lexes ==
    /\ Proper(compiler, phase)
    /\ \A n \in 1 .. F - 1 : Whole(functions[n])
    /\ Passed

Mapped == L!Next \/ UNCHANGED <<LexicalFunctions, LexicalAnswer, error>>

LEMMA TopLexes ==
    ASSUME AllFormed, Lexes, NEW c, Formed(c), functions' = [functions EXCEPT ![F] = c],
           search' = Idle, Proper(c, phase')
    PROVE  Lexes'
<1>1. F \in Nat /\ DOMAIN functions = 1 .. F /\ F \in DOMAIN functions
  BY TopFacts
<1>2. /\ F' = F /\ functions'[F] = c
      /\ \A m \in DOMAIN functions : m # F => functions'[m] = functions[m]
  BY <1>1, UpdateForms
<1>3. compiler' = c
  BY <1>2 DEF compiler
<1>4. \A n \in 1 .. F - 1 : functions'[n] = functions[n]
  BY <1>1, <1>2
<1>5. Passed'
  BY DEF Passed, Idle
<1>6. Proper(compiler, phase)'
  BY <1>3 DEF Proper, Whole, Settled
<1>7. (\A n \in 1 .. F - 1 : Whole(functions[n]))'
  BY <1>2, <1>4 DEF Lexes, Whole, Settled
<1>8. QED BY <1>5, <1>6, <1>7 DEF Lexes

LEMMA LexicalChanges ==
    ASSUME AllFormed, NEW vs, NEW level, NEW c, Formed(c), functions' = [functions EXCEPT ![F] = c],
           View(c) = [level |-> level, variables |-> vs]
    PROVE  LexicalFunctions' =
             [LexicalFunctions EXCEPT ![L!F] = [level |-> level, variables |-> vs]]
<1>1. F \in DOMAIN functions /\ L!F = F
  BY TopFacts, LexicalTop
<1>2. QED BY <1>1, LexicalUpdate, Zenon

LEMMA TopView ==
    ASSUME AllFormed
    PROVE  /\ L!Innermost = [level |-> compiler.level, variables |-> View(compiler).variables]
           /\ L!Innermost.level = compiler.level
           /\ L!Innermost.variables = View(compiler).variables
           /\ LexicalFunctions[L!F] = L!Innermost
<1>1. View(compiler) = [level |-> compiler.level, variables |-> View(compiler).variables]
  BY DEF View
<1>2. L!Innermost = View(compiler) /\ LexicalFunctions[L!F] = L!Innermost
  BY LexicalTop DEF L!Innermost
<1>3. View(compiler).level = compiler.level
  BY DEF View
<1>4. QED BY <1>1, <1>2, <1>3

LEMMA LevelChange ==
    ASSUME NEW level, NEW vs, NEW l
    PROVE  [[level |-> level, variables |-> vs] EXCEPT !.level = l] = [level |-> l, variables |-> vs]
OBVIOUS

(* A declaration.                                                          *)
LEMMA DeclareMaps ==
    ASSUME AllFormed, Fine, search = Idle, search' = Idle, Whole(compiler), compiler.level > 0,
           NEW name \in Identifiers \cup {"super"}, NEW ready \in BOOLEAN,
           NEW c, Formed(c), functions' = [functions EXCEPT ![F] = c],
           ~Full(compiler) =>
              View(c) = [level |-> compiler.level,
                         variables |-> Append(View(compiler).variables,
                                              L!Variable(name, compiler.level, ready))],
           Report(IF Redeclares(compiler, name) THEN "redeclared"
                  ELSE IF Full(compiler) THEN "limit" ELSE "")
    PROVE  L!Next
<1>1. /\ L!Innermost.level = compiler.level
      /\ L!Innermost.variables = View(compiler).variables
      /\ LexicalFunctions[L!F] = [level |-> compiler.level, variables |-> View(compiler).variables]
      /\ LexicalFunctions[L!F].variables = View(compiler).variables
  BY TopView, Zenon
<1>2. L!Same
  BY Answers, AnswersNext DEF L!Same
<1>3. error = "" /\ Formed(compiler) /\ name \in Names
  BY TopFacts DEF Fine, Names
<1>4. L!Redeclared(name) <=> Redeclares(compiler, name)
  <2>1. Redeclares(compiler, name) <=>
             \E i \in DOMAIN View(compiler).variables :
                /\ View(compiler).variables[i].name = name
                /\ View(compiler).variables[i].scope = compiler.level
    BY <1>3, RedeclaresView DEF Whole
  <2>2. L!Redeclared(name) <=>
             \E i \in DOMAIN L!Innermost.variables :
                /\ L!Innermost.variables[i].name = name
                /\ L!Innermost.variables[i].scope = L!Innermost.level
    BY DEF L!Redeclared
  <2>3. QED BY <1>1, <2>1, <2>2, Zenon
<1>5. CASE Redeclares(compiler, name)
  <2>1. error' = "redeclared"
    BY <1>3, <1>5 DEF Report
  <2>2. L!Declare(name, ready)
    BY <1>1, <1>2, <1>4, <1>5, <2>1 DEF L!Declare
  <2>3. QED BY <1>3, <2>2 DEF L!Next
<1>6. CASE ~Redeclares(compiler, name) /\ Full(compiler)
  <2>1. L!Limit
    BY <1>3, <1>6 DEF Report, L!Limit
  <2>2. QED BY <1>3, <2>1 DEF L!Next
<1>7. CASE ~Redeclares(compiler, name) /\ ~Full(compiler)
  <2> DEFINE vs == View(compiler).variables
             ws == Append(vs, L!Variable(name, compiler.level, ready))
  <2>1. LexicalFunctions' =
          [LexicalFunctions EXCEPT ![L!F] = [level |-> compiler.level, variables |-> ws]]
    BY <1>7, LexicalChanges
  <2>2. LexicalFunctions[L!F].variables = vs
    BY <1>1
  <2>3. LexicalFunctions' =
          [LexicalFunctions EXCEPT ![L!F] = [LexicalFunctions[L!F] EXCEPT !.variables = ws]]
    <3> HIDE DEF ws, vs
    <3>1. LexicalFunctions[L!F] = [level |-> compiler.level, variables |-> vs]
      BY <1>1 DEF vs
    <3>2. [[level |-> compiler.level, variables |-> vs] EXCEPT !.variables = ws] =
            [level |-> compiler.level, variables |-> ws]
      BY VariablesChange
    <3>3. [LexicalFunctions[L!F] EXCEPT !.variables = ws] =
            [level |-> compiler.level, variables |-> ws]
      BY <3>1, <3>2, Zenon
    <3>4. QED BY <2>1, <3>3, Zenon
  <2>4. LexicalFunctions' =
          [LexicalFunctions EXCEPT ![L!F].variables =
              Append(@, L!Variable(name, L!Innermost.level, ready))]
    BY <1>1, <2>2, <2>3, Zenon
  <2>5. error' = error
    BY <1>3, <1>7 DEF Report
  <2>6. L!Declare(name, ready)
    BY <1>1, <1>2, <1>4, <1>7, <2>4, <2>5 DEF L!Declare
  <2>7. QED BY <1>3, <2>6 DEF L!Next
<1>8. QED BY <1>5, <1>6, <1>7

LEMMA NothingMapped ==
    ASSUME functions' = functions, LexicalAnswer' = LexicalAnswer, error' = error
    PROVE  Mapped
<1>1. LexicalFunctions' = LexicalFunctions
  BY LexicalIs
<1>2. QED BY <1>1 DEF Mapped

LEMMA VarDeclarationMaps ==
    ASSUME AllFormed, Lexes, Fine, NEW name \in Identifiers, VarDeclaration(name)
    PROVE  Mapped /\ (Fine' => Lexes')
<1> DEFINE c == declare_variable(compiler, name)
<1>1. /\ Formed(compiler) /\ F \in DOMAIN functions /\ compiler = functions[F]
      /\ functions \in Seq(Compilers) /\ compiler.level \in Nat
  BY TopFacts, CompilerFields DEF AllFormed, compiler, Formed
<1>2. /\ search = Idle /\ search' = Idle /\ phase = "statement" /\ phase' = "initializer"
      /\ Report(DeclareError(compiler, name))
      /\ functions' = [functions EXCEPT ![F] = c]
  BY <1>1 DEF VarDeclaration, In
<1>3. Formed(c) /\ c.level = compiler.level
  BY <1>1, DeclareForms
<1>4. Whole(compiler)
  BY <1>2 DEF Lexes, Proper
<1>5. CASE compiler.level = 0
  <2>1. c = compiler
    BY <1>5 DEF declare_variable
  <2>2. functions' = functions
    BY <1>1, <1>2, <2>1
  <2>3. error' = error
    BY <1>2, <1>5 DEF DeclareError, Report, Fine
  <2>4. LexicalAnswer' = LexicalAnswer
    BY <1>2 DEF LexicalAnswer
  <2>5. Proper(compiler, phase')
    BY <1>2, <1>4, <1>5 DEF Proper
  <2>6. Lexes'
    BY <1>1, <1>2, <1>3, <2>1, <2>5, TopLexes
  <2>7. QED BY <2>2, <2>3, <2>4, <2>6, NothingMapped
<1>6. CASE compiler.level # 0
  <2>1. c = add_local(compiler, name) /\ compiler.level > 0
    BY <1>1, <1>6 DEF declare_variable
  <2>2. Report(IF Redeclares(compiler, name) THEN "redeclared"
               ELSE IF Full(compiler) THEN "limit" ELSE "")
    BY <1>2, <1>6 DEF DeclareError
  <2>3. ~Full(compiler) =>
           View(c) = [level |-> compiler.level,
                      variables |-> Append(View(compiler).variables,
                                           L!Variable(name, compiler.level, FALSE))]
    BY <1>1, <2>1, AddView
  <2>4. L!Next
    <3>1. FALSE \in BOOLEAN /\ name \in Identifiers \cup {"super"}
      OBVIOUS
    <3> HIDE DEF c
    <3>2. QED BY <1>2, <1>3, <1>4, <2>1, <2>2, <2>3, <3>1, DeclareMaps
  <2>5. ASSUME Fine' PROVE Lexes'
    <3>1. ~Full(compiler)
      BY <2>2, <2>5 DEF Report, Fine
    <3>2. /\ Len(c.locals) = Len(compiler.locals) + 1
          /\ c.locals[Len(compiler.locals) + 1].level = Uninitialized
          /\ Settled(c, Len(compiler.locals))
      BY <1>1, <1>4, <2>1, <3>1, SettledAdd DEF Whole
    <3>3. Len(compiler.locals) \in Nat
      BY <1>1, CompilerFields DEF Formed
    <3> HIDE DEF c
    <3>4. Len(c.locals) - 1 = Len(compiler.locals)
      BY <3>2, <3>3
    <3>5. Proper(c, phase')
      BY <1>2, <1>3, <2>1, <3>2, <3>4 DEF Proper
    <3>6. QED BY <1>2, <1>3, <3>5, TopLexes
  <2>6. QED BY <2>4, <2>5 DEF Mapped
<1>7. QED BY <1>5, <1>6

(* A variable that is declared and ready at once.                            *)
LEMMA DeclaredView ==
    ASSUME NEW c, Formed(c), c.level > 0, ~Full(c), NEW name \in Identifiers \cup {"super"}
    PROVE  View(mark_initialized(add_local(c, name))) =
             [level |-> c.level,
              variables |-> Append(View(c).variables, L!Variable(name, c.level, TRUE))]
<1> DEFINE d == add_local(c, name)
           vs == View(c).variables
           v == L!Variable(name, c.level, FALSE)
           w == L!Variable(name, c.level, TRUE)
           last == Len(c.locals) + 1
<1>1. /\ c \in Compilers /\ c.locals \in Seq(Locals) /\ Len(c.locals) \in Nat /\ c.level \in Nat
      /\ Formed(d) /\ d.level = c.level /\ Len(d.locals) > 1
  BY CompilerFields, AddLocalForms DEF Formed
<1>2. Len(d.locals) = last /\ d.locals[last].level = Uninitialized
  <2>1. Local(name, Uninitialized) \in Locals
    BY DEF Local, Locals, Levels, Uninitialized
  <2>2. d.locals = Append(c.locals, Local(name, Uninitialized))
    BY <1>1 DEF add_local, Compilers
  <2>3. Local(name, Uninitialized).level = Uninitialized
    BY DEF Local
  <2> HIDE DEF d
  <2>4. QED BY <1>1, <2>1, <2>2, <2>3, Longer
<1>3. View(d) = [level |-> c.level, variables |-> Append(vs, v)]
  BY AddView
<1>4. View(mark_initialized(d)) =
        [level |-> d.level,
         variables |-> [View(d).variables EXCEPT ![last] =
                          [View(d).variables[last] EXCEPT !.ready = TRUE]]]
  <2> HIDE DEF d, last
  <2>1. View(mark_initialized(d)) =
        [level |-> d.level,
         variables |-> [View(d).variables EXCEPT ![Len(d.locals)] =
                          [View(d).variables[Len(d.locals)] EXCEPT !.ready = TRUE]]]
    BY <1>1, <1>2, MarkView
  <2>2. QED BY <1>2, <2>1, Zenon
<1>5. vs \in Seq(Variables) /\ Len(vs) = Len(c.locals)
  BY <1>1, ViewTypes
<1>6. v \in Variables /\ w \in Variables
  BY <1>1 DEF L!Variable, Variables
<1>7. [v EXCEPT !.ready = TRUE] = w
  <2>1. v.name = name /\ v.scope = c.level /\ v.taken = FALSE
    BY DEF L!Variable
  <2>2. w = [name |-> name, scope |-> c.level, ready |-> TRUE, taken |-> FALSE]
    BY DEF L!Variable
  <2> HIDE DEF v, w
  <2>3. QED BY <1>6, <2>1, <2>2, ReadyChanges, Zenon
<1> HIDE DEF v, w, vs
<1>8. Append(vs, v)[last] = v /\ [Append(vs, v) EXCEPT ![last] = w] = Append(vs, w)
  <2> DEFINE s == [Append(vs, v) EXCEPT ![last] = w]
             t == Append(vs, w)
  <2>1. /\ Append(vs, v) \in Seq(Variables) /\ Len(Append(vs, v)) = last
        /\ Append(vs, v)[last] = v
        /\ \A i \in 1 .. Len(c.locals) : Append(vs, v)[i] = vs[i]
    BY <1>5, <1>6, Longer
  <2>2. /\ t \in Seq(Variables) /\ Len(t) = last /\ t[last] = w
        /\ \A i \in 1 .. Len(c.locals) : t[i] = vs[i]
    BY <1>5, <1>6, Longer
  <2>3. /\ s \in Seq(Variables) /\ Len(s) = last /\ s[last] = w
        /\ \A i \in 1 .. last : i # last => s[i] = Append(vs, v)[i]
    <3>1. last \in 1 .. Len(Append(vs, v))
      BY <1>1, <2>1
    <3> DEFINE a == Append(vs, v)
    <3>2. a \in Seq(Variables) /\ last \in 1 .. Len(a) /\ Len(a) = last
      BY <2>1, <3>1
    <3> HIDE DEF a, last
    <3>3. /\ [a EXCEPT ![last] = w] \in Seq(Variables)
          /\ Len([a EXCEPT ![last] = w]) = Len(a)
          /\ [a EXCEPT ![last] = w][last] = w
          /\ \A i \in 1 .. Len(a) : i # last => [a EXCEPT ![last] = w][i] = a[i]
      BY <1>6, <3>2, Replaced
    <3>4. QED BY <3>2, <3>3 DEF a
  <2> HIDE DEF s, t
  <2>4. ASSUME NEW i \in 1 .. last PROVE s[i] = t[i]
    <3>1. i = last \/ (i # last /\ i \in 1 .. Len(c.locals))
      BY <1>1
    <3>2. QED BY <2>1, <2>2, <2>3, <3>1
  <2>5. s = t
    BY <2>2, <2>3, <2>4, SameSequence
  <2>6. QED BY <2>1, <2>5 DEF s, t
<1>9. View(d).variables = Append(vs, v)
  BY <1>3
<1> HIDE DEF d, last
<1>10. View(mark_initialized(d)) = [level |-> c.level, variables |-> Append(vs, w)]
  BY <1>1, <1>4, <1>7, <1>8, <1>9, Zenon
<1>11. QED BY <1>10 DEF d, vs, w

LEMMA DeclaredSettled ==
    ASSUME NEW c, Formed(c), Whole(c), NEW name \in Identifiers \cup {"super"},
           c.level > 0, ~Full(c)
    PROVE  Whole(mark_initialized(add_local(c, name)))
<1> DEFINE d == add_local(c, name)
<1>1. Formed(d) /\ d.level = c.level /\ Len(d.locals) > 1 /\ Len(c.locals) \in Nat
  BY AddLocalForms, CompilerFields DEF Formed
<1>2. Len(d.locals) = Len(c.locals) + 1 /\ Settled(d, Len(c.locals))
  BY SettledAdd DEF Whole
<1> HIDE DEF d
<1>3. Settled(d, Len(d.locals) - 1)
  <2>1. Len(d.locals) - 1 = Len(c.locals)
    BY <1>1, <1>2
  <2>2. QED BY <1>2, <2>1
<1>4. Whole(mark_initialized(d))
  BY <1>1, <1>3, SettledMark DEF Whole
<1>5. QED BY <1>4 DEF d

LEMMA DeclaredMaps ==
    ASSUME AllFormed, Lexes, Fine, NEW name \in Identifiers, search = Idle, Declared(name),
           phase # "initializer", phase' # "initializer", phase' # "superclass"
    PROVE  Mapped /\ (Fine' => Lexes')
<1> DEFINE c == mark_initialized(declare_variable(compiler, name))
<1>1. /\ Formed(compiler) /\ F \in DOMAIN functions /\ compiler = functions[F]
      /\ functions \in Seq(Compilers) /\ compiler.level \in Nat
  BY TopFacts, CompilerFields DEF AllFormed, compiler, Formed
<1>2. /\ search' = Idle
      /\ Report(DeclareError(compiler, name))
      /\ functions' = [functions EXCEPT ![F] = c]
  BY <1>1 DEF Declared
<1>3. Formed(c)
  BY <1>1, DeclareForms, MarkForms
<1>4. Whole(compiler)
  BY DEF Lexes, Proper
<1>5. CASE compiler.level = 0
  <2>1. c = compiler
    BY <1>5 DEF declare_variable, mark_initialized
  <2>2. functions' = functions
    BY <1>1, <1>2, <2>1
  <2>3. error' = error
    BY <1>2, <1>5 DEF DeclareError, Report, Fine
  <2>4. LexicalAnswer' = LexicalAnswer
    BY <1>2 DEF LexicalAnswer
  <2>5. Proper(compiler, phase')
    BY <1>4 DEF Proper
  <2>6. Lexes'
    BY <1>1, <1>2, <1>3, <2>1, <2>5, TopLexes
  <2>7. QED BY <2>2, <2>3, <2>4, <2>6, NothingMapped
<1>6. CASE compiler.level # 0
  <2>1. c = mark_initialized(add_local(compiler, name)) /\ compiler.level > 0
    BY <1>1, <1>6 DEF declare_variable
  <2>2. Report(IF Redeclares(compiler, name) THEN "redeclared"
               ELSE IF Full(compiler) THEN "limit" ELSE "")
    BY <1>2, <1>6 DEF DeclareError
  <2>3. ~Full(compiler) =>
           View(c) = [level |-> compiler.level,
                      variables |-> Append(View(compiler).variables,
                                           L!Variable(name, compiler.level, TRUE))]
    BY <1>1, <2>1, DeclaredView
  <2>4. L!Next
    <3>1. TRUE \in BOOLEAN /\ name \in Identifiers \cup {"super"}
      OBVIOUS
    <3> HIDE DEF c
    <3>2. QED BY <1>2, <1>3, <1>4, <2>1, <2>2, <2>3, <3>1, DeclareMaps
  <2>5. ASSUME Fine' PROVE Lexes'
    <3>1. ~Full(compiler)
      BY <2>2, <2>5 DEF Report, Fine
    <3>2. Whole(c)
      BY <1>1, <1>4, <2>1, <3>1, DeclaredSettled
    <3> HIDE DEF c
    <3>3. Proper(c, phase')
      BY <3>2 DEF Proper
    <3>4. QED BY <1>2, <1>3, <3>3, TopLexes
  <2>6. QED BY <2>4, <2>5 DEF Mapped
<1>7. QED BY <1>5, <1>6

LEMMA SuperclassMaps ==
    ASSUME AllFormed, Lexes, Fine, Superclass
    PROVE  Mapped /\ (Fine' => Lexes')
<1> DEFINE c == mark_initialized(add_local(compiler, "super"))
<1>1. /\ Formed(compiler) /\ F \in DOMAIN functions /\ compiler = functions[F]
      /\ compiler.level \in Nat /\ DOMAIN compiler.locals = 1 .. Len(compiler.locals)
  BY TopFacts, CompilerFields DEF AllFormed, compiler, Formed
<1>2. /\ search = Idle /\ search' = Idle /\ phase = "superclass" /\ phase' = "class"
      /\ Report(IF Full(compiler) THEN "limit" ELSE "")
      /\ functions' = [functions EXCEPT ![F] = c]
  BY <1>1 DEF Superclass, In
<1>3. /\ Whole(compiler) /\ compiler.level > 0
      /\ \A i \in DOMAIN compiler.locals : compiler.locals[i].level < compiler.level
  BY <1>2 DEF Lexes, Proper
<1>4. Formed(c)
  BY <1>1, <1>3, AddLocalForms, MarkForms
<1>5. ~Redeclares(compiler, "super")
  <2>1. ASSUME NEW i \in DOMAIN compiler.locals
        PROVE  \E j \in i .. Len(compiler.locals) :
                  ~(compiler.locals[j].level = Uninitialized \/ compiler.locals[j].level >= compiler.level)
    <3>1. i \in i .. Len(compiler.locals) /\ i \in 1 .. Len(compiler.locals)
      BY <1>1, CompilerFields DEF Formed
    <3>2. compiler.locals[i].level \in 0 .. compiler.level /\ compiler.locals[i].level < compiler.level
      BY <1>3, <3>1 DEF Whole, Settled
    <3>3. QED BY <1>1, <3>1, <3>2 DEF Uninitialized
  <2>2. QED BY <2>1 DEF Redeclares
<1>6. Report(IF Redeclares(compiler, "super") THEN "redeclared"
             ELSE IF Full(compiler) THEN "limit" ELSE "")
  BY <1>2, <1>5
<1>7. ~Full(compiler) =>
           View(c) = [level |-> compiler.level,
                      variables |-> Append(View(compiler).variables,
                                           L!Variable("super", compiler.level, TRUE))]
  BY <1>1, <1>3, DeclaredView
<1>8. L!Next
  <2>1. TRUE \in BOOLEAN /\ "super" \in Identifiers \cup {"super"}
    OBVIOUS
  <2> HIDE DEF c
  <2>2. QED BY <1>2, <1>3, <1>4, <1>6, <1>7, <2>1, DeclareMaps
<1>9. ASSUME Fine' PROVE Lexes'
  <2>1. ~Full(compiler)
    BY <1>2, <1>9 DEF Report, Fine
  <2>2. Whole(c)
    BY <1>1, <1>3, <2>1, DeclaredSettled
  <2> HIDE DEF c
  <2>3. Proper(c, phase')
    BY <1>2, <2>2 DEF Proper
  <2>4. QED BY <1>2, <1>4, <2>3, TopLexes
<1>10. QED BY <1>8, <1>9 DEF Mapped

LEMMA DefineVariableMaps ==
    ASSUME AllFormed, Rest, Lexes, Fine, DefineVariable
    PROVE  Mapped /\ Lexes'
<1> DEFINE c == mark_initialized(compiler)
<1>1. /\ Formed(compiler) /\ F \in DOMAIN functions /\ compiler = functions[F]
      /\ functions \in Seq(Compilers) /\ compiler.level \in Nat
      /\ compiler.level > 0 => Len(compiler.locals) > 1
  BY TopFacts, CompilerFields DEF AllFormed, compiler, Formed, Rest, DefineVariable, In
<1>2. /\ search = Idle /\ search' = Idle /\ phase = "initializer" /\ phase' = "statement"
      /\ error' = error /\ functions' = [functions EXCEPT ![F] = c]
  BY <1>1 DEF DefineVariable, In
<1>3. Formed(c) /\ c.level = compiler.level
  BY <1>1, MarkForms
<1>4. CASE compiler.level = 0
  <2>1. c = compiler
    BY <1>4 DEF mark_initialized
  <2>2. functions' = functions
    BY <1>1, <1>2, <2>1
  <2>3. LexicalAnswer' = LexicalAnswer
    BY <1>2 DEF LexicalAnswer
  <2>4. Proper(compiler, phase')
    BY <1>2, <1>4 DEF Proper, Lexes
  <2>5. Lexes'
    BY <1>1, <1>2, <1>3, <2>1, <2>4, TopLexes
  <2>6. QED BY <1>2, <2>2, <2>3, <2>5, NothingMapped
<1>5. CASE compiler.level # 0
  <2> DEFINE vs == View(compiler).variables
             last == Len(compiler.locals)
             ws == [vs EXCEPT ![last] = [vs[last] EXCEPT !.ready = TRUE]]
  <2>1. /\ compiler.level > 0 /\ Len(compiler.locals) > 1
        /\ Settled(compiler, Len(compiler.locals) - 1)
        /\ compiler.locals[Len(compiler.locals)].level = Uninitialized
    BY <1>1, <1>2, <1>5 DEF Lexes, Proper
  <2>2. View(c) = [level |-> compiler.level, variables |-> ws]
    BY <1>1, <2>1, MarkView
  <2>3. Whole(c)
    BY <1>1, <2>1, SettledMark DEF Whole
  <2>4. LexicalFunctions' =
          [LexicalFunctions EXCEPT ![L!F] = [level |-> compiler.level, variables |-> ws]]
    <3> HIDE DEF c, ws
    <3>1. QED BY <1>2, <1>3, <2>2, LexicalChanges
  <2>5. /\ L!Innermost.variables = vs
        /\ LexicalFunctions[L!F] = [level |-> compiler.level, variables |-> vs]
        /\ LexicalFunctions[L!F].variables = vs
    BY TopView, Zenon
  <2>6. Len(L!Innermost.variables) = last
    <3>1. Len(vs) = last
      BY <1>1, ViewTypes DEF Formed
    <3>2. QED BY <2>5, <3>1, Zenon
  <2>7. [LexicalFunctions[L!F] EXCEPT !.variables = ws] = [level |-> compiler.level, variables |-> ws]
    <3> HIDE DEF vs, ws
    <3>1. [[level |-> compiler.level, variables |-> vs] EXCEPT !.variables = ws] =
            [level |-> compiler.level, variables |-> ws]
      BY VariablesChange
    <3>2. QED BY <2>5, <3>1, Zenon
  <2>8. LexicalFunctions' =
          [LexicalFunctions EXCEPT ![L!F] = [LexicalFunctions[L!F] EXCEPT !.variables = ws]]
    <3> HIDE DEF ws
    <3>1. QED BY <2>4, <2>7, Zenon
  <2>9. LexicalFunctions' =
          [LexicalFunctions EXCEPT ![L!F].variables[Len(L!Innermost.variables)].ready = TRUE]
    <3> HIDE DEF vs, last
    <3>1. QED BY <2>5, <2>6, <2>8, Zenon
  <2>10. L!Define
    BY <1>2, <2>9, Answers, AnswersNext DEF L!Define, L!Same
  <2>11. Lexes'
    <3> HIDE DEF c
    <3>1. Proper(c, phase')
      BY <1>2, <2>3 DEF Proper
    <3>2. QED BY <1>2, <1>3, <3>1, TopLexes
  <2>12. QED BY <2>10, <2>11 DEF Mapped, L!Next, Fine
<1>6. QED BY <1>4, <1>5

(* Scopes and classes that begin.                                          *)
LEMMA OpensMaps ==
    ASSUME AllFormed, Lexes, Fine, search = Idle, search' = Idle, error' = error,
           phase # "initializer",
           NEW what \in {"block", "class", "subclass"},
           NEW levels, levels = IF what = "class" THEN 0 ELSE 1,
           Opens(what, levels),
           phase' \in {"statement", "class", "superclass"},
           phase' = "superclass" => what = "subclass"
    PROVE  Mapped /\ Lexes'
<1> DEFINE c == Opening(compiler, what, levels)
           vs == View(compiler).variables
<1>1. /\ Formed(compiler) /\ F \in DOMAIN functions /\ compiler = functions[F]
      /\ compiler \in Compilers /\ compiler.level \in Nat /\ levels \in Nat
      /\ DOMAIN compiler.locals = 1 .. Len(compiler.locals)
  BY TopFacts, CompilerFields DEF AllFormed, compiler, Formed
<1>2. functions' = [functions EXCEPT ![F] = c]
  BY <1>1 DEF Opens
<1>3. Whole(compiler)
  BY DEF Lexes, Proper
<1>4. Formed(c) /\ c.locals = compiler.locals /\ c.level = compiler.level + levels
  <2>1. c.level = compiler.level + levels
    BY <1>1 DEF Opening, Compilers
  <2>2. QED BY <1>1, <2>1, OpeningForms
<1>5. Whole(c)
  BY <1>1, <1>3, SettledOpening DEF Whole
<1>6. View(c) = [level |-> compiler.level + levels, variables |-> vs]
  BY <1>1, <1>3, OpeningView DEF Whole
<1> HIDE DEF c
<1>7. Lexes'
  <2>1. phase' = "superclass" =>
            c.level > 0 /\ \A i \in DOMAIN c.locals : c.locals[i].level < c.level
    <3>1. SUFFICES ASSUME phase' = "superclass"
                   PROVE  c.level > 0 /\ \A i \in DOMAIN c.locals : c.locals[i].level < c.level
      OBVIOUS
    <3>2. c.level = compiler.level + 1
      BY <1>1, <1>4, <3>1
    <3>3. ASSUME NEW i \in DOMAIN c.locals PROVE c.locals[i].level < c.level
      <4>1. c.locals[i].level \in 0 .. compiler.level
        BY <1>1, <1>3, <1>4 DEF Whole, Settled
      <4>2. QED BY <1>1, <3>2, <4>1
    <3>4. QED BY <1>1, <3>2, <3>3
  <2>2. Proper(c, phase')
    BY <1>5, <2>1 DEF Proper
  <2>3. QED BY <1>2, <1>4, <2>2, TopLexes
<1>8. /\ LexicalFunctions[L!F] = [level |-> compiler.level, variables |-> vs]
      /\ LexicalFunctions[L!F].level = compiler.level
  BY TopView, Zenon
<1> HIDE DEF vs
<1>9. LexicalFunctions' =
        [LexicalFunctions EXCEPT ![L!F] = [level |-> compiler.level + levels, variables |-> vs]]
  BY <1>2, <1>4, <1>6, LexicalChanges
<1>10. CASE what # "class"
  <2>1. [LexicalFunctions[L!F] EXCEPT !.level = compiler.level + 1] =
          [level |-> compiler.level + 1, variables |-> vs]
    <3>1. [[level |-> compiler.level, variables |-> vs] EXCEPT !.level = compiler.level + 1] =
            [level |-> compiler.level + 1, variables |-> vs]
      BY LevelChange
    <3>2. QED BY <1>8, <3>1, Zenon
  <2>2. levels = 1
    BY <1>10
  <2>3. LexicalFunctions' =
          [LexicalFunctions EXCEPT ![L!F] =
              [LexicalFunctions[L!F] EXCEPT !.level = compiler.level + 1]]
    BY <1>9, <2>1, <2>2, Zenon
  <2>4. LexicalFunctions' = [LexicalFunctions EXCEPT ![L!F].level = @ + 1]
    BY <1>8, <2>3, Zenon
  <2>5. L!Enter
    BY <2>4, Answers, AnswersNext DEF L!Enter, L!Same
  <2>6. QED BY <1>7, <2>5 DEF Mapped, L!Next, Fine
<1>11. CASE what = "class"
  <2>1. compiler.level + levels = compiler.level
    BY <1>1, <1>11
  <2>2. View(c) = View(compiler)
    <3>1. View(compiler) = [level |-> compiler.level, variables |-> vs]
      BY DEF View, vs
    <3>2. QED BY <1>6, <2>1, <3>1, Zenon
  <2>3. LexicalFunctions' = LexicalFunctions
    <3>1. LexicalFunctions' = [LexicalFunctions EXCEPT ![F] = View(compiler)]
      <4>1. LexicalFunctions' = [LexicalFunctions EXCEPT ![F] = View(c)]
        BY <1>1, <1>2, <1>4, LexicalUpdate
      <4>2. QED BY <2>2, <4>1, Zenon
    <3>2. LexicalFunctions[F] = View(compiler) /\ LexicalFunctions = ViewsOf(functions)
      BY LexicalTop, LexicalIs
    <3>3. QED BY <3>1, <3>2 DEF ViewsOf
  <2>4. LexicalAnswer' = LexicalAnswer
    BY DEF LexicalAnswer
  <2>5. QED BY <1>7, <2>3, <2>4 DEF Mapped
<1>12. QED BY <1>10, <1>11

LEMMA NextFormed ==
    ASSUME AllFormed', NEW n \in DOMAIN functions'
    PROVE  Formed(functions'[n])
BY DEF AllFormed, Formed, Sized, Nested

(* Scopes that end.                                                        *)
LEMMA ExitMaps ==
    ASSUME AllFormed, AllFormed', Lexes, Fine, search = Idle, search' = Idle, error' = error,
           phase # "initializer", phase' = "statement", scope_exit
    PROVE  Mapped /\ Lexes'
<1> DEFINE l == compiler.level - 1
           vs == View(compiler).variables
<1>1. /\ Formed(compiler) /\ F \in DOMAIN functions /\ compiler = functions[F]
      /\ compiler \in Compilers /\ compiler.level \in Nat
      /\ Len(compiler.locals) \in Nat
  BY TopFacts, CompilerFields DEF AllFormed, compiler, Formed
<1>2. PICK k \in 0 .. Len(compiler.locals) :
            /\ k # 0 => compiler.locals[k].level <= l
            /\ \A i \in k + 1 .. Len(compiler.locals) : compiler.locals[i].level > l
            /\ functions' = [functions EXCEPT ![F] = Leaving(Closing(compiler), l, k)]
  BY <1>1 DEF scope_exit
<1> DEFINE c == Leaving(Closing(compiler), l, k)
<1>3. Formed(c)
  <2> HIDE DEF c
  <2>1. functions' = [functions EXCEPT ![F] = c]
    BY <1>2 DEF c
  <2>2. functions'[F] = c /\ F \in DOMAIN functions'
    BY <1>1, <2>1
  <2>3. QED BY <2>2, NextFormed
<1>4. l \in Nat
  <2>1. c.level = l
    BY <1>1 DEF Leaving, Closing, Compilers
  <2> HIDE DEF c, l
  <2>2. QED BY <1>3, <2>1, CompilerFields DEF Formed
<1>5. Whole(compiler)
  BY DEF Lexes, Proper
<1>6. Whole(c)
  <2> HIDE DEF l
  <2>1. QED BY <1>1, <1>2, <1>3, <1>4, <1>5, SettledLeaving DEF Whole
<1>7. View(c) = [level |-> l, variables |-> SubSeq(vs, 1, k)]
  <2> HIDE DEF l
  <2>1. QED BY <1>1, <1>3, <1>4, <1>5, LeavingView DEF Whole
<1>8. Lexes'
  <2> HIDE DEF c
  <2>1. Proper(c, phase') /\ functions' = [functions EXCEPT ![F] = c]
    BY <1>2, <1>6 DEF Proper, c
  <2>2. QED BY <1>3, <2>1, TopLexes
<1>9. /\ L!Innermost.level = compiler.level /\ L!Innermost.variables = vs
      /\ LexicalFunctions[L!F].level = compiler.level /\ LexicalFunctions[L!F].variables = vs
  BY TopView, Zenon
<1>10. Len(vs) = Len(compiler.locals) /\ DOMAIN vs = 1 .. Len(compiler.locals)
  BY <1>1, ViewTypes
<1>11. ASSUME NEW i \in DOMAIN vs
       PROVE  (i <= k) <=> (vs[i].scope < compiler.level)
  <2>1. i \in 1 .. Len(compiler.locals) /\ Len(compiler.locals) \in 0 .. Len(compiler.locals)
    BY <1>1, <1>10
  <2>2. vs[i].scope = compiler.locals[i].level /\ compiler.locals[i].level \in Nat
    BY <1>1, <1>5, <2>1, SettledView DEF Whole
  <2>3. CASE i <= k
    <3>1. k \in 1 .. Len(compiler.locals) /\ k # 0
      BY <1>1, <2>1, <2>3
    <3>2. compiler.locals[i].level <= compiler.locals[k].level /\ compiler.locals[k].level <= l
          /\ compiler.locals[k].level \in 0 .. compiler.level
      BY <1>2, <1>5, <2>1, <2>3, <3>1 DEF Whole, Settled
    <3>3. compiler.locals[i].level < compiler.level
      BY <1>1, <2>2, <3>2
    <3>4. QED BY <2>2, <2>3, <3>3
  <2>4. CASE ~(i <= k)
    <3>1. i \in k + 1 .. Len(compiler.locals)
      BY <1>1, <2>1, <2>4
    <3>2. compiler.locals[i].level > l
      BY <1>2, <3>1
    <3>3. ~(compiler.locals[i].level < compiler.level)
      BY <1>1, <2>2, <3>2
    <3>4. QED BY <2>2, <2>4, <3>3
  <2>5. QED BY <2>3, <2>4
<1>12. LexicalFunctions' =
        [LexicalFunctions EXCEPT ![L!F] = [level |-> l, variables |-> SubSeq(vs, 1, k)]]
  <2> HIDE DEF c, l
  <2>1. functions' = [functions EXCEPT ![F] = c]
    BY <1>2 DEF c
  <2>2. QED BY <1>3, <1>7, <2>1, LexicalChanges
<1>13. LexicalFunctions' =
          [LexicalFunctions EXCEPT ![L!F] = [level |-> @.level - 1,
                                             variables |-> SubSeq(@.variables, 1, k)]]
  <2> HIDE DEF vs
  <2>1. QED BY <1>9, <1>12, Zenon
<1>14. k \in 0 .. Len(L!Innermost.variables)
  <2> HIDE DEF vs
  <2>1. QED BY <1>2, <1>9, <1>10
<1>15. \A i \in DOMAIN L!Innermost.variables :
          (i <= k) <=> (L!Innermost.variables[i].scope < L!Innermost.level)
  <2> HIDE DEF vs
  <2>1. QED BY <1>9, <1>11, Zenon
<1>16. L!Exit
  <2>1. L!Same
    BY Answers, AnswersNext DEF L!Same
  <2>2. QED BY <1>13, <1>14, <1>15, <2>1, Zenon DEF L!Exit
<1>17. QED BY <1>8, <1>16 DEF Mapped, L!Next, Fine

(* The end of a class without a superclass.                                 *)
LEMMA ClosedMaps ==
    ASSUME AllFormed, AllFormed', Lexes, Fine, search = Idle, search' = Idle, error' = error,
           phase # "initializer", phase' = "statement",
           functions' = [functions EXCEPT ![F] = Closing(@)]
    PROVE  Mapped /\ Lexes'
<1> DEFINE c == Closing(compiler)
<1>1. /\ Formed(compiler) /\ F \in DOMAIN functions /\ compiler = functions[F]
      /\ compiler \in Compilers
  BY TopFacts DEF compiler, Formed
<1>2. functions' = [functions EXCEPT ![F] = c]
  BY <1>1
<1>3. c.level = compiler.level /\ c.locals = compiler.locals
  BY <1>1 DEF Closing, Compilers
<1> HIDE DEF c
<1>4. Formed(c)
  <2>1. functions'[F] = c /\ F \in DOMAIN functions'
    BY <1>1, <1>2
  <2>2. QED BY <2>1, NextFormed
<1>5. Whole(c)
  BY <1>3 DEF Lexes, Proper, Whole, Settled
<1>6. View(c) = View(compiler)
  BY <1>3, SameView
<1>7. LexicalFunctions' = LexicalFunctions
  <2>1. LexicalFunctions' = [LexicalFunctions EXCEPT ![F] = View(c)]
    BY <1>1, <1>2, <1>4, LexicalUpdate
  <2>2. LexicalFunctions[F] = View(compiler) /\ LexicalFunctions = ViewsOf(functions)
    BY LexicalTop, LexicalIs
  <2>3. QED BY <1>6, <2>1, <2>2 DEF ViewsOf
<1>8. Lexes'
  <2>1. Proper(c, phase')
    BY <1>5 DEF Proper
  <2>2. QED BY <1>2, <1>4, <2>1, TopLexes
<1>9. LexicalAnswer' = LexicalAnswer
  BY DEF LexicalAnswer
<1>10. QED BY <1>7, <1>8, <1>9 DEF Mapped

(* Functions that begin and end.                                           *)
LEMMA BeginMaps ==
    ASSUME AllFormed, Lexes, Fine, search = Idle, phase # "initializer",
           NEW type \in {"function", "method"}, Begin(type)
    PROVE  Mapped /\ Lexes'
<1> DEFINE c == NewCompiler(type, 1)
           self == IF type = "function" THEN "" ELSE "this"
<1>1. /\ F \in Nat /\ F >= 1 /\ DOMAIN functions = 1 .. F
      /\ functions \in Seq(Compilers) /\ compiler = functions[F]
  BY TopFacts DEF AllFormed, compiler
<1>2. /\ search' = Idle /\ error' = error /\ phase' = "parameters"
      /\ functions' = Append(functions, c)
  BY DEF Begin
<1>3. Formed(c) /\ Whole(c)
  BY NewForms, SettledNew DEF Whole
<1>4. View(c) = L!NewFunction(self, 1)
  BY NewView
<1> HIDE DEF c, self
<1>5. /\ F' = F + 1 /\ functions'[F + 1] = c
      /\ \A m \in DOMAIN functions : functions'[m] = functions[m]
  BY <1>2, <1>3, PushForms
<1>6. Lexes'
  <2>1. \A m \in 1 .. F : Whole(functions[m])
    <3>1. Whole(functions[F])
      BY <1>1 DEF Lexes, Proper
    <3>2. QED BY <1>1, <3>1 DEF Lexes
  <2>2. compiler' = c
    BY <1>5 DEF compiler
  <2>3. Proper(compiler, phase)'
    BY <1>2, <1>3, <2>2 DEF Proper, Whole, Settled
  <2>4. \A m \in 1 .. F : Whole(functions'[m])
    BY <1>1, <1>5, <2>1
  <2>5. (F - 1)' = F
    BY <1>1, <1>5
  <2>6. (\A m \in 1 .. F - 1 : Whole(functions[m]))'
    BY <2>4, <2>5 DEF Whole, Settled
  <2>7. Passed'
    BY <1>2 DEF Passed, Idle
  <2>8. QED BY <2>3, <2>6, <2>7 DEF Lexes
<1>7. LexicalFunctions' = Append(LexicalFunctions, L!NewFunction(self, 1))
  <2>1. ViewsOf(functions') = Append(ViewsOf(functions), View(c))
    BY <1>1, <1>2, <1>3, ViewsPush DEF Formed
  <2>2. QED BY <1>4, <2>1, LexicalIs, Zenon
<1>8. self \in {"this", ""}
  BY DEF self
<1>9. L!Begin
  <2>1. L!Same
    BY <1>2, Answers, AnswersNext DEF L!Same
  <2>2. QED BY <1>2, <1>7, <1>8, <2>1 DEF L!Begin
<1>10. QED BY <1>6, <1>9 DEF Mapped, L!Next, Fine

LEMMA EndMaps ==
    ASSUME AllFormed, Lexes, Fine, End
    PROVE  Mapped /\ Lexes'
<1>1. /\ F \in Nat /\ F > 1 /\ DOMAIN functions = 1 .. F /\ Len(functions) = F
      /\ functions \in Seq(Compilers) /\ compiler = functions[F]
  BY TopFacts DEF AllFormed, compiler, End, F
<1>2. /\ search = Idle /\ search' = Idle /\ error' = error
      /\ phase' \in {"statement", "class body"}
      /\ functions' = SubSeq(functions, 1, F - 1)
  BY DEF End, In
<1>3. F' = F - 1 /\ \A m \in 1 .. F - 1 : functions'[m] = functions[m]
  BY <1>1, <1>2, PopForms
<1>4. Lexes'
  <2>1. \A m \in 1 .. F - 1 : Whole(functions'[m])
    BY <1>3 DEF Lexes
  <2>2. F - 1 \in 1 .. F - 1
    BY <1>1
  <2>3. compiler' = functions'[F - 1]
    BY <1>3 DEF compiler
  <2>4. Whole(functions'[F - 1])
    BY <2>1, <2>2
  <2>5. Proper(compiler, phase)'
    BY <1>2, <2>3, <2>4 DEF Proper, Whole, Settled
  <2>6. \A m \in 1 .. F' - 1 : m \in 1 .. F - 1
    BY <1>1, <1>3
  <2>7. (\A m \in 1 .. F - 1 : Whole(functions[m]))'
    BY <2>1, <2>6 DEF Whole, Settled
  <2>8. Passed'
    BY <1>2 DEF Passed, Idle
  <2>9. QED BY <2>5, <2>7, <2>8 DEF Lexes
<1>5. L!F = F
  BY LexicalTop
<1>6. LexicalFunctions' = SubSeq(LexicalFunctions, 1, L!F - 1)
  <2>1. F - 1 \in 0 .. Len(functions)
    BY <1>1
  <2>2. ViewsOf(functions') = SubSeq(ViewsOf(functions), 1, F - 1)
    BY <1>1, <1>2, <2>1, ViewsPop
  <2>3. QED BY <1>5, <2>2, LexicalIs, Zenon
<1>7. L!End
  <2>1. L!Same
    BY <1>2, Answers, AnswersNext DEF L!Same
  <2>2. QED BY <1>1, <1>2, <1>5, <1>6, <2>1 DEF L!End
<1>8. QED BY <1>4, <1>7 DEF Mapped, L!Next, Fine

-----------------------------------------------------------------------------
(* Names.                                                                  *)

SameScopes(c, d) ==
    /\ d.level = c.level /\ Len(d.locals) = Len(c.locals) /\ DOMAIN d.locals = DOMAIN c.locals
    /\ \A i \in DOMAIN c.locals : d.locals[i].level = c.locals[i].level

LEMMA StableSettled ==
    ASSUME NEW c \in Compilers, NEW d, SameScopes(c, d), NEW k \in 0 .. Len(c.locals), Settled(c, k)
    PROVE  Settled(d, k)
<1>1. Len(c.locals) \in Nat /\ DOMAIN c.locals = 1 .. Len(c.locals)
  BY CompilerFields
<1>2. \A i \in 1 .. k : i \in DOMAIN c.locals
  BY <1>1
<1>3. QED BY <1>2, SettledSame DEF SameScopes

LEMMA StableLexes ==
    ASSUME AllFormed, Lexes, phase' = phase, F' = F,
           \A m \in DOMAIN functions : SameScopes(functions[m], functions'[m]),
           Passed'
    PROVE  Lexes'
<1>1. /\ F \in Nat /\ F >= 1 /\ DOMAIN functions = 1 .. F /\ compiler = functions[F]
      /\ F \in DOMAIN functions /\ compiler \in Compilers
  BY TopFacts DEF compiler, Formed
<1>2. compiler' = functions'[F]
  BY DEF compiler
<1>3. SameScopes(compiler, compiler')
  BY <1>1, <1>2
<1>4. \A m \in DOMAIN functions : functions[m] \in Compilers
  BY DEF AllFormed, Formed
<1>5. ASSUME NEW m \in DOMAIN functions, Whole(functions[m]) PROVE Whole(functions'[m])
  <2>1. Len(functions[m].locals) \in Nat
    BY <1>4, CompilerFields
  <2>2. Len(functions[m].locals) \in 0 .. Len(functions[m].locals)
    BY <2>1
  <2>3. Settled(functions'[m], Len(functions[m].locals))
    BY <1>4, <1>5, <2>2, StableSettled DEF Whole
  <2>4. QED BY <2>3 DEF Whole, SameScopes
<1>6. (\A n \in 1 .. F - 1 : Whole(functions[n]))'
  <2>1. \A n \in 1 .. F - 1 : n \in DOMAIN functions
    BY <1>1
  <2>2. \A n \in 1 .. F - 1 : Whole(functions'[n])
    BY <1>5, <2>1 DEF Lexes
  <2>3. QED BY <2>2 DEF Whole, Settled
<1>7. Proper(compiler', phase)
  <2>1. Len(compiler.locals) \in 1 .. UINT8_MAX + 1 /\ UINT8_MAX \in Nat
        /\ DOMAIN compiler.locals = 1 .. Len(compiler.locals)
    BY <1>1, ScopeAssumption, TopFacts, CompilerFields DEF Formed, Sized
  <2>2. compiler'.level = compiler.level /\ Len(compiler'.locals) = Len(compiler.locals)
        /\ DOMAIN compiler'.locals = DOMAIN compiler.locals
        /\ \A i \in DOMAIN compiler.locals : compiler'.locals[i].level = compiler.locals[i].level
    BY <1>3 DEF SameScopes
  <2>3. Len(compiler.locals) \in DOMAIN compiler.locals
        /\ Len(compiler.locals) - 1 \in 0 .. Len(compiler.locals)
    BY <2>1
  <2>4. CASE phase = "initializer" /\ compiler.level > 0
    <3>1. /\ Settled(compiler, Len(compiler.locals) - 1)
          /\ compiler.locals[Len(compiler.locals)].level = Uninitialized
      BY <2>4 DEF Lexes, Proper
    <3>2. Settled(compiler', Len(compiler.locals) - 1)
      BY <1>1, <1>3, <2>3, <3>1, StableSettled
    <3>3. QED BY <2>2, <2>3, <2>4, <3>1, <3>2 DEF Proper
  <2>5. CASE ~(phase = "initializer" /\ compiler.level > 0)
    <3>1. Whole(functions[F])
      BY <1>1, <2>5 DEF Lexes, Proper
    <3>2. Whole(compiler')
      BY <1>1, <1>2, <1>5, <3>1
    <3>3. QED BY <2>2, <2>5, <3>2 DEF Lexes, Proper
  <2>6. QED BY <2>4, <2>5
<1>8. Proper(compiler, phase)'
  BY <1>7 DEF Proper, Whole, Settled
<1>9. QED BY <1>6, <1>8 DEF Lexes

LEMMA StillLexes ==
    ASSUME AllFormed, Lexes, phase' = phase, functions' = functions, Passed'
    PROVE  Lexes'
<1>1. F' = F
  BY DEF F
<1>2. \A m \in DOMAIN functions : SameScopes(functions[m], functions'[m])
  BY DEF SameScopes
<1>3. QED BY <1>1, <1>2, StableLexes

LEMMA UseMaps ==
    ASSUME AllFormed, Lexes, NEW name \in Names, Use(name)
    PROVE  Mapped /\ Lexes'
<1>1. /\ functions' = functions /\ phase' = phase /\ error' = error
      /\ search = Idle /\ search'.step = "find" /\ search'.at = F
  BY DEF Use, Step
<1>2. LexicalAnswer' = LexicalAnswer
  BY <1>1, Answers, AnswersNext
<1>3. Passed'
  <2>1. F \in Nat /\ DOMAIN functions = 1 .. F
    BY TopFacts
  <2>2. \A m \in DOMAIN functions' : ~(m > search'.at)
    BY <1>1, <2>1
  <2>3. QED BY <2>2 DEF Passed
<1>4. QED BY <1>1, <1>2, <1>3, NothingMapped, StillLexes

LEMMA ResolvedMaps ==
    ASSUME AllFormed, Lexes, Fine, Get \/ Assign \/ Set
    PROVE  Mapped /\ Lexes'
<1>1. /\ functions' = functions /\ phase' = phase /\ error' = error /\ search' = Idle
  BY DEF Get, Assign, Set
<1>2. LexicalFunctions' = LexicalFunctions
  BY <1>1, LexicalIs
<1>3. L!Resolved
  BY <1>1, <1>2, AnswersNext DEF L!Resolved
<1>4. Passed'
  BY <1>1 DEF Passed, Idle
<1>5. QED BY <1>1, <1>3, <1>4, StillLexes DEF Mapped, L!Next, Fine

(* The names that Lexical sees.                                            *)
LEMMA ViewNames ==
    ASSUME AllFormed, NEW n \in DOMAIN functions
    PROVE  /\ n \in DOMAIN LexicalFunctions
           /\ DOMAIN LexicalFunctions[n].variables = DOMAIN functions[n].locals
           /\ \A i \in DOMAIN functions[n].locals :
                /\ LexicalFunctions[n].variables[i].name = functions[n].locals[i].name
                /\ LexicalFunctions[n].variables[i].ready
                     = (functions[n].locals[i].level # Uninitialized)
                /\ LexicalFunctions[n].variables[i] \in Variables
<1>1. DOMAIN functions = 1 .. F /\ functions[n] \in Compilers
  BY TopFacts DEF AllFormed, Formed
<1>2. LexicalFunctions[n] = View(functions[n]) /\ DOMAIN LexicalFunctions = 1 .. F
  BY <1>1, LexicalTop
<1>3. /\ functions[n].locals \in Seq(Locals) /\ functions[n].level \in Nat
      /\ DOMAIN functions[n].locals = 1 .. Len(functions[n].locals)
  BY <1>1, CompilerFields
<1>4. /\ DOMAIN View(functions[n]).variables = 1 .. Len(functions[n].locals)
      /\ \A i \in 1 .. Len(functions[n].locals) :
            View(functions[n]).variables[i] = Seen(functions[n].locals[i], functions[n].level)
  BY <1>1, ViewTypes
<1>5. ASSUME NEW i \in DOMAIN functions[n].locals
      PROVE  /\ LexicalFunctions[n].variables[i].name = functions[n].locals[i].name
             /\ LexicalFunctions[n].variables[i].ready
                     = (functions[n].locals[i].level # Uninitialized)
             /\ LexicalFunctions[n].variables[i] \in Variables
  <2>1. functions[n].locals[i] \in Locals
    BY <1>3, Element
  <2>2. LexicalFunctions[n].variables[i] = Seen(functions[n].locals[i], functions[n].level)
    BY <1>2, <1>3, <1>4
  <2>3. QED BY <1>3, <2>1, <2>2, SeenTypes
<1>6. QED BY <1>1, <1>2, <1>3, <1>4, <1>5

LEMMA SearchFacts ==
    ASSUME AllFormed, Rest, search.step \in {"find", "add"}
    PROVE  /\ search \in Steps /\ search.at \in DOMAIN functions /\ search.name \in Names
           /\ search.of \in Positions /\ search.at \in Nat /\ search.at >= 1
<1>1. search # Idle
  BY DEF Idle
<1>2. search \in Steps /\ search.at \in DOMAIN functions
  BY <1>1 DEF Rest
<1>3. QED BY <1>2 DEF Steps

LEMMA NotHereMaps ==
    ASSUME AllFormed, Rest, Lexes, Fine, NotHere
    PROVE  Mapped /\ Lexes'
<1>1. /\ functions' = functions /\ phase' = phase /\ error' = error /\ search.step = "find"
      /\ \A i \in DOMAIN functions[search.at].locals :
            functions[search.at].locals[i].name # search.name
  BY DEF NotHere
<1>2. search.at \in DOMAIN functions /\ search.name \in Names /\ search.at \in Nat /\ search.at >= 1
  BY <1>1, SearchFacts
<1>3. DOMAIN functions = 1 .. F /\ F \in Nat
  BY TopFacts
<1>4. LexicalFunctions' = LexicalFunctions /\ LexicalAnswer = L!None
  BY <1>1, LexicalIs, Answers
<1>5. \A m \in DOMAIN functions : m >= search.at =>
          \A i \in DOMAIN functions[m].locals : functions[m].locals[i].name # search.name
  <2>1. \A m \in DOMAIN functions : m >= search.at => m = search.at \/ m > search.at
    BY <1>2, <1>3
  <2>2. QED BY <1>1, <2>1 DEF Lexes, Passed
<1>6. CASE search.at = 1
  <2>1. search'.step = "done" /\ search'.of = Global
    BY <1>6 DEF NotHere, Step
  <2>2. LexicalAnswer' = L!Global
    BY <2>1, AnswersNext DEF Global, L!Global
  <2>3. \A n \in DOMAIN LexicalFunctions : \A i \in DOMAIN LexicalFunctions[n].variables :
            LexicalFunctions[n].variables[i].name # search.name
    <3>1. ASSUME NEW n \in DOMAIN LexicalFunctions, NEW i \in DOMAIN LexicalFunctions[n].variables
          PROVE  LexicalFunctions[n].variables[i].name # search.name
      <4>1. n \in DOMAIN functions /\ n >= search.at
        BY <1>3, <1>6, LexicalTop
      <4>2. /\ i \in DOMAIN functions[n].locals
            /\ LexicalFunctions[n].variables[i].name = functions[n].locals[i].name
        BY <3>1, <4>1, ViewNames
      <4>3. QED BY <1>5, <4>1, <4>2
    <3>2. QED BY <3>1
  <2>4. L!Resolve(search.name)
    BY <1>1, <1>4, <2>2, <2>3, Zenon DEF L!Resolve
  <2>5. Passed'
    BY <2>1 DEF Passed
  <2>6. QED BY <1>1, <1>2, <2>4, <2>5, StillLexes DEF Mapped, L!Next, Fine
<1>7. CASE search.at # 1
  <2>1. search'.step = "find" /\ search'.at = search.at - 1 /\ search'.name = search.name
    BY <1>7 DEF NotHere, Step
  <2>2. LexicalAnswer' = LexicalAnswer
    BY <1>4, <2>1, AnswersNext
  <2>3. Passed'
    <3>1. \A m \in DOMAIN functions : m > search'.at => m >= search.at
      BY <1>2, <1>3, <2>1
    <3>2. QED BY <1>1, <1>5, <2>1, <3>1 DEF Passed
  <2>4. QED BY <1>1, <2>2, <2>3, NothingMapped, StillLexes
<1>8. QED BY <1>6, <1>7

LEMMA FoundMeans ==
    ASSUME AllFormed, Rest, Lexes, search.step = "find",
           NEW i \in DOMAIN functions[search.at].locals,
           Last(search.name, functions[search.at].locals, i)
    PROVE  L!Means(search.name, search.at, i)
<1> DEFINE n == search.at
<1>1. n \in DOMAIN functions /\ n \in Nat
  BY SearchFacts
<1>2. DOMAIN functions = 1 .. F /\ DOMAIN LexicalFunctions = 1 .. F /\ F \in Nat
  BY TopFacts, LexicalTop
<1>3. DOMAIN functions[n].locals = 1 .. Len(functions[n].locals)
  BY <1>1, CompilerFields DEF AllFormed, Formed
<1>4. LexicalFunctions[n].variables[i].name = search.name
  BY <1>1, ViewNames DEF Last
<1>5. ASSUME NEW j \in DOMAIN LexicalFunctions[n].variables, j > i
      PROVE  LexicalFunctions[n].variables[j].name # search.name
  <2>1. /\ j \in DOMAIN functions[n].locals
        /\ LexicalFunctions[n].variables[j].name = functions[n].locals[j].name
    BY <1>1, <1>5, ViewNames
  <2>2. j \in i + 1 .. Len(functions[n].locals)
    BY <1>3, <1>5, <2>1
  <2>3. QED BY <2>1, <2>2 DEF Last
<1>6. ASSUME NEW m \in DOMAIN LexicalFunctions, m > n, NEW j \in DOMAIN LexicalFunctions[m].variables
      PROVE  LexicalFunctions[m].variables[j].name # search.name
  <2>1. m \in DOMAIN functions
    BY <1>2
  <2>2. /\ j \in DOMAIN functions[m].locals
        /\ LexicalFunctions[m].variables[j].name = functions[m].locals[j].name
    BY <1>6, <2>1, ViewNames
  <2>3. QED BY <1>6, <2>1, <2>2 DEF Lexes, Passed
<1>7. QED BY <1>4, <1>5, <1>6 DEF L!Means

Takes(n, i, t) ==
    \/ functions' = functions /\ LexicalFunctions[n].variables[i].taken = t
    \/ functions' = [functions EXCEPT ![n] = Captured(functions[n], i)] /\ t = TRUE

Taking(s, n, i, t) == [s EXCEPT ![n].variables[i].taken = t]

LEMMA TakenView ==
    ASSUME AllFormed, NEW n \in DOMAIN functions, NEW i \in DOMAIN functions[n].locals,
           NEW t \in BOOLEAN, Takes(n, i, t)
    PROVE  LexicalFunctions' = Taking(LexicalFunctions, n, i, t)
<1> DEFINE vs == LexicalFunctions[n].variables
           v == vs[i]
           level == functions[n].level
           ws == [vs EXCEPT ![i] = [v EXCEPT !.taken = t]]
           r == LexicalFunctions[n]
<1>1. Formed(functions[n]) /\ functions[n] \in Compilers /\ DOMAIN functions = 1 .. F
  BY TopFacts DEF AllFormed, Formed
<1>2. LexicalFunctions[n] = View(functions[n]) /\ n \in DOMAIN LexicalFunctions
  BY <1>1, LexicalTop
<1>3. LexicalFunctions[n] = [level |-> level, variables |-> vs]
  <2>1. View(functions[n]) = [level |-> level, variables |-> View(functions[n]).variables]
    BY DEF View
  <2>2. QED BY <1>2, <2>1, Zenon
<1>4. v \in Variables /\ i \in DOMAIN vs
  BY ViewNames
<1>5. Taking(LexicalFunctions, n, i, t) =
        [LexicalFunctions EXCEPT ![n] = [r EXCEPT !.variables = ws]]
  BY DEF Taking
<1>6. [r EXCEPT !.variables = ws] = [level |-> level, variables |-> ws]
  <2> HIDE DEF vs, ws, level
  <2>1. [[level |-> level, variables |-> vs] EXCEPT !.variables = ws] =
          [level |-> level, variables |-> ws]
    BY VariablesChange
  <2>2. QED BY <1>3, <2>1, Zenon
<1> HIDE DEF r
<1>7. CASE functions' = functions /\ v.taken = t
  <2>1. [v EXCEPT !.taken = t] = v
    <3> HIDE DEF v
    <3>1. [v EXCEPT !.taken = t] = [name |-> v.name, scope |-> v.scope, ready |-> v.ready, taken |-> t]
      BY <1>4, TakenChanges
    <3>2. v = [name |-> v.name, scope |-> v.scope, ready |-> v.ready, taken |-> v.taken]
      BY <1>4, VariableIs
    <3>3. QED BY <1>7, <3>1, <3>2, Zenon
  <2>2. ws = vs
    <3>1. vs \in Seq(Variables)
      BY <1>1, <1>2, ViewTypes
    <3>2. ws = [vs EXCEPT ![i] = v]
      BY <2>1, Zenon
    <3> DEFINE x == vs
    <3>3. [x EXCEPT ![i] = x[i]] = x
      <4>1. x \in Seq(Variables)
        BY <3>1
      <4> HIDE DEF x
      <4>2. QED BY <4>1
    <3>4. QED BY <3>2, <3>3
  <2>3. [r EXCEPT !.variables = ws] = LexicalFunctions[n]
    BY <1>3, <1>6, <2>2, Zenon
  <2>4. LexicalFunctions = ViewsOf(functions) /\ LexicalFunctions' = LexicalFunctions
    BY <1>7, LexicalIs
  <2>5. [LexicalFunctions EXCEPT ![n] = LexicalFunctions[n]] = LexicalFunctions
    BY <2>4 DEF ViewsOf
  <2>6. QED BY <1>5, <2>3, <2>4, <2>5, Zenon
<1>8. CASE functions' = [functions EXCEPT ![n] = Captured(functions[n], i)] /\ t = TRUE
  <2> DEFINE c == Captured(functions[n], i)
  <2>1. Formed(c)
    BY <1>1, CapturedForms
  <2>2. View(c) = [level |-> level, variables |-> ws]
    <3>1. View(c) =
             [level |-> functions[n].level,
              variables |-> [View(functions[n]).variables EXCEPT ![i] =
                               [View(functions[n]).variables[i] EXCEPT !.taken = TRUE]]]
      BY <1>1, CapturedView
    <3>2. QED BY <1>2, <1>8, <3>1, Zenon
  <2> HIDE DEF c, ws, vs, v, level
  <2>3. LexicalFunctions' = [LexicalFunctions EXCEPT ![n] = View(c)]
    <3>1. functions' = [functions EXCEPT ![n] = c]
      BY <1>8 DEF c
    <3>2. QED BY <2>1, <3>1, LexicalUpdate
  <2>4. QED BY <1>5, <1>6, <2>2, <2>3, Zenon
<1>9. QED BY <1>7, <1>8 DEF Takes

LEMMA FoundMaps ==
    ASSUME AllFormed, Rest, Lexes, Fine, Found
    PROVE  Mapped /\ Lexes'
<1> DEFINE n == search.at
           name == search.name
<1>1. /\ search.step = "find" /\ phase' = phase /\ error = ""
      /\ n \in DOMAIN functions /\ n \in Nat /\ name \in Names
  BY SearchFacts DEF Found, Fine
<1>2. /\ DOMAIN functions = 1 .. F /\ F \in Nat /\ L!F = F
      /\ DOMAIN LexicalFunctions = 1 .. F /\ Formed(functions[n])
  BY <1>1, TopFacts, LexicalTop DEF AllFormed
<1>3. PICK i \in DOMAIN functions[n].locals :
        /\ Last(name, functions[n].locals, i)
        /\ Report(IF functions[n].locals[i].level = Uninitialized THEN "own initializer" ELSE "")
        /\ IF n = F
           THEN /\ search' = Step("done", search.name, n, i, <<n, i>>)
                /\ UNCHANGED functions
           ELSE /\ search' = Step("add", search.name, n + 1, i, <<n, i>>)
                /\ functions' = [functions EXCEPT ![n] = Captured(@, i)]
  BY <1>1 DEF Found
<1>4. L!Means(name, n, i)
  BY <1>1, <1>3, FoundMeans
<1>5. /\ n \in DOMAIN LexicalFunctions /\ i \in DOMAIN LexicalFunctions[n].variables
      /\ LexicalFunctions[n].variables[i].ready = (functions[n].locals[i].level # Uninitialized)
      /\ LexicalFunctions[n].variables[i] \in Variables
  BY <1>1, <1>3, ViewNames
<1>6. LexicalAnswer = L!None
  BY <1>1, Answers
<1>7. search'.step \in {"add", "done"} /\ search'.of = <<n, i>>
  <2>1. CASE n = F
    <3>1. search' = Step("done", search.name, n, i, <<n, i>>)
      BY <1>3, <2>1
    <3>2. QED BY <3>1 DEF Step
  <2>2. CASE n # F
    <3>1. search' = Step("add", search.name, n + 1, i, <<n, i>>)
      BY <1>3, <2>2
    <3>2. QED BY <3>1 DEF Step
  <2>3. QED BY <2>1, <2>2
<1>8. ASSUME functions[n].locals[i].level = Uninitialized PROVE Mapped
  <2>1. error' = "own initializer"
    BY <1>1, <1>3, <1>8 DEF Report
  <2>2. ~LexicalFunctions[n].variables[i].ready
    BY <1>5, <1>8
  <2>3. L!Resolve(name)
    BY <1>4, <1>5, <1>6, <2>1, <2>2, Zenon DEF L!Resolve
  <2>4. QED
    <3>1. \E x \in Names : L!Resolve(x)
      BY <1>1, <2>3
    <3>2. L!Next
      BY <1>1, <3>1, Zenon DEF L!Next
    <3>3. QED BY <3>2 DEF Mapped
<1>9. ASSUME functions[n].locals[i].level # Uninitialized PROVE Mapped
  <2>1. error' = error
    BY <1>1, <1>3, <1>9 DEF Report
  <2>2. LexicalFunctions[n].variables[i].ready
    BY <1>5, <1>9
  <2>3. LexicalAnswer' = <<n, i>>
    BY <1>7, AnswersNext
  <2>4. PICK t \in BOOLEAN : t <=> (LexicalFunctions[n].variables[i].taken \/ n < L!F)
    OBVIOUS
  <2>5. Takes(n, i, t)
    <3> DEFINE v == LexicalFunctions[n].variables[i]
    <3>1. CASE n = F
      <4>1. functions' = functions
        BY <1>3, <3>1
      <4>2. ~(n < L!F)
        BY <1>2, <3>1
      <4>3. v.taken \in BOOLEAN
        <5>1. v \in Variables
          BY <1>5
        <5> HIDE DEF v
        <5>2. QED BY <5>1 DEF Variables
      <4>4. t <=> v.taken
        BY <2>4, <4>2
      <4> HIDE DEF v
      <4>5. v.taken = t
        BY <4>3, <4>4
      <4>6. QED BY <4>1, <4>5 DEF Takes, v
    <3>2. CASE n # F
      <4>1. functions' = [functions EXCEPT ![n] = Captured(functions[n], i)]
        BY <1>1, <1>3, <3>2
      <4>2. n < L!F
        <5>1. n \in 1 .. F /\ n # F /\ F \in Nat
          BY <1>1, <1>2, <3>2
        <5> HIDE DEF n
        <5>2. n < F
          BY <5>1
        <5>3. QED BY <1>2, <5>2, Zenon
      <4>3. t = TRUE
        BY <2>4, <4>2
      <4>4. QED BY <4>1, <4>3 DEF Takes
    <3>3. QED BY <3>1, <3>2
  <2>6. LexicalFunctions' = Taking(LexicalFunctions, n, i, t)
    <3> HIDE DEF n
    <3>1. n \in DOMAIN functions /\ i \in DOMAIN functions[n].locals
      BY <1>1
    <3>2. QED BY <2>5, <3>1, TakenView
  <2>7. LexicalFunctions' = [LexicalFunctions EXCEPT ![n].variables[i].taken = @ \/ n < L!F]
    BY <2>4, <2>6 DEF Taking
  <2>8. L!Resolve(name)
    BY <1>4, <1>5, <1>6, <2>1, <2>2, <2>3, <2>7, Zenon DEF L!Resolve
  <2>9. QED
    <3>1. \E x \in Names : L!Resolve(x)
      BY <1>1, <2>8
    <3>2. L!Next
      BY <1>1, <3>1, Zenon DEF L!Next
    <3>3. QED BY <3>2 DEF Mapped
<1>10. Lexes'
  <2>1. Passed'
    BY <1>7 DEF Passed
  <2>2. CASE n = F
    BY <1>1, <1>3, <2>1, <2>2, StillLexes
  <2>3. CASE n # F
    <3> DEFINE c == Captured(functions[n], i)
    <3>1. functions' = [functions EXCEPT ![n] = c]
      BY <1>1, <1>3, <2>3
    <3>2. /\ Formed(c) /\ c.level = functions[n].level
          /\ Len(c.locals) = Len(functions[n].locals)
          /\ DOMAIN c.locals = DOMAIN functions[n].locals
          /\ c.locals = [functions[n].locals EXCEPT ![i] = [functions[n].locals[i] EXCEPT !.captured = TRUE]]
      BY <1>2, CapturedForms
    <3> HIDE DEF c
    <3>3. SameScopes(functions[n], c)
      <4>1. /\ functions[n].locals \in Seq(Locals)
            /\ DOMAIN functions[n].locals = 1 .. Len(functions[n].locals)
        BY <1>2, CompilerFields DEF Formed
      <4>2. functions[n].locals[i] \in Locals
        BY <4>1, Element
      <4>3. [functions[n].locals[i] EXCEPT !.captured = TRUE].level = functions[n].locals[i].level
        BY <4>2 DEF Locals
      <4>4. \A j \in DOMAIN functions[n].locals : c.locals[j].level = functions[n].locals[j].level
        BY <3>2, <4>3
      <4>5. QED BY <3>2, <4>4 DEF SameScopes
    <3>4. /\ F' = F /\ functions'[n] = c
          /\ \A m \in DOMAIN functions : m # n => functions'[m] = functions[m]
      BY <1>1, <3>1, <3>2, UpdateForms
    <3>5. \A m \in DOMAIN functions : SameScopes(functions[m], functions'[m])
      BY <3>3, <3>4 DEF SameScopes
    <3>6. QED BY <1>1, <2>1, <3>4, <3>5, StableLexes
  <2>4. QED BY <2>2, <2>3
<1>11. QED BY <1>8, <1>9, <1>10

LEMMA AddUpvalueMaps ==
    ASSUME AllFormed, AllFormed', Rest, Lexes, Fine, AddUpvalue
    PROVE  Mapped /\ Lexes'
<1> DEFINE n == search.at
<1>1. /\ search.step = "add" /\ phase' = phase /\ n \in DOMAIN functions
      /\ functions[n] \in Compilers /\ functions \in Seq(Compilers) /\ n \in 1 .. Len(functions)
  BY SearchFacts, TopFacts DEF AddUpvalue, AllFormed, Formed, F
<1>2. ASSUME NEW index, Return(index)
      PROVE  search'.step \in {"add", "done"} /\ search'.of = search.of
  <2>1. CASE search.at = F
    <3>1. search' = Step("done", search.name, F, index, search.of)
      BY <1>2, <2>1 DEF Return
    <3>2. QED BY <3>1, StepFields
  <2>2. CASE search.at # F
    <3>1. search' = Step("add", search.name, search.at + 1, index, search.of)
      BY <1>2, <2>2 DEF Return
    <3>2. QED BY <3>1, StepFields
  <2>3. QED BY <2>1, <2>2
<1>3. search'.step \in {"add", "done"} /\ search'.of = search.of
  BY <1>2 DEF AddUpvalue
<1>4. Passed' /\ LexicalAnswer' = LexicalAnswer
  BY <1>1, <1>3, Answers, AnswersNext DEF Passed
<1>5. \/ functions' = functions /\ error' = error
      \/ functions' = functions /\ Report("limit")
      \/ /\ error' = error
         /\ \E u : functions' = [functions EXCEPT ![n] = WithUpvalue(functions[n], u)]
  BY <1>1 DEF AddUpvalue
<1>6. CASE functions' = functions /\ error' = error
  BY <1>1, <1>4, <1>6, NothingMapped, StillLexes
<1>7. CASE functions' = functions /\ Report("limit")
  <2>1. L!Limit
    BY <1>7 DEF Report, L!Limit, Fine
  <2>2. QED BY <1>1, <1>4, <1>7, <2>1, StillLexes DEF Mapped, L!Next, Fine
<1>8. CASE /\ error' = error
           /\ \E u : functions' = [functions EXCEPT ![n] = WithUpvalue(functions[n], u)]
  <2>1. PICK u : functions' = [functions EXCEPT ![n] = WithUpvalue(functions[n], u)]
    BY <1>8
  <2> DEFINE c == WithUpvalue(functions[n], u)
  <2>2. c.level = functions[n].level /\ c.locals = functions[n].locals
    BY <1>1 DEF WithUpvalue, Compilers
  <2>3. functions' = [functions EXCEPT ![n] = c]
    BY <2>1
  <2> HIDE DEF c, n
  <2>4. Formed(c)
    <3>1. functions'[n] = c /\ n \in DOMAIN functions'
      BY <1>1, <2>3
    <3>2. QED BY <3>1, NextFormed
  <2>5. LexicalFunctions' = LexicalFunctions
    <3>1. LexicalFunctions' = [LexicalFunctions EXCEPT ![n] = View(c)]
      BY <1>1, <2>3, <2>4, LexicalUpdate
    <3>2. View(c) = View(functions[n])
      BY <2>2, SameView
    <3>3. LexicalFunctions[n] = View(functions[n]) /\ LexicalFunctions = ViewsOf(functions)
      BY <1>1, LexicalTop, LexicalIs DEF F
    <3>4. QED BY <3>1, <3>2, <3>3 DEF ViewsOf
  <2>6. Lexes'
    <3>1. /\ F' = F /\ functions'[n] = c
          /\ \A m \in DOMAIN functions : m # n => functions'[m] = functions[m]
      BY <1>1, <2>3, <2>4, UpdateForms
    <3>2. \A m \in DOMAIN functions : SameScopes(functions[m], functions'[m])
      BY <2>2, <3>1 DEF SameScopes
    <3>3. QED BY <1>1, <1>4, <3>1, <3>2, StableLexes
  <2>7. QED BY <1>4, <1>8, <2>5, <2>6 DEF Mapped
<1>9. QED BY <1>5, <1>6, <1>7, <1>8

(* Every step without an error.                                            *)
LEMMA LexesStep ==
    ASSUME Shape, Shape', Lexes, Fine, Next
    PROVE  Mapped /\ (Fine' => Lexes')
<1>1. AllFormed /\ Rest /\ AllFormed'
  <2>1. Shape => AllFormed /\ Rest
    BY ShapeParts
  <2>2. Shape' => AllFormed'
    BY <2>1, ShapeParts, PTL
  <2>3. QED BY <2>1, <2>2
<1>2. ASSUME NEW name \in Identifiers, VarDeclaration(name) PROVE Mapped /\ (Fine' => Lexes')
  BY <1>1, <1>2, VarDeclarationMaps
<1>3. ASSUME NEW name \in Identifiers,
             FuncDeclaration(name) \/ Parameter(name) \/ ClassDeclaration(name)
      PROVE  Mapped /\ (Fine' => Lexes')
  <2>1. /\ search = Idle /\ Declared(name)
        /\ phase # "initializer" /\ phase' # "initializer" /\ phase' # "superclass"
    BY <1>3 DEF FuncDeclaration, Parameter, ClassDeclaration, In
  <2>2. QED BY <1>1, <2>1, DeclaredMaps
<1>4. CASE DefineVariable
  BY <1>1, <1>4, DefineVariableMaps
<1>5. CASE BlockBegin
  <2>1. /\ search = Idle /\ search' = Idle /\ error' = error /\ phase # "initializer"
        /\ Opens("block", 1) /\ phase' = "statement"
    BY <1>5 DEF BlockBegin, In
  <2>2. QED BY <1>1, <2>1, OpensMaps
<1>6. CASE ClassBegin
  <2>1. /\ search = Idle /\ search' = Idle /\ error' = error /\ phase # "initializer"
        /\ Opens("class", 0) /\ phase' = "class"
    BY <1>6 DEF ClassBegin, In
  <2>2. QED BY <1>1, <2>1, OpensMaps
<1>7. CASE SubclassBegin
  <2>1. /\ search = Idle /\ search' = Idle /\ error' = error /\ phase # "initializer"
        /\ Opens("subclass", 1) /\ phase' = "superclass"
    BY <1>7 DEF SubclassBegin, In
  <2>2. QED BY <1>1, <2>1, OpensMaps
<1>8. CASE BlockEnd \/ ClassEnd
  <2>1. /\ search = Idle /\ search' = Idle /\ error' = error /\ phase # "initializer"
        /\ phase' = "statement"
        /\ scope_exit \/ functions' = [functions EXCEPT ![F] = Closing(@)]
    BY <1>8 DEF BlockEnd, ClassEnd, In
  <2>2. QED BY <1>1, <2>1, ExitMaps, ClosedMaps
<1>9. CASE FunctionBegin \/ MethodBegin
  <2>1. PICK type \in {"function", "method"} : Begin(type)
    BY <1>9 DEF FunctionBegin, MethodBegin
  <2>2. search = Idle /\ phase # "initializer"
    BY <1>9 DEF FunctionBegin, MethodBegin, In
  <2>3. QED BY <1>1, <2>1, <2>2, BeginMaps
<1>10. CASE BodyBegin
  <2>1. /\ functions' = functions /\ search' = search /\ error' = error /\ search = Idle
        /\ phase = "parameters" /\ phase' = "statement"
    BY <1>10 DEF BodyBegin, In
  <2>2. Lexes'
    <3>1. Proper(compiler, phase)' /\ Passed'
      BY <2>1 DEF Lexes, Proper, Whole, Settled, Passed, compiler, F, Idle
    <3>2. (\A n \in 1 .. F - 1 : Whole(functions[n]))'
      BY <2>1 DEF Lexes, Whole, Settled, F
    <3>3. QED BY <3>1, <3>2 DEF Lexes
  <2>3. LexicalAnswer' = LexicalAnswer
    BY <2>1 DEF LexicalAnswer
  <2>4. QED BY <2>1, <2>2, <2>3, NothingMapped
<1>11. CASE End
  BY <1>1, <1>11, EndMaps
<1>12. CASE Superclass
  BY <1>1, <1>12, SuperclassMaps
<1>13. CASE \E name \in Names : Use(name)
  BY <1>1, <1>13, UseMaps
<1>14. CASE Resolving
  <2>1. CASE Found
    BY <1>1, <2>1, FoundMaps
  <2>2. CASE NotHere
    BY <1>1, <2>2, NotHereMaps
  <2>3. CASE AddUpvalue
    BY <1>1, <2>3, AddUpvalueMaps
  <2>4. CASE Get \/ Assign \/ Set
    BY <1>1, <2>4, ResolvedMaps
  <2>5. QED BY <1>14, <2>1, <2>2, <2>3, <2>4 DEF Resolving
<1>15. QED
  BY <1>2, <1>3, <1>4, <1>5, <1>6, <1>7, <1>8, <1>9, <1>10, <1>11, <1>12, <1>13, <1>14 DEF Next

LEMMA LexesInit ==
    ASSUME Init
    PROVE  Lexes /\ L!Init
<1> DEFINE c == NewCompiler("script", 0)
<1>1. functions = <<c>> /\ phase = "statement" /\ search = Idle /\ error = ""
  BY DEF Init
<1>2. Formed(c) /\ Whole(c) /\ View(c) = L!NewFunction("this", 0)
  <2>1. View(c) = L!NewFunction(IF "script" = "function" THEN "" ELSE "this", 0)
    BY NewView
  <2> HIDE DEF c
  <2>2. View(c) = L!NewFunction("this", 0)
    BY <2>1
  <2>3. Formed(c) /\ Whole(c)
    BY NewForms, SettledNew DEF Whole, c
  <2>4. QED BY <2>2, <2>3
<1> HIDE DEF c
<1>3. F = 1 /\ compiler = c
  BY <1>1 DEF F, compiler
<1>4. Lexes
  <2>1. Proper(compiler, phase)
    BY <1>1, <1>2, <1>3 DEF Proper
  <2>2. Passed
    BY <1>1 DEF Passed, Idle
  <2>3. 1 .. F - 1 = {}
    BY <1>3
  <2>4. QED BY <2>1, <2>2, <2>3 DEF Lexes
<1>5. LexicalFunctions = <<L!NewFunction("this", 0)>>
  <2>1. LexicalFunctions = ViewsOf(<<c>>)
    BY <1>1, LexicalIs
  <2>2. ViewsOf(<<c>>) = <<View(c)>>
    <3>1. <<c>> \in Seq(Compilers) /\ Len(<<c>>) = 1 /\ <<c>>[1] = c /\ View(c) \in Views
      BY <1>2, ViewTypes DEF Formed
    <3>2. <<View(c)>> \in Seq(Views) /\ Len(<<View(c)>>) = 1 /\ <<View(c)>>[1] = View(c)
      BY <3>1
    <3> DEFINE fs == <<c>>
               vs == <<View(c)>>
    <3>3. ViewsOf(fs) \in Seq(Views) /\ Len(ViewsOf(fs)) = 1 /\ ViewsOf(fs)[1] = View(c)
      <4>1. fs \in Seq(Compilers) /\ Len(fs) = 1 /\ fs[1] = c
        BY <3>1
      <4> HIDE DEF fs
      <4>2. QED BY <4>1, ViewsTypes
    <3>4. vs \in Seq(Views) /\ Len(vs) = 1 /\ vs[1] = View(c)
      BY <3>2
    <3> HIDE DEF fs, vs
    <3>5. ViewsOf(fs) = vs
      BY <3>3, <3>4, SameSequence
    <3>6. QED BY <3>5 DEF fs, vs
  <2>3. QED BY <1>2, <2>1, <2>2, Zenon
<1>6. L!Init
  BY <1>1, <1>5, Answers DEF L!Init
<1>7. QED BY <1>4, <1>6

LEMMA ErrorStays ==
    ASSUME Next, error # ""
    PROVE  error' = error
BY DEF Next, Resolving, VarDeclaration, FuncDeclaration, Parameter, ClassDeclaration, Declared,
       DefineVariable, BlockBegin, BlockEnd, FunctionBegin, MethodBegin, Begin, BodyBegin, End,
       ClassBegin, SubclassBegin, Superclass, ClassEnd, Use, Found, NotHere, AddUpvalue, Get, Assign,
       Set, Report

LEMMA LexesHold == Spec => [](Fine => Lexes)
<1>1. Init => (Fine => Lexes)
  BY LexesInit
<1>2. Shape /\ Shape' /\ (Fine => Lexes) /\ [Next]_vars => (Fine => Lexes)'
  <2>1. ASSUME Shape, Lexes, UNCHANGED vars PROVE Lexes'
    <3>1. functions' = functions /\ phase' = phase /\ search' = search
      BY <2>1 DEF vars
    <3>2. Passed'
      BY <2>1, <3>1 DEF Lexes, Passed
    <3>3. QED BY <2>1, <3>1, <3>2, ShapeParts, StillLexes
  <2>2. UNCHANGED vars => (Fine' <=> Fine)
    BY DEF vars, Fine
  <2>3. Next /\ Fine' => Fine
    BY ErrorStays DEF Fine
  <2>4. QED BY <2>1, <2>2, <2>3, LexesStep
<1>3. QED BY <1>1, <1>2, ShapeHolds, PTL DEF Spec

(* Every name resolves to the variable of that name declared last in scope, the     *)
(* variables of a scope and no others go when it ends, those that inner functions *)
(* use are known by then, and the errors are those of the source: for programs of *)
(* every size, indices into arrays of locals and upvalues do what scopes mean.    *)
THEOREM ImplementsItsLexical == Spec => ImplementsLexical
<1>1. Init => L!Init
  BY LexesInit
<1>2. Shape /\ Shape' /\ (Fine => Lexes) /\ [Next]_vars => [L!Next]_(L!vars)
  <2>1. ASSUME UNCHANGED vars PROVE UNCHANGED L!vars
    <3>1. functions' = functions /\ search' = search /\ error' = error
      BY <2>1 DEF vars
    <3>2. LexicalFunctions' = LexicalFunctions
      BY <3>1, LexicalIs
    <3>3. LexicalAnswer' = LexicalAnswer
      BY <3>1 DEF LexicalAnswer
    <3>4. QED BY <3>1, <3>2, <3>3 DEF L!vars
  <2>2. ASSUME Next, ~Fine PROVE L!Next
    BY <2>2, ErrorStays DEF L!Next, Fine
  <2>3. ASSUME Shape, Shape', Lexes, Fine, Next PROVE [L!Next]_(L!vars)
    <3>1. Mapped
      BY <2>3, LexesStep
    <3>2. QED BY <3>1 DEF Mapped, L!vars
  <2>4. QED BY <2>1, <2>2, <2>3
<1>3. QED BY <1>1, <1>2, ShapeHolds, LexesHold, PTL DEF Spec, ImplementsLexical, L!Spec
=============================================================================
