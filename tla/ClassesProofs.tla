--------------------------- MODULE ClassesProofs ----------------------------
(***************************************************************************)
(* Classes for any number of classes, instances and calls: the copied tables *)
(* answer as a search along the superclasses would, and methods run for, and  *)
(* are bound to, instances that have their class on the line.               *)
(***************************************************************************)
EXTENDS Classes, TLAPS

First(l, n, i) == Promise!First(l, n, i)

(* The line of a class begins with it, goes on with older classes, and its    *)
(* rest is the line of the superclass.                                      *)
Lined(c) ==
    /\ Len(line[c]) > 0 /\ line[c][1] = c
    /\ \A k \in 2 .. Len(line[c]) : line[c][k] \in 1 .. c - 1
    /\ \A k \in DOMAIN line[c] : \A j \in DOMAIN line[line[c][k]] :
          \E i \in DOMAIN line[c] : line[c][i] = line[line[c][k]][j]
    /\ Len(line[c]) > 1 => Tail(line[c]) = line[line[c][2]]

(* Name n of class c: CopiesAreLookups with a witness for the search.        *)
Copy(c, n) ==
    LET m == methods[c][n]
    IN  /\ m = NoMethod => \A i \in DOMAIN line[c] : n \notin own[line[c][i]]
        /\ m # NoMethod =>
              /\ m.name = n
              /\ Belongs(c, m)
              /\ \E i \in DOMAIN line[c] : m.home = line[c][i] /\ First(line[c], n, i)

Sizes ==
    /\ methods \in Seq([Names -> Closures]) /\ Len(methods) <= ClassBound
    /\ own \in Seq(SUBSET Names) /\ Len(own) = Len(methods)
    /\ line \in Seq(Seq(1 .. ClassBound)) /\ Len(line) = Len(methods)

Tables ==
    /\ Sizes
    /\ \A c \in DOMAIN methods : Lined(c)
    /\ \A c \in DOMAIN methods, n \in Names : Copy(c, n)

(* What is reached from variables, fields and calls.                        *)
Good(v) ==
    /\ v \in Values
    /\ Exists(v)
    /\ v.kind = "bound" => Belongs(instances[v.of].class, v.method)
GoodFrame(f) ==
    /\ f \in Frames
    /\ f.this \in DOMAIN instances
    /\ Belongs(instances[f.this].class, f.method)
GoodObject(o) ==
    /\ o \in Objects
    /\ o.class \in DOMAIN methods
    /\ \A n \in Names : Good(o.fields[n])

Contents ==
    /\ instances \in Seq(Objects)
    /\ \A i \in DOMAIN instances : GoodObject(instances[i])
    /\ variables \in [Variables -> Values]
    /\ \A x \in Variables : Good(variables[x])
    /\ Good(value)
    /\ frames \in Seq(Frames)
    /\ \A k \in DOMAIN frames : GoodFrame(frames[k])

(* The class under declaration is the last one, and no instance is of it.    *)
Declared ==
    /\ klass = 0 => super = 0
    /\ klass \in 0 .. Len(methods)
    /\ klass # 0 =>
          /\ klass = Len(methods)
          /\ super = Superclass(klass)
          /\ \A i \in DOMAIN instances : instances[i].class # klass

IInv == Tables /\ Contents /\ Declared

-----------------------------------------------------------------------------
LEMMA Element ==
    ASSUME NEW S, NEW s \in Seq(S), NEW i \in 1 .. Len(s)
    PROVE  s[i] \in S
OBVIOUS

LEMMA Longer ==
    ASSUME NEW S, NEW s \in Seq(S), NEW e \in S
    PROVE  /\ Append(s, e) \in Seq(S)
           /\ Len(Append(s, e)) = Len(s) + 1
           /\ DOMAIN Append(s, e) = 1 .. Len(s) + 1
           /\ Append(s, e)[Len(s) + 1] = e
           /\ \A i \in 1 .. Len(s) : Append(s, e)[i] = s[i]
OBVIOUS

LEMMA Prefix ==
    ASSUME NEW S, NEW s \in Seq(S), NEW n \in 0 .. Len(s)
    PROVE  /\ Len(SubSeq(s, 1, n)) = n
           /\ \A i \in 1 .. n : SubSeq(s, 1, n)[i] = s[i]
OBVIOUS

LEMMA Replaced ==
    ASSUME NEW S, NEW s \in Seq(S), NEW n \in 1 .. Len(s), NEW e \in S
    PROVE  /\ [s EXCEPT ![n] = e] \in Seq(S)
           /\ Len([s EXCEPT ![n] = e]) = Len(s)
           /\ DOMAIN [s EXCEPT ![n] = e] = DOMAIN s
           /\ [s EXCEPT ![n] = e][n] = e
           /\ \A i \in 1 .. Len(s) : i # n => [s EXCEPT ![n] = e][i] = s[i]
OBVIOUS

LEMMA Joined ==
    ASSUME NEW S, NEW s \in Seq(S), NEW t \in Seq(S)
    PROVE  /\ s \o t \in Seq(S)
           /\ Len(s \o t) = Len(s) + Len(t)
           /\ \A i \in 1 .. Len(s) : (s \o t)[i] = s[i]
           /\ \A i \in 1 .. Len(t) : (s \o t)[Len(s) + i] = t[i]
OBVIOUS

LEMMA ClosureForms ==
    ASSUME NEW m \in Closures
    PROVE  m.home \in 0 .. ClassBound /\ m.name \in Names /\ m.super \in 0 .. ClassBound
BY DEF Closures

LEMMA NewClosure ==
    ASSUME NEW c \in 0 .. ClassBound, NEW n \in Names, NEW s \in 0 .. ClassBound
    PROVE  /\ Closure(c, n, s) \in Closures
           /\ Closure(c, n, s).home = c
           /\ Closure(c, n, s).name = n
           /\ Closure(c, n, s).super = s
BY DEF Closure, Closures

LEMMA NoMethodIsClosure == NoMethod \in Closures /\ NoMethod.home = 0
BY NewClosure, ClassesAssumption, 0 \in 0 .. ClassBound DEF NoMethod

LEMMA NewValue ==
    ASSUME NEW kind \in {"nil", "class", "instance", "bound"}, NEW of \in Nat,
           NEW m \in Closures
    PROVE  /\ Value(kind, of, m) \in Values
           /\ Value(kind, of, m).kind = kind
           /\ Value(kind, of, m).of = of
           /\ Value(kind, of, m).method = m
BY DEF Value, Values

LEMMA ValueForms ==
    ASSUME NEW v \in Values
    PROVE  /\ v.kind \in {"nil", "class", "instance", "bound"}
           /\ v.of \in Nat
           /\ v.method \in Closures
BY DEF Values

LEMMA ObjectForms ==
    /\ \A o \in Objects : o.class \in 1 .. ClassBound /\ o.fields \in [Names -> Values]
    /\ \A c \in 1 .. ClassBound, f \in [Names -> Values] :
          [class |-> c, fields |-> f] \in Objects
BY DEF Objects

LEMMA FrameForms ==
    /\ \A f \in Frames : f.this \in Nat /\ f.method \in Closures
    /\ \A i \in Nat, m \in Closures : [this |-> i, method |-> m] \in Frames
BY DEF Frames

LEMMA GoodNil == Good(Nil)
BY NewValue, NoMethodIsClosure DEF Good, Nil, Exists

LEMMA GoodClass ==
    ASSUME NEW c \in DOMAIN methods, Sizes
    PROVE  Good(Class(c))
BY NewValue, NoMethodIsClosure DEF Good, Class, Exists, Sizes

LEMMA GoodInstance ==
    ASSUME NEW i \in DOMAIN instances, instances \in Seq(Objects)
    PROVE  Good(Instance(i))
BY NewValue, NoMethodIsClosure DEF Good, Instance, Exists

LEMMA GoodBound ==
    ASSUME NEW i \in DOMAIN instances, instances \in Seq(Objects), NEW m \in Closures,
           Belongs(instances[i].class, m)
    PROVE  Good(BoundMethod(i, m))
BY NewValue DEF Good, BoundMethod, Exists

-----------------------------------------------------------------------------
(* What is held stays good while the lines of finished classes do not change. *)

Steady ==
    /\ DOMAIN methods \subseteq DOMAIN methods'
    /\ \A c \in DOMAIN methods : c # klass => line'[c] = line[c]
    /\ DOMAIN instances \subseteq DOMAIN instances'
    /\ \A i \in DOMAIN instances : instances'[i].class = instances[i].class

LEMMA BelongsStays ==
    ASSUME Tables, Declared, Steady, NEW c \in DOMAIN methods, c # klass,
           NEW m \in Closures, Belongs(c, m)
    PROVE  Belongs(c, m)'
<1>1. /\ Lined(c) /\ line[c] \in Seq(1 .. ClassBound)
      /\ DOMAIN methods = 1 .. Len(methods) /\ Len(methods) \in Nat
      /\ klass # 0 => klass = Len(methods)
  BY DEF Tables, Sizes, Declared
<1>2. PICK k \in DOMAIN line[c] : line[c][k] = m.home
  BY DEF Belongs
<1>3. m.home \in DOMAIN methods /\ m.home # klass
  <2>1. k = 1 \/ k \in 2 .. Len(line[c])
    BY <1>1, <1>2
  <2>2. m.home = c \/ m.home \in 1 .. c - 1
    BY <1>1, <1>2, <2>1 DEF Lined
  <2> QED
    BY <1>1, <2>2
<1>4. line'[c] = line[c] /\ line'[m.home] = line[m.home]
  BY <1>3 DEF Steady
<1> QED
  BY <1>2, <1>4 DEF Belongs, Superclass

LEMMA GoodStays ==
    ASSUME Tables, Declared, Contents, Steady, NEW v, Good(v)
    PROVE  Good(v)'
<1>1. v \in Values /\ Exists(v)
  BY DEF Good
<1>2. Exists(v)'
  BY <1>1 DEF Exists, Steady
<1>3. ASSUME v.kind = "bound" PROVE Belongs(instances[v.of].class, v.method)'
  <2>1. v.of \in DOMAIN instances /\ v.method \in Closures
    BY <1>1, <1>3, ValueForms DEF Exists
  <2>2. instances[v.of].class \in DOMAIN methods /\ instances[v.of].class # klass
    BY <2>1 DEF Contents, GoodObject, Declared, Tables, Sizes
  <2>3. Belongs(instances[v.of].class, v.method)
    BY <1>3 DEF Good
  <2>4. PICK c : c = instances[v.of].class
    OBVIOUS
  <2>5. Belongs(c, v.method)'
    BY <2>1, <2>2, <2>3, <2>4, BelongsStays
  <2> QED
    BY <2>1, <2>4, <2>5 DEF Steady, Belongs, Superclass
<1> QED
  BY <1>1, <1>2, <1>3 DEF Good

LEMMA GoodFrameStays ==
    ASSUME Tables, Declared, Contents, Steady, NEW f, GoodFrame(f)
    PROVE  GoodFrame(f)'
<1>1. f \in Frames /\ f.this \in DOMAIN instances /\ f.method \in Closures
  BY FrameForms DEF GoodFrame
<1>2. instances[f.this].class \in DOMAIN methods /\ instances[f.this].class # klass
  BY <1>1 DEF Contents, GoodObject, Declared, Tables, Sizes
<1>3. PICK c : c = instances[f.this].class
  OBVIOUS
<1>4. Belongs(c, f.method)'
  BY <1>1, <1>2, <1>3, BelongsStays DEF GoodFrame
<1> QED
  BY <1>1, <1>3, <1>4 DEF Steady, Belongs, Superclass, GoodFrame
-----------------------------------------------------------------------------
(* What a table answers.                                                   *)

(* The part of a line at or below a class.                                  *)
LEMMA Older ==
    ASSUME Tables, NEW d \in DOMAIN methods, NEW k \in DOMAIN line[d]
    PROVE  line[d][k] \in 1 .. d /\ 1 .. d \subseteq DOMAIN methods
<1>1. Lined(d) /\ line[d] \in Seq(1 .. ClassBound) /\ d \in Nat
      /\ DOMAIN methods = 1 .. Len(methods)
  BY Element DEF Tables, Sizes
<1>2. k = 1 \/ k \in 2 .. Len(line[d])
  BY <1>1
<1>3. line[d][k] = d \/ line[d][k] \in 1 .. d - 1
  BY <1>1, <1>2 DEF Lined
<1> QED
  BY <1>1, <1>3

LEMMA Found ==
    ASSUME Tables, NEW c \in DOMAIN methods, NEW n \in Names
    PROVE  /\ methods[c][n] \in Closures
           /\ methods[c][n] # NoMethod => Belongs(c, methods[c][n])
<1>1. methods[c] \in [Names -> Closures]
  BY DEF Tables, Sizes
<1>2. Copy(c, n)
  BY DEF Tables
<1> QED
  BY <1>1, <1>2 DEF Copy

(* The variable `super` of a method holds the class that follows its own.     *)
LEMMA SuperLine ==
    ASSUME Tables, NEW c \in DOMAIN methods, NEW m \in Closures, Belongs(c, m),
           m.super # 0
    PROVE  /\ m.super \in DOMAIN methods /\ m.home \in DOMAIN methods
           /\ 2 \in DOMAIN line[m.home] /\ line[m.home][2] = m.super
           /\ Tail(line[m.home]) = line[m.super]
<1>1. PICK h, s : h = m.home /\ s = m.super
  OBVIOUS
<1>2. PICK k \in DOMAIN line[c] : line[c][k] = h
  BY <1>1 DEF Belongs
<1>3. /\ h \in DOMAIN methods /\ h \in Nat /\ Lined(h)
      /\ line[h] \in Seq(1 .. ClassBound) /\ 1 .. h \subseteq DOMAIN methods
  <2>1. DOMAIN methods = 1 .. Len(methods) /\ Len(methods) \in Nat
    BY DEF Tables, Sizes
  <2>2. h \in DOMAIN methods
    BY <1>2, Older
  <2> QED
    BY <2>1, <2>2, Element DEF Tables, Sizes
<1>4. Len(line[h]) > 1 /\ s = line[h][2]
  BY <1>1 DEF Belongs, Superclass
<1>5. s \in 1 .. h - 1 /\ Tail(line[h]) = line[s] /\ 2 \in DOMAIN line[h]
  BY <1>3, <1>4 DEF Lined
<1>6. s \in DOMAIN methods
  BY <1>3, <1>5
<1> QED
  BY <1>1, <1>3, <1>4, <1>5, <1>6

(* What is found above the class of a method belongs to its receiver.        *)
LEMMA FoundAbove ==
    ASSUME Tables, NEW c \in DOMAIN methods, NEW m \in Closures, Belongs(c, m),
           m.super # 0, NEW n \in Names, methods[m.super][n] # NoMethod
    PROVE  /\ methods[m.super][n] \in Closures
           /\ Belongs(c, methods[m.super][n])
<1>1. PICK h, s, f : h = m.home /\ s = m.super /\ f = methods[s][n]
  OBVIOUS
<1>2. /\ s \in DOMAIN methods /\ h \in DOMAIN methods
      /\ 2 \in DOMAIN line[h] /\ line[h][2] = s
  BY <1>1, SuperLine
<1>3. f \in Closures /\ Belongs(s, f)
  BY <1>1, <1>2, Found
<1>4. PICK k \in DOMAIN line[c] : line[c][k] = h
  BY <1>1 DEF Belongs
<1>5. PICK j \in DOMAIN line[s] : line[s][j] = f.home
  BY <1>3 DEF Belongs
<1>6. /\ \A x \in DOMAIN line[s] : \E y \in DOMAIN line[h] : line[h][y] = line[s][x]
      /\ \A x \in DOMAIN line[h] : \E y \in DOMAIN line[c] : line[c][y] = line[h][x]
  <2>1. ASSUME NEW d \in DOMAIN methods, NEW x \in DOMAIN line[d], NEW e, e = line[d][x]
        PROVE  \A y \in DOMAIN line[e] : \E z \in DOMAIN line[d] : line[d][z] = line[e][y]
    BY <2>1 DEF Tables, Lined
  <2>2. \A x \in DOMAIN line[s] : \E y \in DOMAIN line[h] : line[h][y] = line[s][x]
    BY <1>2, <2>1
  <2>3. \A x \in DOMAIN line[h] : \E y \in DOMAIN line[c] : line[c][y] = line[h][x]
    BY <1>4, <2>1
  <2> QED
    BY <2>2, <2>3
<1>7. PICK i \in DOMAIN line[h] : line[h][i] = f.home
  BY <1>5, <1>6
<1>8. PICK b \in DOMAIN line[c] : line[c][b] = f.home
  BY <1>6, <1>7
<1>9. Belongs(c, f)
  BY <1>3, <1>8 DEF Belongs
<1> QED
  BY <1>1, <1>3, <1>9

-----------------------------------------------------------------------------
(* Steps that leave the heap alone.                                        *)

LEMMA TablesStay ==
    ASSUME Tables, UNCHANGED <<methods, own, line>>
    PROVE  Tables'
<1>1. Sizes'
  BY DEF Tables, Sizes
<1>2. \A c \in DOMAIN methods : Lined(c)'
  BY DEF Tables, Lined
<1>3. \A c \in DOMAIN methods, n \in Names : Copy(c, n)'
  BY DEF Tables, Copy, Belongs, Superclass, First, Promise!First
<1> QED
  BY <1>1, <1>2, <1>3 DEF Tables

LEMMA HeapStays ==
    ASSUME IInv, UNCHANGED Heap
    PROVE  /\ Tables'
           /\ \A v : Good(v) => Good(v)'
           /\ \A f : GoodFrame(f) => GoodFrame(f)'
           /\ value' \in {value, Nil} => Good(value)'
           /\ Good(value)' /\ frames' \in Seq(Frames)
              /\ (\A k \in DOMAIN frames' : GoodFrame(frames[k])') => Contents'
<1>1. Tables'
  BY TablesStay DEF IInv, Heap
<1>2. Steady
  BY DEF Steady, Heap
<1>3. \A v : Good(v) => Good(v)'
  BY <1>2, GoodStays DEF IInv
<1>4. \A f : GoodFrame(f) => GoodFrame(f)'
  BY <1>2, GoodFrameStays DEF IInv
<1>5. value' \in {value, Nil} => Good(value)'
  BY <1>3, GoodNil DEF Good, Exists, IInv, Contents, Belongs, Superclass, Heap
<1>6. ASSUME Good(value)', frames' \in Seq(Frames),
             \A k \in DOMAIN frames' : GoodFrame(frames[k])'
      PROVE  Contents'
  <2>1. \A i \in DOMAIN instances : GoodObject(instances[i])'
    <3>1. SUFFICES ASSUME NEW i \in DOMAIN instances PROVE GoodObject(instances[i])'
      OBVIOUS
    <3>2. GoodObject(instances[i])
      BY DEF IInv, Contents
    <3>3. \A n \in Names : Good(instances[i].fields[n])'
      BY <1>3, <3>2 DEF GoodObject, Heap
    <3> QED
      BY <3>2, <3>3 DEF GoodObject, Heap
  <2>2. \A x \in Variables : Good(variables[x])'
    <3>1. SUFFICES ASSUME NEW x \in Variables PROVE Good(variables[x])'
      OBVIOUS
    <3>2. PICK v : v = variables[x]
      OBVIOUS
    <3>3. Good(v)'
      BY <1>3, <3>2 DEF IInv, Contents
    <3> QED
      BY <3>2, <3>3 DEF Good, Exists, Belongs, Superclass, Heap
  <2> QED
    BY <1>6, <2>1, <2>2 DEF Contents, IInv, Heap
<1> QED
  BY <1>1, <1>3, <1>4, <1>5, <1>6
LEMMA FrameAdded ==
    ASSUME NEW f \in Frames, frames \in Seq(Frames), frames' = Append(frames, f),
           \A k \in DOMAIN frames : GoodFrame(frames[k])', GoodFrame(f)'
    PROVE  frames' \in Seq(Frames) /\ (\A k \in DOMAIN frames' : GoodFrame(frames[k])')
<1>1. /\ frames' \in Seq(Frames)
      /\ DOMAIN frames' = 1 .. Len(frames) + 1
      /\ frames'[Len(frames) + 1] = f
      /\ \A k \in 1 .. Len(frames) : frames'[k] = frames[k]
  BY Longer
<1>2. DOMAIN frames = 1 .. Len(frames) /\ Len(frames) \in Nat
  OBVIOUS
<1>3. ASSUME NEW k \in DOMAIN frames' PROVE GoodFrame(frames[k])'
  <2>1. CASE k \in DOMAIN frames
    BY <2>1
  <2>2. CASE k = Len(frames) + 1
    BY <1>1, <2>2 DEF GoodFrame, Belongs, Superclass
  <2> QED
    BY <1>1, <1>2, <2>1, <2>2
<1> QED
  BY <1>1, <1>3

LEMMA DeclaredStays ==
    ASSUME IInv, UNCHANGED <<methods, line>>,
           DOMAIN instances' = DOMAIN instances,
           \A i \in DOMAIN instances : instances'[i].class = instances[i].class,
           UNCHANGED <<klass, super>> \/ (klass' = 0 /\ super' = 0)
    PROVE  Declared'
BY DEF IInv, Declared, Superclass, Tables, Sizes

LEMMA RuntimeErrorStep == IInv /\ RuntimeError => IInv'
<1> SUFFICES ASSUME IInv, RuntimeError PROVE IInv'
  OBVIOUS
<1>1. UNCHANGED Heap /\ frames' = <<>> /\ value' \in {value, Nil}
  BY DEF RuntimeError
<1>2. Tables' /\ Good(value)'
  BY <1>1, HeapStays
<1>3. Contents'
  BY <1>1, <1>2, HeapStays
<1>4. Declared'
  BY DeclaredStays DEF RuntimeError, Heap
<1> QED
  BY <1>2, <1>3, <1>4 DEF IInv

LEMMA EndClassStep == IInv /\ EndClass => IInv'
<1> SUFFICES ASSUME IInv, EndClass PROVE IInv'
  OBVIOUS
<1>1. UNCHANGED Heap /\ frames' = frames /\ value' \in {value, Nil}
  BY DEF EndClass
<1>2. Tables' /\ Good(value)'
  BY <1>1, HeapStays
<1>3. Contents'
  <2>1. frames \in Seq(Frames) /\ \A k \in DOMAIN frames : GoodFrame(frames[k])
    BY DEF IInv, Contents
  <2>2. \A k \in DOMAIN frames : GoodFrame(frames[k])'
    BY <1>1, <2>1, HeapStays DEF GoodFrame, Belongs, Superclass, Heap
  <2> QED
    BY <1>1, <1>2, <2>1, <2>2, HeapStays
<1>4. Declared'
  BY DeclaredStays DEF EndClass, Heap
<1> QED
  BY <1>2, <1>3, <1>4 DEF IInv

LEMMA HaveStep ==
    ASSUME IInv, NEW v, Good(v), Have(v), UNCHANGED Heap
    PROVE  IInv'
<1>1. UNCHANGED Heap /\ frames' = frames /\ value' = v
  BY DEF Have
<1>2. Tables' /\ Good(value)'
  BY <1>1, HeapStays DEF Good, Exists, Belongs, Superclass, Heap
<1>3. Contents'
  <2>1. frames \in Seq(Frames) /\ \A k \in DOMAIN frames : GoodFrame(frames[k])
    BY DEF IInv, Contents
  <2>2. \A k \in DOMAIN frames : GoodFrame(frames[k])'
    BY <1>1, <2>1, HeapStays DEF GoodFrame, Belongs, Superclass, Heap
  <2> QED
    BY <1>1, <1>2, <2>1, <2>2, HeapStays
<1>4. Declared'
  BY DeclaredStays DEF Have, Heap
<1> QED
  BY <1>2, <1>3, <1>4 DEF IInv

LEMMA EnterStep ==
    ASSUME IInv, NEW i \in DOMAIN instances, NEW m \in Closures,
           Belongs(instances[i].class, m), Enter(i, m), UNCHANGED Heap
    PROVE  IInv'
<1> DEFINE f == [this |-> i, method |-> m]
<1>1. UNCHANGED Heap /\ frames' = Append(frames, f) /\ value' \in {value, Nil}
  BY DEF Enter
<1>2. Tables' /\ Good(value)'
  BY <1>1, HeapStays
<1>3. Contents'
  <2>1. frames \in Seq(Frames) /\ \A k \in DOMAIN frames : GoodFrame(frames[k])
    BY DEF IInv, Contents
  <2>2. \A k \in DOMAIN frames : GoodFrame(frames[k])'
    <3>1. SUFFICES ASSUME NEW k \in DOMAIN frames PROVE GoodFrame(frames[k])'
      OBVIOUS
    <3>2. PICK g : g = frames[k]
      OBVIOUS
    <3>3. GoodFrame(g)' /\ frames'[k] = g
      BY <1>1, <2>1, <3>2, HeapStays
    <3> QED
      BY <3>3 DEF GoodFrame, Belongs, Superclass
  <2>3. f \in Frames
    <3>1. i \in Nat
      BY DEF IInv, Contents
    <3> QED
      BY <3>1, FrameForms
  <2>4. GoodFrame(f)
    BY <2>3 DEF GoodFrame
  <2>5. GoodFrame(f)'
    BY <1>1, <2>4, HeapStays
  <2>6. frames' \in Seq(Frames) /\ (\A k \in DOMAIN frames' : GoodFrame(frames[k])')
    <3> HIDE DEF f
    <3>1. \A k \in DOMAIN frames : GoodFrame(frames[k])'
      BY <2>2
    <3> QED
      BY <1>1, <2>1, <2>3, <2>5, <3>1, FrameAdded
  <2> QED
    BY <1>1, <1>2, <2>6, HeapStays
<1>4. Declared'
  BY DeclaredStays DEF Enter, Heap
<1> QED
  BY <1>2, <1>3, <1>4 DEF IInv
-----------------------------------------------------------------------------
(* Calls.                                                                  *)

LEMMA CallClassStep ==
    ASSUME IInv, klass = 0, NEW c \in DOMAIN methods, CallClass(c)
    PROVE  IInv'
<1> DEFINE i == Len(instances) + 1
           m == methods[c][InitName]
           o == [class |-> c, fields |-> NoFields]
           f == [this |-> i, method |-> m]
<1>1. /\ instances' = Append(instances, o)
      /\ UNCHANGED <<methods, own, line, variables, klass, super>>
      /\ \/ m # NoMethod /\ frames' = Append(frames, f) /\ value' = Nil
         \/ frames' = frames /\ value' = Instance(i)
  BY DEF CallClass, Enter, Have
<1>2. o \in Objects /\ o.class = c /\ o.fields = NoFields
  <2>1. NoFields \in [Names -> Values]
    BY NewValue, NoMethodIsClosure DEF NoFields, Nil
  <2>2. c \in 1 .. ClassBound
    BY ClassesAssumption DEF IInv, Tables, Sizes
  <2> QED
    BY <2>1, <2>2, ObjectForms
<1> HIDE DEF o
<1>3. /\ instances' \in Seq(Objects)
      /\ DOMAIN instances' = 1 .. i /\ Len(instances) \in Nat
      /\ DOMAIN instances = 1 .. Len(instances)
      /\ instances'[i] = o
      /\ \A j \in DOMAIN instances : instances'[j] = instances[j]
  BY <1>1, <1>2, Longer DEF IInv, Contents
<1>4. Tables'
  BY <1>1, TablesStay DEF IInv
<1>5. Steady
  BY <1>1, <1>3 DEF Steady
<1>6. \A v : Good(v) => Good(v)'
  BY <1>5, GoodStays DEF IInv
<1>7. \A g : GoodFrame(g) => GoodFrame(g)'
  BY <1>5, GoodFrameStays DEF IInv
<1>8. \A j \in DOMAIN instances' : GoodObject(instances[j])'
  <2>1. SUFFICES ASSUME NEW j \in DOMAIN instances' PROVE GoodObject(instances[j])'
    OBVIOUS
  <2>2. CASE j \in DOMAIN instances
    <3>1. GoodObject(instances[j]) /\ instances'[j] = instances[j]
      BY <1>3, <2>2 DEF IInv, Contents
    <3>2. \A n \in Names : Good(instances[j].fields[n])'
      <4>1. SUFFICES ASSUME NEW n \in Names PROVE Good(instances[j].fields[n])'
        OBVIOUS
      <4>2. PICK v : v = instances[j].fields[n]
        OBVIOUS
      <4>3. Good(v)' /\ instances'[j].fields[n] = v
        BY <1>6, <3>1, <4>2 DEF GoodObject
      <4> QED
        BY <4>3 DEF Good, Exists, Belongs, Superclass
    <3> QED
      BY <1>1, <3>1, <3>2 DEF GoodObject
  <2>3. CASE j = i
    <3>1. instances'[j] = o
      BY <1>3, <2>3
    <3>2. \A n \in Names : instances'[j].fields[n] = Nil
      BY <1>2, <3>1 DEF NoFields
    <3>3. \A n \in Names : Good(instances[j].fields[n])'
      BY <1>6, <3>2, GoodNil DEF Good, Exists, Belongs, Superclass
    <3> QED
      BY <1>1, <1>2, <3>1, <3>3 DEF GoodObject
  <2> QED
    BY <1>3, <2>2, <2>3
<1>9. \A x \in Variables : Good(variables[x])'
  <2>1. SUFFICES ASSUME NEW x \in Variables PROVE Good(variables[x])'
    OBVIOUS
  <2>2. PICK v : v = variables[x]
    OBVIOUS
  <2>3. Good(v)' /\ variables'[x] = v
    BY <1>1, <1>6, <2>2 DEF IInv, Contents
  <2> QED
    BY <2>3 DEF Good, Exists, Belongs, Superclass
<1>10. Good(value)'
  <2>1. CASE value' = Nil
    BY <1>6, <2>1, GoodNil DEF Good, Exists, Belongs, Superclass
  <2>2. CASE value' = Instance(i)
    <3>1. /\ Instance(i) \in Values
          /\ Instance(i).kind = "instance" /\ Instance(i).of = i
      <4>1. i \in Nat
        BY <1>3
      <4> HIDE DEF i
      <4> QED
        BY <4>1, NewValue, NoMethodIsClosure DEF Instance
    <3> QED
      BY <1>3, <2>2, <3>1 DEF Good, Exists
  <2> QED
    BY <1>1, <2>1, <2>2
<1>11. \A k \in DOMAIN frames : GoodFrame(frames[k])'
  <2>1. SUFFICES ASSUME NEW k \in DOMAIN frames PROVE GoodFrame(frames[k])'
    OBVIOUS
  <2>2. PICK g : g = frames[k]
    OBVIOUS
  <2>3. GoodFrame(g)' /\ frames \in Seq(Frames)
    BY <1>7, <2>2 DEF IInv, Contents
  <2>4. frames'[k] = g
    BY <1>1, <2>2, <2>3
  <2> QED
    BY <2>3, <2>4 DEF GoodFrame, Belongs, Superclass
<1>12. frames' \in Seq(Frames) /\ \A k \in DOMAIN frames' : GoodFrame(frames[k])'
  <2>1. frames \in Seq(Frames)
    BY DEF IInv, Contents
  <2>2. CASE frames' = frames
    BY <1>11, <2>1, <2>2
  <2>3. CASE m # NoMethod /\ frames' = Append(frames, f)
    <3>1. m \in Closures /\ Belongs(c, m)
      BY <2>3, Found, ClassesAssumption DEF IInv
    <3>2. PICK g : g = f
      OBVIOUS
    <3>3. g \in Frames /\ g.this = i /\ g.method = m
      BY <1>3, <3>1, <3>2, FrameForms
    <3>4. Belongs(c, g.method)'
      BY <1>1, <3>1, <3>3 DEF Belongs, Superclass
    <3>5. i \in DOMAIN instances' /\ instances'[i].class = c
      BY <1>2, <1>3
    <3>6. GoodFrame(g)'
      BY <3>3, <3>4, <3>5 DEF GoodFrame, Belongs, Superclass
    <3>7. frames' = Append(frames, g)
      BY <2>3, <3>2
    <3> QED
      BY <1>11, <2>1, <3>3, <3>6, <3>7, FrameAdded
  <2> QED
    BY <1>1, <2>2, <2>3
<1>13. Contents'
  BY <1>1, <1>3, <1>8, <1>9, <1>10, <1>12 DEF IInv, Contents
<1>14. Declared'
  BY <1>1 DEF IInv, Declared
<1> QED
  BY <1>4, <1>13, <1>14 DEF IInv

LEMMA InvokeFromClassStep ==
    ASSUME IInv, NEW i \in DOMAIN instances, NEW n \in Names,
           InvokeFromClass(i, instances[i].class, n)
    PROVE  IInv'
<1>1. instances[i].class \in DOMAIN methods
  BY DEF IInv, Contents, GoodObject
<1> QED
  BY <1>1, Found, EnterStep, RuntimeErrorStep DEF InvokeFromClass, IInv

LEMMA CallValueStep ==
    ASSUME IInv, klass = 0, NEW v, Good(v), CallValue(v)
    PROVE  IInv'
<1>1. v \in Values /\ Exists(v) /\ v.method \in Closures
  BY ValueForms DEF Good
<1>2. CASE v.kind = "class" /\ CallClass(v.of)
  BY <1>1, <1>2, CallClassStep DEF Exists
<1>3. CASE v.kind = "bound" /\ Enter(v.of, v.method) /\ UNCHANGED Heap
  <2>1. v.of \in DOMAIN instances /\ Belongs(instances[v.of].class, v.method)
    BY <1>1, <1>3 DEF Good, Exists
  <2> QED
    BY <1>1, <1>3, <2>1, EnterStep
<1>4. CASE RuntimeError
  BY <1>4, RuntimeErrorStep
<1> QED
  BY <1>2, <1>3, <1>4 DEF CallValue

LEMMA OpInvokeStep ==
    ASSUME IInv, NEW n \in Names, OpInvoke(n)
    PROVE  IInv'
<1>1. CASE value.kind = "instance"
  <2>1. value.of \in DOMAIN instances
    BY <1>1 DEF IInv, Contents, Good, Exists
  <2>2. Good(instances[value.of].fields[n])
    BY <2>1 DEF IInv, Contents, GoodObject
  <2> QED
    BY <1>1, <2>1, <2>2, CallValueStep, InvokeFromClassStep DEF OpInvoke
<1>2. CASE value.kind # "instance"
  BY <1>2, RuntimeErrorStep DEF OpInvoke
<1> QED
  BY <1>1, <1>2

LEMMA Speaking ==
    ASSUME IInv, Running
    PROVE  GoodFrame(Frame) /\ Frame.this \in DOMAIN instances
           /\ Frame.method \in Closures /\ instances[Frame.this].class \in DOMAIN methods
<1>1. Len(frames) \in DOMAIN frames
  BY DEF Running, IInv, Contents
<1>2. GoodFrame(Frame)
  BY <1>1 DEF IInv, Contents, Frame
<1> QED
  BY <1>2, FrameForms DEF GoodFrame, IInv, Contents, GoodObject

LEMMA OpSuperInvokeStep ==
    ASSUME IInv, NEW n \in Names, OpSuperInvoke(n)
    PROVE  IInv'
<1>1. Running /\ Super # 0
  BY DEF OpSuperInvoke
<1>2. /\ This \in DOMAIN instances /\ Frame.method \in Closures
      /\ instances[This].class \in DOMAIN methods
      /\ Belongs(instances[This].class, Frame.method)
  BY <1>1, Speaking DEF This, GoodFrame
<1>3. CASE methods[Super][n] # NoMethod
  <2>1. /\ methods[Super][n] \in Closures
        /\ Belongs(instances[This].class, methods[Super][n])
    BY <1>1, <1>2, <1>3, FoundAbove DEF IInv, Super
  <2> QED
    BY <1>2, <1>3, <2>1, EnterStep DEF OpSuperInvoke, InvokeFromClass
<1>4. CASE methods[Super][n] = NoMethod
  BY <1>4, RuntimeErrorStep DEF OpSuperInvoke, InvokeFromClass
<1> QED
  BY <1>3, <1>4

LEMMA OpGetSuperStep ==
    ASSUME IInv, NEW n \in Names, OpGetSuper(n)
    PROVE  IInv'
<1>1. Running /\ Super # 0
  BY DEF OpGetSuper
<1>2. /\ This \in DOMAIN instances /\ Frame.method \in Closures
      /\ instances[This].class \in DOMAIN methods
      /\ Belongs(instances[This].class, Frame.method)
  BY <1>1, Speaking DEF This, GoodFrame
<1>3. CASE methods[Super][n] # NoMethod
  <2>1. /\ methods[Super][n] \in Closures
        /\ Belongs(instances[This].class, methods[Super][n])
    BY <1>1, <1>2, <1>3, FoundAbove DEF IInv, Super
  <2>2. Good(BoundMethod(This, methods[Super][n]))
    BY <1>2, <2>1, GoodBound DEF IInv, Contents
  <2> QED
    BY <1>3, <2>2, HaveStep DEF OpGetSuper
<1>4. CASE methods[Super][n] = NoMethod
  BY <1>4, RuntimeErrorStep DEF OpGetSuper
<1> QED
  BY <1>3, <1>4

LEMMA OpReturnStep == IInv /\ OpReturn => IInv'
<1> SUFFICES ASSUME IInv, OpReturn PROVE IInv'
  OBVIOUS
<1>1. /\ Running /\ UNCHANGED Heap /\ UNCHANGED <<klass, super>>
      /\ frames' = SubSeq(frames, 1, Len(frames) - 1)
      /\ value' \in {Instance(This), value}
  BY DEF OpReturn
<1>2. /\ Tables'
      /\ \A v : Good(v) => Good(v)'
      /\ \A f : GoodFrame(f) => GoodFrame(f)'
  BY <1>1, HeapStays
<1>3. Good(value)'
  <2>1. Good(Instance(This)) /\ Good(value)
    BY <1>1, Speaking, GoodInstance DEF IInv, Contents, This
  <2>2. PICK v : v = value' /\ Good(v)
    BY <1>1, <2>1
  <2>3. Good(v)'
    BY <1>2, <2>2
  <2> QED
    BY <2>2, <2>3 DEF Good, Exists, Belongs, Superclass
<1>4. frames' \in Seq(Frames) /\ \A k \in DOMAIN frames' : GoodFrame(frames[k])'
  <2>1. frames \in Seq(Frames) /\ \A k \in DOMAIN frames : GoodFrame(frames[k])
    BY DEF IInv, Contents
  <2>2. /\ frames' \in Seq(Frames)
        /\ DOMAIN frames' \subseteq DOMAIN frames
        /\ \A k \in DOMAIN frames' : frames'[k] = frames[k]
    BY <1>1, <2>1 DEF Running
  <2>3. ASSUME NEW k \in DOMAIN frames' PROVE GoodFrame(frames[k])'
    <3>1. PICK g : g = frames'[k] /\ GoodFrame(g)
      BY <2>1, <2>2
    <3>2. GoodFrame(g)'
      BY <1>2, <3>1
    <3> QED
      BY <3>1, <3>2 DEF GoodFrame, Belongs, Superclass
  <2> QED
    BY <2>2, <2>3
<1>5. Contents'
  BY <1>1, <1>3, <1>4, HeapStays
<1>6. Declared'
  BY <1>1, DeclaredStays DEF Heap
<1> QED
  BY <1>2, <1>5, <1>6 DEF IInv

LEMMA GetThisStep == IInv /\ GetThis => IInv'
BY Speaking, GoodInstance, HaveStep DEF GetThis, IInv, Contents, This
-----------------------------------------------------------------------------
(* Variables and fields.                                                   *)

LEMMA GoodEverywhere ==
    ASSUME NEW v, Good(v)', NEW w, w = v
    PROVE  Good(w)'
BY DEF Good, Exists, Belongs, Superclass

(* What a step that changes no call has to show.                            *)
LEMMA FramesStay ==
    ASSUME IInv, Steady, frames' = frames
    PROVE  \A k \in DOMAIN frames : GoodFrame(frames[k])'
<1>1. SUFFICES ASSUME NEW k \in DOMAIN frames PROVE GoodFrame(frames[k])'
  OBVIOUS
<1>2. PICK g : g = frames[k]
  OBVIOUS
<1>3. GoodFrame(g)'
  BY <1>2, GoodFrameStays DEF IInv, Contents
<1> QED
  BY <1>2, <1>3 DEF GoodFrame, Belongs, Superclass

LEMMA VariablesStay ==
    ASSUME IInv, Steady, variables' = variables
    PROVE  \A x \in Variables : Good(variables[x])'
<1>1. SUFFICES ASSUME NEW x \in Variables PROVE Good(variables[x])'
  OBVIOUS
<1>2. PICK v : v = variables[x]
  OBVIOUS
<1>3. Good(v)'
  BY <1>2, GoodStays DEF IInv, Contents
<1> QED
  BY <1>2, <1>3 DEF Good, Exists, Belongs, Superclass

LEMMA InstancesStay ==
    ASSUME IInv, Steady, instances' = instances
    PROVE  \A i \in DOMAIN instances : GoodObject(instances[i])'
<1>1. SUFFICES ASSUME NEW i \in DOMAIN instances, NEW n \in Names
      PROVE  Good(instances[i].fields[n])'
  BY DEF IInv, Contents, GoodObject, Steady
<1>2. PICK v : v = instances[i].fields[n]
  OBVIOUS
<1>3. Good(v)'
  BY <1>2, GoodStays DEF IInv, Contents, GoodObject
<1> QED
  BY <1>2, <1>3 DEF Good, Exists, Belongs, Superclass

LEMMA ValueStays ==
    ASSUME IInv, Steady, value' \in {value, Nil}
    PROVE  Good(value)'
<1>1. PICK v : v = value' /\ Good(v)
  BY GoodNil DEF IInv, Contents
<1>2. Good(v)'
  BY <1>1, GoodStays DEF IInv
<1> QED
  BY <1>1, <1>2 DEF Good, Exists, Belongs, Superclass

LEMMA OpSetGlobalStep ==
    ASSUME IInv, NEW x \in Variables, OpSetGlobal(x)
    PROVE  IInv'
<1>1. /\ variables' = [variables EXCEPT ![x] = value]
      /\ UNCHANGED <<methods, own, line, instances, value, frames, klass, super>>
  BY DEF OpSetGlobal
<1>2. Tables' /\ Steady
  BY <1>1, TablesStay DEF IInv, Steady
<1>3. Good(value)' /\ value \in Values
  BY <1>1, <1>2, ValueStays DEF IInv, Contents, Good
<1>4. variables' \in [Variables -> Values]
  BY <1>1, <1>3 DEF IInv, Contents
<1>5. ASSUME NEW y \in Variables PROVE Good(variables[y])'
  <2>1. PICK v : v = variables'[y]
    OBVIOUS
  <2>2. v = IF y = x THEN value ELSE variables[y]
    BY <1>1, <2>1 DEF IInv, Contents
  <2>3. Good(v)
    BY <2>2 DEF IInv, Contents
  <2>4. Good(v)'
    BY <1>2, <2>3, GoodStays DEF IInv
  <2> QED
    BY <2>1, <2>4 DEF Good, Exists, Belongs, Superclass
<1>6. Contents'
  <2>1. \A i \in DOMAIN instances : GoodObject(instances[i])'
    BY <1>1, <1>2, InstancesStay
  <2>2. \A k \in DOMAIN frames : GoodFrame(frames[k])'
    BY <1>1, <1>2, FramesStay
  <2> QED
    BY <1>1, <1>3, <1>4, <1>5, <2>1, <2>2 DEF IInv, Contents
<1>7. Declared'
  BY <1>1, DeclaredStays
<1> QED
  BY <1>2, <1>6, <1>7 DEF IInv

LEMMA OpSetPropertyStep ==
    ASSUME IInv, NEW x \in Variables, NEW n \in Names, OpSetProperty(x, n)
    PROVE  IInv'
<1> DEFINE i == variables[x].of
<1>1. CASE variables[x].kind # "instance"
  BY <1>1, RuntimeErrorStep DEF OpSetProperty
<1>2. CASE variables[x].kind = "instance"
  <2>1. /\ instances' = [instances EXCEPT ![i].fields[n] = value]
        /\ UNCHANGED <<methods, own, line, variables, value, frames, klass, super>>
    BY <1>2 DEF OpSetProperty
  <2>2. i \in DOMAIN instances /\ instances \in Seq(Objects) /\ value \in Values
    BY <1>2 DEF IInv, Contents, Good, Exists
  <2>3. PICK o : o = [instances[i] EXCEPT !.fields[n] = value]
    OBVIOUS
  <2>4. /\ o \in Objects /\ o.class = instances[i].class
        /\ o.fields = [instances[i].fields EXCEPT ![n] = value]
    <3>1. instances[i] \in Objects
      BY <2>2, Element
    <3> QED
      BY <2>2, <2>3, <3>1 DEF Objects
  <2>5. instances' = [instances EXCEPT ![i] = o]
    BY <2>1, <2>3
  <2>6. /\ instances' \in Seq(Objects) /\ DOMAIN instances' = DOMAIN instances
        /\ instances'[i] = o
        /\ \A j \in DOMAIN instances : j # i => instances'[j] = instances[j]
    BY <2>2, <2>4, <2>5, Replaced
  <2>7. Tables' /\ Steady
    BY <2>1, <2>4, <2>6, TablesStay DEF IInv, Steady
  <2>8. ASSUME NEW j \in DOMAIN instances, NEW k \in Names
        PROVE  Good(instances[j].fields[k])'
    <3>1. PICK v : v = instances'[j].fields[k]
      OBVIOUS
    <3>2. v = value \/ v = instances[j].fields[k]
      <4>1. CASE j = i
        <5>1. instances[i].fields \in [Names -> Values]
          BY <2>2, Element, ObjectForms
        <5> QED
          BY <2>4, <2>6, <3>1, <4>1, <5>1
      <4>2. CASE j # i
        BY <2>6, <3>1, <4>2
      <4> QED
        BY <4>1, <4>2
    <3>3. Good(v)
      BY <3>2 DEF IInv, Contents, GoodObject
    <3>4. Good(v)'
      BY <2>7, <3>3, GoodStays DEF IInv
    <3> QED
      BY <3>1, <3>4 DEF Good, Exists, Belongs, Superclass
  <2>9. ASSUME NEW j \in DOMAIN instances' PROVE GoodObject(instances[j])'
    <3>1. instances'[j] \in Objects /\ instances'[j].class \in DOMAIN methods
      BY <2>2, <2>4, <2>6, Element DEF IInv, Contents, GoodObject
    <3> QED
      BY <2>1, <2>6, <2>8, <3>1 DEF GoodObject
  <2>10. Contents'
    <3>1. \A y \in Variables : Good(variables[y])'
      BY <2>1, <2>7, VariablesStay
    <3>2. \A k \in DOMAIN frames : GoodFrame(frames[k])'
      BY <2>1, <2>7, FramesStay
    <3>3. Good(value)'
      BY <2>1, <2>7, ValueStays
    <3> QED
      BY <2>1, <2>6, <2>9, <3>1, <3>2, <3>3 DEF IInv, Contents
  <2>11. Declared'
    <3>1. \A j \in DOMAIN instances : instances'[j].class = instances[j].class
      BY <2>4, <2>6
    <3> QED
      BY <2>1, <2>6, <3>1, DeclaredStays
  <2> QED
    BY <2>7, <2>10, <2>11 DEF IInv
<1> QED
  BY <1>1, <1>2

-----------------------------------------------------------------------------
(* Declarations.                                                           *)

LEMMA LinedStays ==
    ASSUME Tables, NEW d \in DOMAIN methods, \A a \in 1 .. d : line'[a] = line[a]
    PROVE  Lined(d)'
<1>1. Lined(d) /\ line'[d] = line[d] /\ line[d] \in Seq(1 .. ClassBound)
  BY Element DEF Tables, Sizes
<1>2. \A k \in DOMAIN line[d] : line'[line[d][k]] = line[line[d][k]]
  BY Older
<1>3. Len(line[d]) > 1 => Tail(line'[d]) = line'[line'[d][2]]
  BY <1>1, <1>2 DEF Lined
<1>4. \A k \in DOMAIN line'[d] : \A j \in DOMAIN line'[line'[d][k]] :
         \E i \in DOMAIN line'[d] : line'[d][i] = line'[line'[d][k]][j]
  <2>1. \A k \in DOMAIN line[d] : \A j \in DOMAIN line[line[d][k]] :
           \E i \in DOMAIN line[d] : line[d][i] = line[line[d][k]][j]
    BY <1>1 DEF Lined
  <2>2. SUFFICES ASSUME NEW k \in DOMAIN line'[d],
                        NEW j \in DOMAIN line'[line'[d][k]]
        PROVE  \E i \in DOMAIN line'[d] : line'[d][i] = line'[line'[d][k]][j]
    OBVIOUS
  <2>3. PICK a : a = line[d][k]
    OBVIOUS
  <2>4. /\ k \in DOMAIN line[d] /\ line'[d][k] = a
        /\ line'[a] = line[a] /\ j \in DOMAIN line[a]
    BY <1>1, <1>2, <2>3
  <2>5. PICK i \in DOMAIN line[d] : line[d][i] = line[a][j]
    BY <2>1, <2>3, <2>4
  <2> QED
    BY <1>1, <2>4, <2>5
<1> QED
  BY <1>1, <1>3, <1>4 DEF Lined

LEMMA CopyStays ==
    ASSUME Tables, Declared, Steady, NEW d \in DOMAIN methods, d # klass, NEW n \in Names,
           methods'[d][n] = methods[d][n], \A a \in 1 .. d : line'[a] = line[a],
           \A a \in 1 .. d : n \in own'[a] <=> n \in own[a]
    PROVE  Copy(d, n)'
<1>1. Copy(d, n) /\ line'[d] = line[d] /\ line[d] \in Seq(1 .. ClassBound)
  BY Element DEF Tables, Sizes
<1>2. \A i \in DOMAIN line[d] : n \in own'[line[d][i]] <=> n \in own[line[d][i]]
  BY Older
<1>3. ASSUME methods[d][n] # NoMethod PROVE Belongs(d, methods[d][n])'
  <2>1. PICK m \in Closures : m = methods[d][n] /\ Belongs(d, m)
    BY <1>3, Found
  <2>2. Belongs(d, m)'
    BY <2>1, BelongsStays
  <2> QED
    BY <2>1, <2>2 DEF Belongs, Superclass
<1>4. ASSUME methods[d][n] # NoMethod
      PROVE  \E i \in DOMAIN line'[d] : /\ methods[d][n].home = line'[d][i]
                                        /\ First(line[d], n, i)'
  <2>1. PICK i \in DOMAIN line[d] : /\ methods[d][n].home = line[d][i]
                                    /\ First(line[d], n, i)
    BY <1>1, <1>4 DEF Copy
  <2>2. First(line[d], n, i)'
    BY <1>1, <1>2, <2>1 DEF First, Promise!First
  <2> QED
    BY <1>1, <2>1, <2>2
<1> QED
  BY <1>1, <1>2, <1>3, <1>4 DEF Copy

LEMMA OpClassStep ==
    ASSUME IInv, NEW x \in Variables, OpClass(x)
    PROVE  IInv'
<1>0. PICK c : c = Len(methods) + 1
  OBVIOUS
<1>1. /\ klass = 0 /\ super = 0 /\ klass' = c
      /\ methods' = Append(methods, NoMethods)
      /\ own' = Append(own, {})
      /\ line' = Append(line, <<c>>)
      /\ variables' = [variables EXCEPT ![x] = Class(klass')]
      /\ value' = Nil
      /\ Len(methods) < ClassBound
      /\ UNCHANGED <<instances, frames, super>>
  BY <1>0 DEF OpClass, IInv, Declared
<1>2. /\ methods \in Seq([Names -> Closures]) /\ own \in Seq(SUBSET Names)
      /\ line \in Seq(Seq(1 .. ClassBound))
      /\ Len(own) = Len(methods) /\ Len(line) = Len(methods) /\ Len(methods) \in Nat
      /\ DOMAIN methods = 1 .. Len(methods) /\ c \in 1 .. ClassBound
  BY <1>0, <1>1, ClassesAssumption DEF IInv, Tables, Sizes
<1>3. NoMethods \in [Names -> Closures]
  BY NoMethodIsClosure DEF NoMethods
<1>4. /\ methods' \in Seq([Names -> Closures]) /\ Len(methods') = c
      /\ DOMAIN methods' = 1 .. c /\ methods'[c] = NoMethods
      /\ \A d \in DOMAIN methods : methods'[d] = methods[d]
  BY <1>0, <1>1, <1>2, <1>3, Longer
<1>5. /\ own' \in Seq(SUBSET Names) /\ Len(own') = c /\ own'[c] = {}
      /\ \A d \in DOMAIN methods : own'[d] = own[d]
  BY <1>0, <1>1, <1>2, Longer
<1>6. /\ line' \in Seq(Seq(1 .. ClassBound)) /\ Len(line') = c /\ line'[c] = <<c>>
      /\ \A d \in DOMAIN methods : line'[d] = line[d]
  <2>1. <<c>> \in Seq(1 .. ClassBound)
    BY <1>2
  <2> QED
    BY <1>0, <1>1, <1>2, <2>1, Longer
<1>7. Steady
  BY <1>1, <1>2, <1>4, <1>6 DEF Steady
<1>8. Tables'
  <2>1. Sizes'
    BY <1>1, <1>2, <1>4, <1>5, <1>6 DEF Sizes
  <2>2. ASSUME NEW d \in DOMAIN methods' PROVE Lined(d)'
    <3>1. CASE d = c
      <4>1. Len(line'[c]) = 1 /\ line'[c][1] = c /\ DOMAIN line'[c] = {1}
        BY <1>6
      <4> QED
        BY <3>1, <4>1 DEF Lined
    <3>2. CASE d \in DOMAIN methods
      <4>1. \A e \in 1 .. d : line'[e] = line[e]
        <5>1. 1 .. d \subseteq DOMAIN methods
          BY <1>2, <3>2
        <5> QED
          BY <1>6, <5>1
      <4> QED
        BY <3>2, <4>1, LinedStays DEF IInv
    <3> QED
      BY <1>0, <1>2, <1>4, <3>1, <3>2
  <2>3. ASSUME NEW d \in DOMAIN methods', NEW n \in Names PROVE Copy(d, n)'
    <3>1. CASE d = c
      <4>1. methods'[c][n] = NoMethod
        BY <1>4 DEF NoMethods
      <4>2. \A i \in DOMAIN line'[c] : n \notin own'[line'[c][i]]
        BY <1>5, <1>6
      <4> QED
        BY <3>1, <4>1, <4>2 DEF Copy
    <3>2. CASE d \in DOMAIN methods
      <4>1. /\ methods'[d][n] = methods[d][n] /\ d # klass
            /\ \A e \in 1 .. d : line'[e] = line[e] /\ own'[e] = own[e]
        BY <1>1, <1>2, <1>4, <1>5, <1>6, <3>2
      <4> QED
        BY <1>7, <3>2, <4>1, CopyStays DEF IInv
    <3> QED
      BY <1>0, <1>2, <1>4, <3>1, <3>2
  <2> QED
    BY <2>1, <2>2, <2>3 DEF Tables
<1>9. Contents'
  <2>1. \A i \in DOMAIN instances : GoodObject(instances[i])'
    BY <1>1, <1>7, InstancesStay
  <2>2. \A k \in DOMAIN frames : GoodFrame(frames[k])'
    BY <1>1, <1>7, FramesStay
  <2>3. Good(value)'
    BY <1>1, <1>7, ValueStays
  <2>4. /\ Class(c) \in Values /\ Class(c).kind = "class" /\ Class(c).of = c
    BY <1>2, NewValue, NoMethodIsClosure DEF Class
  <2>5. variables' \in [Variables -> Values]
    BY <1>1, <2>4 DEF IInv, Contents
  <2>6. ASSUME NEW y \in Variables PROVE Good(variables[y])'
    <3>1. CASE y = x
      <4>1. variables'[y] = Class(c)
        BY <1>1, <3>1 DEF IInv, Contents
      <4> QED
        BY <1>2, <1>4, <2>4, <4>1 DEF Good, Exists
    <3>2. CASE y # x
      <4>1. PICK v : v = variables[y] /\ v = variables'[y]
        BY <1>1, <3>2 DEF IInv, Contents
      <4>2. Good(v)'
        BY <1>7, <4>1, GoodStays DEF IInv, Contents
      <4> QED
        BY <4>1, <4>2 DEF Good, Exists, Belongs, Superclass
    <3> QED
      BY <3>1, <3>2
  <2> QED
    BY <1>1, <2>1, <2>2, <2>3, <2>5, <2>6 DEF IInv, Contents
<1>10. Declared'
  <2>1. \A i \in DOMAIN instances : instances[i].class # c
    BY <1>0, <1>2 DEF IInv, Contents, GoodObject
  <2>2. Superclass(c)' = 0
    BY <1>6 DEF Superclass
  <2> QED
    BY <1>1, <1>2, <1>4, <2>1, <2>2 DEF Declared, Superclass
<1> QED
  BY <1>8, <1>9, <1>10 DEF IInv

LEMMA OpMethodStep ==
    ASSUME IInv, NEW n \in Names, OpMethod(n)
    PROVE  IInv'
<1>0. PICK m : m = Closure(klass, n, super)
  OBVIOUS
<1>1. /\ klass # 0
      /\ methods' = [methods EXCEPT ![klass][n] = m]
      /\ own' = [own EXCEPT ![klass] = @ \cup {n}]
      /\ UNCHANGED <<line, instances, variables, value, frames, klass, super>>
  BY <1>0 DEF OpMethod
<1>2. /\ methods \in Seq([Names -> Closures]) /\ own \in Seq(SUBSET Names)
      /\ line \in Seq(Seq(1 .. ClassBound)) /\ Len(methods) <= ClassBound
      /\ Len(own) = Len(methods) /\ Len(line) = Len(methods) /\ Len(methods) \in Nat
      /\ DOMAIN methods = 1 .. Len(methods) /\ DOMAIN own = DOMAIN methods
      /\ klass \in DOMAIN methods /\ klass = Len(methods) /\ super = Superclass(klass)
  BY <1>1 DEF IInv, Tables, Sizes, Declared
<1>3. Lined(klass) /\ line[klass] \in Seq(1 .. ClassBound)
  BY <1>2, Element DEF IInv, Tables
<1>4. /\ m \in Closures /\ m.home = klass /\ m.name = n /\ m.super = super
      /\ m # NoMethod
  <2>1. klass \in 0 .. ClassBound /\ super \in 0 .. ClassBound
    <3>1. ASSUME Len(line[klass]) > 1 PROVE line[klass][2] \in 1 .. ClassBound
      <4>1. 2 \in 1 .. Len(line[klass])
        BY <1>3, <3>1
      <4> QED
        BY <1>3, <4>1, Element
    <3> QED
      BY <1>2, <3>1, ClassesAssumption DEF Superclass
  <2> QED
    BY <1>0, <1>1, <2>1, NewClosure, NoMethodIsClosure
<1>5. /\ methods' \in Seq([Names -> Closures]) /\ DOMAIN methods' = DOMAIN methods
      /\ Len(methods') = Len(methods)
      /\ methods'[klass] = [methods[klass] EXCEPT ![n] = m]
      /\ \A d \in DOMAIN methods : d # klass => methods'[d] = methods[d]
  <2>1. PICK e : e = [methods[klass] EXCEPT ![n] = m]
    OBVIOUS
  <2>2. e \in [Names -> Closures]
    BY <1>2, <1>4, <2>1, Element
  <2>3. methods' = [methods EXCEPT ![klass] = e]
    BY <1>1, <2>1
  <2>4. /\ methods' \in Seq([Names -> Closures]) /\ DOMAIN methods' = DOMAIN methods
        /\ Len(methods') = Len(methods) /\ methods'[klass] = e
        /\ \A d \in DOMAIN methods : d # klass => methods'[d] = methods[d]
    BY <1>2, <2>2, <2>3, Replaced
  <2> QED
    BY <2>1, <2>4
<1>6. /\ own' \in Seq(SUBSET Names) /\ Len(own') = Len(own)
      /\ own'[klass] = own[klass] \cup {n}
      /\ \A d \in DOMAIN methods : d # klass => own'[d] = own[d]
  <2>1. own[klass] \cup {n} \in SUBSET Names
    BY <1>2, Element
  <2> QED
    BY <1>1, <1>2, <2>1, Replaced
<1>7. Steady
  BY <1>1, <1>5 DEF Steady
<1>8. Tables'
  <2>1. Sizes'
    BY <1>1, <1>2, <1>5, <1>6 DEF Sizes
  <2>2. \A d \in DOMAIN methods' : Lined(d)'
    BY <1>1, <1>5, LinedStays DEF IInv
  <2>3. ASSUME NEW d \in DOMAIN methods', NEW k \in Names PROVE Copy(d, k)'
    <3>1. CASE d # klass
      <4>1. \A a \in 1 .. d : a \in DOMAIN methods /\ a # klass
        BY <1>2, <1>5, <3>1
      <4> QED
        BY <1>1, <1>5, <1>6, <1>7, <3>1, <4>1, CopyStays DEF IInv
    <3>2. CASE d = klass /\ k = n
      <4>1. methods'[klass][n] = m
        BY <1>2, <1>5, Element
      <4>2. 1 \in DOMAIN line[klass] /\ line[klass][1] = klass
        BY <1>3 DEF Lined
      <4>3. Belongs(klass, m)'
        BY <1>1, <1>2, <1>4, <4>2 DEF Belongs, Superclass
      <4>4. First(line[klass], n, 1)'
        BY <1>1, <1>6, <4>2 DEF First, Promise!First
      <4>5. /\ methods'[d][k] = m /\ line'[d] = line[klass]
        BY <1>1, <3>2, <4>1
      <4>6. Belongs(d, methods[d][k])'
        BY <1>1, <3>2, <4>3, <4>5 DEF Belongs, Superclass
      <4>7. First(line[d], k, 1)'
        BY <1>1, <3>2, <4>4 DEF First, Promise!First
      <4> QED
        BY <1>4, <3>2, <4>2, <4>5, <4>6, <4>7 DEF Copy
    <3>3. CASE d = klass /\ k # n
      <4>1. methods'[d][k] = methods[d][k]
        BY <1>2, <1>5, <3>3, Element
      <4>2. \A i \in DOMAIN line[d] : k \in own'[line[d][i]] <=> k \in own[line[d][i]]
        <5>1. \A a \in DOMAIN methods : k \in own'[a] <=> k \in own[a]
          BY <1>6, <3>3
        <5> QED
          BY <1>5, <5>1, Older DEF IInv
      <4>3. Copy(d, k)
        BY <1>5 DEF IInv, Tables
      <4>4. \A i \in DOMAIN line[d] : First(line[d], k, i) => First(line[d], k, i)'
        BY <1>1, <1>3, <3>3, <4>2 DEF First, Promise!First
      <4> QED
        BY <1>1, <4>1, <4>2, <4>3, <4>4 DEF Copy, Belongs, Superclass
    <3> QED
      BY <3>1, <3>2, <3>3
  <2> QED
    BY <2>1, <2>2, <2>3 DEF Tables
<1>9. Contents'
  BY <1>1, <1>7, InstancesStay, VariablesStay, FramesStay, ValueStays DEF IInv, Contents
<1>10. Declared'
  BY <1>1, <1>5 DEF IInv, Declared, Superclass
<1> QED
  BY <1>8, <1>9, <1>10 DEF IInv
LEMMA OpInheritStep ==
    ASSUME IInv, NEW y \in Variables, OpInherit(y)
    PROVE  IInv'
<1>1. CASE variables[y].kind # "class"
  BY <1>1, RuntimeErrorStep DEF OpInherit
<1>2. CASE variables[y].kind = "class"
  <2>1. PICK s : s = variables[y].of
    OBVIOUS
  <2>2. PICK copied : copied = Copied(methods[s], methods[klass])
    OBVIOUS
  <2>3. PICK l : l = line[klass] \o line[s]
    OBVIOUS
  <2>4. /\ klass # 0 /\ super = 0 /\ methods[klass] = NoMethods /\ s # klass
        /\ methods' = [methods EXCEPT ![klass] = copied]
        /\ line' = [line EXCEPT ![klass] = l]
        /\ super' = s
        /\ UNCHANGED <<own, instances, variables, value, frames, klass>>
    BY <1>2, <2>1, <2>2, <2>3 DEF OpInherit
  <2>5. /\ methods \in Seq([Names -> Closures]) /\ own \in Seq(SUBSET Names)
        /\ line \in Seq(Seq(1 .. ClassBound)) /\ Len(methods) <= ClassBound
        /\ Len(own) = Len(methods) /\ Len(line) = Len(methods) /\ Len(methods) \in Nat
        /\ DOMAIN methods = 1 .. Len(methods)
        /\ klass \in DOMAIN methods /\ klass = Len(methods) /\ super = Superclass(klass)
    BY <2>4 DEF IInv, Tables, Sizes, Declared
  <2>6. s \in DOMAIN methods /\ s < klass
    <3>1. s \in DOMAIN methods
      BY <1>2, <2>1 DEF IInv, Contents, Good, Exists
    <3> QED
      BY <2>4, <2>5, <3>1
  <2>7. /\ Lined(klass) /\ line[klass] \in Seq(1 .. ClassBound)
        /\ Lined(s) /\ line[s] \in Seq(1 .. ClassBound)
    BY <2>5, <2>6, Element DEF IInv, Tables
  <2>8. Len(line[klass]) = 1 /\ line[klass][1] = klass
    <3>1. ASSUME Len(line[klass]) > 1 PROVE FALSE
      <4>1. 2 \in 2 .. Len(line[klass])
        BY <2>7, <3>1
      <4>2. line[klass][2] = 0
        BY <2>4, <2>5, <3>1 DEF Superclass
      <4> QED
        BY <2>5, <2>7, <4>1, <4>2 DEF Lined
    <3>2. Len(line[klass]) > 0 /\ line[klass][1] = klass
      BY <2>7 DEF Lined
    <3>3. PICK n \in Nat : n = Len(line[klass])
      BY <2>7
    <3>4. n > 0 /\ ~(n > 1)
      BY <3>1, <3>2, <3>3
    <3>5. n = 1
      BY <3>4
    <3> QED
      BY <3>2, <3>3, <3>5
  <2>9. /\ l \in Seq(1 .. ClassBound) /\ Len(l) = Len(line[s]) + 1 /\ l[1] = klass
        /\ \A i \in 1 .. Len(line[s]) : l[1 + i] = line[s][i]
    <3>1. /\ l \in Seq(1 .. ClassBound) /\ Len(l) = Len(line[klass]) + Len(line[s])
          /\ \A i \in 1 .. Len(line[klass]) : l[i] = line[klass][i]
          /\ \A i \in 1 .. Len(line[s]) : l[Len(line[klass]) + i] = line[s][i]
      <4>1. PICK a, b : a = line[klass] /\ b = line[s]
        OBVIOUS
      <4>2. a \in Seq(1 .. ClassBound) /\ b \in Seq(1 .. ClassBound) /\ l = a \o b
        BY <2>3, <2>7, <4>1
      <4>3. /\ l \in Seq(1 .. ClassBound) /\ Len(l) = Len(a) + Len(b)
            /\ \A i \in 1 .. Len(a) : l[i] = a[i]
            /\ \A i \in 1 .. Len(b) : l[Len(a) + i] = b[i]
        BY <4>2, Joined
      <4> QED
        BY <4>1, <4>3
    <3>2. Len(line[s]) \in Nat
      BY <2>7
    <3> QED
      BY <2>8, <3>1, <3>2
  <2>10. Len(line[s]) \in Nat /\ DOMAIN line[s] = 1 .. Len(line[s])
         /\ DOMAIN l = 1 .. Len(line[s]) + 1 /\ Len(line[s]) > 0
    BY <2>7, <2>9 DEF Lined
  <2>11. /\ line' \in Seq(Seq(1 .. ClassBound)) /\ Len(line') = Len(line)
         /\ line'[klass] = l
         /\ \A d \in DOMAIN methods : d # klass => line'[d] = line[d]
    BY <2>4, <2>5, <2>9, Replaced
  <2>12. copied \in [Names -> Closures] /\ copied = methods[s]
    <3>1. methods[s] \in [Names -> Closures]
      BY <2>5, <2>6, Element
    <3>2. \A n \in Names : copied[n] = methods[s][n]
      BY <2>2, <2>4 DEF Copied, NoMethods
    <3>3. copied = [n \in Names |-> copied[n]]
      BY <2>2 DEF Copied
    <3> QED
      BY <3>1, <3>2, <3>3
  <2>13. /\ methods' \in Seq([Names -> Closures]) /\ DOMAIN methods' = DOMAIN methods
         /\ Len(methods') = Len(methods) /\ methods'[klass] = methods[s]
         /\ \A d \in DOMAIN methods : d # klass => methods'[d] = methods[d]
    BY <2>4, <2>5, <2>12, Replaced
  <2>14. Steady
    BY <2>4, <2>11, <2>13 DEF Steady
  <2>15. \A d \in DOMAIN methods : d # klass => \A a \in 1 .. d : line'[a] = line[a]
    <3>1. \A d \in DOMAIN methods : d # klass => \A a \in 1 .. d : a \in DOMAIN methods /\ a # klass
      BY <2>5
    <3> QED
      BY <2>11, <3>1
  <2>16. Lined(klass)'
    <3>1. \A k \in 2 .. Len(l) : l[k] \in 1 .. klass - 1
      <4>1. SUFFICES ASSUME NEW k \in 2 .. Len(l) PROVE l[k] \in 1 .. klass - 1
        OBVIOUS
      <4>2. k - 1 \in 1 .. Len(line[s]) /\ l[k] = line[s][k - 1]
        BY <2>9, <2>10
      <4>3. line[s][k - 1] \in 1 .. s
        BY <2>6, <2>10, <4>2, Older DEF IInv
      <4> QED
        BY <2>5, <2>6, <4>2, <4>3
    <3>2. ASSUME NEW k \in DOMAIN l, NEW j \in DOMAIN line'[l[k]]
          PROVE  \E i \in DOMAIN l : l[i] = line'[l[k]][j]
      <4>1. CASE k = 1
        BY <2>9, <2>11, <4>1, <3>2
      <4>2. CASE k # 1
        <5>1. k - 1 \in DOMAIN line[s] /\ l[k] = line[s][k - 1]
          BY <2>9, <2>10, <4>2
        <5>2. l[k] \in 1 .. s
          BY <2>6, <5>1, Older DEF IInv
        <5>3. line'[l[k]] = line[l[k]]
          BY <2>4, <2>6, <2>15, <5>2
        <5>4. PICK i \in DOMAIN line[s] : line[s][i] = line[l[k]][j]
          BY <2>7, <3>2, <5>1, <5>3 DEF Lined
        <5>5. 1 + i \in DOMAIN l /\ l[1 + i] = line[s][i]
          BY <2>9, <2>10
        <5>6. l[1 + i] = line'[l[k]][j]
          BY <5>3, <5>4, <5>5
        <5> QED
          BY <5>5, <5>6
      <4> QED
        BY <4>1, <4>2
    <3>3. Tail(l) = line'[l[2]]
      <4>1. l[2] = s
        <5>1. 1 \in 1 .. Len(line[s]) /\ line[s][1] = s
          BY <2>7, <2>10 DEF Lined
        <5>2. l[1 + 1] = line[s][1]
          BY <2>9, <5>1
        <5> QED
          BY <5>1, <5>2
      <4>2. line'[s] = line[s]
        BY <2>4, <2>6, <2>11
      <4>3. Len(Tail(l)) = Len(line[s]) /\ \A i \in 1 .. Len(line[s]) : Tail(l)[i] = line[s][i]
        BY <2>9, <2>10
      <4>4. Tail(l) \in Seq(1 .. ClassBound)
        BY <2>9, <2>10
      <4> QED
        BY <2>7, <4>1, <4>2, <4>3, <4>4
    <3>4. Len(l) > 0
      BY <2>9, <2>10
    <3>5. line'[klass] = l /\ klass' = klass /\ l[1] = klass
      BY <2>4, <2>9, <2>11
    <3>6. \A k \in DOMAIN l : \A j \in DOMAIN line'[l[k]] :
             \E i \in DOMAIN l : l[i] = line'[l[k]][j]
      BY <3>2
    <3> QED
      BY <3>1, <3>3, <3>4, <3>5, <3>6 DEF Lined
  <2>17. ASSUME NEW n \in Names PROVE Copy(klass, n)'
    <3>1. methods'[klass][n] = methods[s][n] /\ klass' = klass /\ own' = own
      BY <2>4, <2>13
    <3>2. Copy(s, n) /\ Copy(klass, n)
      BY <2>5, <2>6 DEF IInv, Tables
    <3>3. n \notin own[klass]
      <4>1. methods[klass][n] = NoMethod
        BY <2>4 DEF NoMethods
      <4>2. 1 \in DOMAIN line[klass]
        BY <2>7, <2>8
      <4> QED
        BY <2>8, <3>2, <4>1, <4>2 DEF Copy
    <3>4. CASE methods[s][n] = NoMethod
      <4>1. \A i \in DOMAIN line[s] : n \notin own[line[s][i]]
        BY <3>2, <3>4 DEF Copy
      <4>2. \A i \in DOMAIN l : i = 1 \/ (i - 1 \in DOMAIN line[s] /\ l[i] = line[s][i - 1])
        BY <2>9, <2>10
      <4>3. \A i \in DOMAIN l : n \notin own[l[i]]
        BY <2>9, <3>3, <4>1, <4>2
      <4> QED
        BY <2>11, <3>1, <3>4, <4>3 DEF Copy
    <3>5. CASE methods[s][n] # NoMethod
      <4>1. PICK m \in Closures : m = methods[s][n] /\ Belongs(s, m) /\ m.name = n
        BY <2>6, <3>2, <3>5, Found DEF IInv, Copy
      <4>2. PICK i \in DOMAIN line[s] : m.home = line[s][i] /\ First(line[s], n, i)
        BY <3>2, <3>5, <4>1 DEF Copy
      <4>3. i + 1 \in DOMAIN l /\ l[i + 1] = m.home
        BY <2>9, <2>10, <4>2
      <4>4. First(l, n, i + 1)
        <5>1. n \in own[l[i + 1]] /\ i \in Nat
          BY <2>10, <4>2, <4>3 DEF First, Promise!First
        <5>2. ASSUME NEW j \in 1 .. i PROVE n \notin own[l[j]]
          <6>1. CASE j = 1
            BY <2>9, <3>3, <6>1
          <6>2. CASE j # 1
            <7>1. j - 1 \in 1 .. i - 1 /\ j - 1 \in 1 .. Len(line[s])
              BY <2>10, <4>2, <6>2
            <7>2. l[j] = line[s][j - 1]
              BY <2>9, <7>1
            <7> QED
              BY <4>2, <7>1, <7>2 DEF First, Promise!First
          <6> QED
            BY <6>1, <6>2
        <5> QED
          BY <5>1, <5>2 DEF First, Promise!First
      <4>5. Belongs(klass, m)'
        <5>1. m.super = Superclass(m.home)
          BY <4>1 DEF Belongs
        <5>2. m.home \in 1 .. s
          BY <2>6, <4>2, Older DEF IInv
        <5>3. line'[m.home] = line[m.home]
          BY <2>4, <2>6, <2>15, <5>2
        <5> QED
          BY <2>4, <2>11, <4>3, <5>1, <5>3 DEF Belongs, Superclass
      <4>6. First(line[klass], n, i + 1)'
        BY <2>4, <2>11, <3>1, <4>4 DEF First, Promise!First
      <4>7. Belongs(klass, methods[klass][n])'
        BY <3>1, <4>1, <4>5 DEF Belongs, Superclass
      <4>8. methods'[klass][n] = m /\ m # NoMethod
        BY <3>1, <3>5, <4>1
      <4> QED
        BY <2>4, <2>11, <4>1, <4>3, <4>6, <4>7, <4>8 DEF Copy
    <3> QED
      BY <3>4, <3>5
  <2>18. Tables'
    <3>1. Sizes'
      BY <2>4, <2>5, <2>11, <2>13 DEF Sizes
    <3>2. ASSUME NEW d \in DOMAIN methods' PROVE Lined(d)'
      <4>1. CASE d = klass
        BY <2>4, <2>16, <4>1 DEF Lined
      <4>2. CASE d # klass
        BY <2>13, <2>15, <4>2, LinedStays DEF IInv
      <4> QED
        BY <4>1, <4>2
    <3>3. ASSUME NEW d \in DOMAIN methods', NEW n \in Names PROVE Copy(d, n)'
      <4>1. CASE d = klass
        BY <2>4, <2>17, <4>1 DEF Copy, Belongs, Superclass, First, Promise!First
      <4>2. CASE d # klass
        BY <2>4, <2>13, <2>14, <2>15, <4>2, CopyStays DEF IInv
      <4> QED
        BY <4>1, <4>2
    <3> QED
      BY <3>1, <3>2, <3>3 DEF Tables
  <2>19. Contents'
    BY <2>4, <2>14, InstancesStay, VariablesStay, FramesStay, ValueStays DEF IInv, Contents
  <2>20. Declared'
    <3>1. Superclass(klass)' = s
      <4>1. l[2] = s /\ Len(l) > 1
        BY <2>7, <2>9, <2>10 DEF Lined
      <4> QED
        BY <2>4, <2>11, <4>1 DEF Superclass
    <3> QED
      BY <2>4, <2>13, <3>1 DEF IInv, Declared, Superclass
  <2> QED
    BY <2>18, <2>19, <2>20 DEF IInv
<1> QED
  BY <1>1, <1>2
-----------------------------------------------------------------------------
(* The theorems.                                                           *)

LEMMA InitStep == Init => IInv
<1> SUFFICES ASSUME Init PROVE IInv
  OBVIOUS
<1>1. Tables
  BY ClassesAssumption DEF Init, Tables, Sizes
<1>2. Good(Nil) /\ Nil \in Values
  BY GoodNil DEF Good
<1>3. Contents
  BY <1>2 DEF Init, Contents
<1>4. Declared
  BY DEF Init, Declared
<1> QED
  BY <1>1, <1>3, <1>4 DEF IInv

LEMMA NextStep == IInv /\ [Next]_vars => IInv'
<1> SUFFICES ASSUME IInv, [Next]_vars PROVE IInv'
  OBVIOUS
<1>1. ASSUME NEW x \in Variables, OpGetGlobal(x) PROVE IInv'
  <2>1. Good(variables[x])
    BY DEF IInv, Contents
  <2> QED
    BY <1>1, <2>1, HaveStep DEF OpGetGlobal
<1>2. CASE OpCall
  BY <1>2, CallValueStep DEF OpCall, IInv, Contents
<1>3. CASE UNCHANGED vars
  <2>1. UNCHANGED Heap /\ frames' = frames /\ value' = value /\ UNCHANGED <<klass, super>>
    BY <1>3 DEF vars, Heap
  <2>2. Have(value)
    BY <2>1 DEF Have
  <2> QED
    BY <2>1, <2>2, HaveStep DEF IInv, Contents
<1>4. ASSUME NEW x \in Variables, NEW n \in FieldNames, OpSetProperty(x, n) PROVE IInv'
  BY <1>4, OpSetPropertyStep, ClassesAssumption
<1> QED
  BY <1>1, <1>2, <1>3, <1>4, OpClassStep, OpInheritStep, OpSetGlobalStep, OpMethodStep,
     OpInvokeStep, OpSuperInvokeStep, OpGetSuperStep, EndClassStep, OpReturnStep,
     GetThisStep DEF Next

LEMMA Invariance == Spec => []IInv
BY InitStep, NextStep, PTL DEF Spec

LEMMA Typed == IInv => TypeOK
<1> SUFFICES ASSUME IInv PROVE TypeOK
  OBVIOUS
<1>1. super \in 0 .. Len(methods)
  <2>1. CASE klass = 0
    BY <2>1 DEF IInv, Declared, Tables, Sizes
  <2>2. CASE klass # 0
    <3>1. klass = Len(methods) /\ super = Superclass(klass) /\ klass \in DOMAIN methods
      BY <2>2 DEF IInv, Declared, Tables, Sizes
    <3>2. line[klass] \in Seq(1 .. ClassBound) /\ Lined(klass)
      BY <3>1, Element DEF IInv, Tables, Sizes
    <3>3. ASSUME Len(line[klass]) > 1 PROVE line[klass][2] \in 1 .. Len(methods)
      <4>1. 2 \in DOMAIN line[klass]
        BY <3>2, <3>3
      <4> QED
        BY <3>1, <4>1, Older DEF IInv
    <3> QED
      BY <3>1, <3>3 DEF Superclass, IInv, Tables, Sizes
  <2> QED
    BY <2>1, <2>2
<1>2. \A v \in Held : Exists(v)
  BY DEF IInv, Contents, GoodObject, Good, Held
<1> QED
  BY <1>1, <1>2 DEF TypeOK, IInv, Tables, Sizes, Contents, GoodObject, GoodFrame, Good,
     Declared

(* The search of Dispatch finds what a class has in its table.               *)
LEMMA Searched ==
    ASSUME IInv, NEW c \in DOMAIN methods, NEW n \in Names
    PROVE  /\ (methods[c][n] # NoMethod) <=> Promise!Provides(line[c], n)
           /\ methods[c][n] # NoMethod =>
                 /\ methods[c][n].name = n
                 /\ Promise!Resolve(line[c], n) = [home |-> methods[c][n].home, name |-> n]
<1> DEFINE m == methods[c][n]
<1>1. Copy(c, n) /\ line[c] \in Seq(1 .. ClassBound)
  BY Element DEF IInv, Tables, Sizes
<1>2. (m # NoMethod) <=> Promise!Provides(line[c], n)
  BY <1>1 DEF Copy, First, Promise!First, Promise!Provides
<1>3. ASSUME m # NoMethod
      PROVE  Promise!Resolve(line[c], n) = [home |-> m.home, name |-> n]
  <2>1. PICK i \in DOMAIN line[c] : m.home = line[c][i] /\ First(line[c], n, i)
    BY <1>1, <1>3 DEF Copy
  <2>2. ASSUME NEW j \in DOMAIN line[c], Promise!First(line[c], n, j) PROVE j = i
    <3>1. i \in Nat /\ j \in Nat /\ i > 0 /\ j > 0
      BY <1>1
    <3>2. ~(j < i) /\ ~(i < j)
      BY <2>1, <2>2, <3>1 DEF First, Promise!First
    <3> QED
      BY <3>1, <3>2
  <2>3. (CHOOSE j \in DOMAIN line[c] : Promise!First(line[c], n, j)) = i
    BY <2>1, <2>2 DEF First
  <2> QED
    BY <2>1, <2>3 DEF Promise!Resolve
<1> QED
  BY <1>1, <1>2, <1>3 DEF Copy

(* Whatever any number of programs declare and assign, the types of Classes    *)
(* hold, and nothing refers to a class or an instance that is not there.      *)
THEOREM TypesHold == Spec => []TypeOK
BY Invariance, Typed, PTL

(* OP_INHERIT's copies answer every name as a search along the superclasses   *)
(* would, for every tree of classes.                                       *)
THEOREM CopiesAnswerLikeSearches == Spec => []CopiesAreLookups
<1>1. IInv => CopiesAreLookups
  <2> SUFFICES ASSUME IInv PROVE CopiesAreLookups
    OBVIOUS
  <2>1. \A c \in DOMAIN methods, n \in Names :
           /\ (methods[c][n] # NoMethod) <=> Promise!Provides(line[c], n)
           /\ methods[c][n] # NoMethod =>
                 /\ methods[c][n].home = Promise!Resolve(line[c], n).home
                 /\ methods[c][n].name = n
    <3>1. SUFFICES ASSUME NEW c \in DOMAIN methods, NEW n \in Names
          PROVE  /\ (methods[c][n] # NoMethod) <=> Promise!Provides(line[c], n)
                 /\ methods[c][n] # NoMethod =>
                       /\ methods[c][n].home = Promise!Resolve(line[c], n).home
                       /\ methods[c][n].name = n
      OBVIOUS
    <3>2. ASSUME NEW h, NEW r, r = [home |-> h, name |-> n] PROVE r.home = h
      BY <3>2
    <3> QED
      BY <3>2, Searched
  <2>2. DOMAIN methods = 1 .. Len(methods)
    BY DEF IInv, Tables, Sizes
  <2> QED
    BY <2>1, <2>2 DEF CopiesAreLookups
<1> QED
  BY <1>1, Invariance, PTL

(* A method that runs, and one that is bound, has its class on the line of its *)
(* receiver and the class after it in `super`.                              *)
THEOREM SuperFollowsTheLine == Spec => []SuperIsNextInLine
<1>1. IInv => SuperIsNextInLine
  BY DEF IInv, Contents, GoodObject, GoodFrame, Good, Held, SuperIsNextInLine
<1> QED
  BY <1>1, Invariance, PTL
-----------------------------------------------------------------------------
(* Every step of Classes is one of Dispatch, or none.                        *)

LEMMA CallEntered ==
    ASSUME frames \in Seq(Frames), NEW i, NEW m,
           frames' = Append(frames, [this |-> i, method |-> m]),
           \A k \in DOMAIN frames :
              instances'[frames[k].this].class = instances[frames[k].this].class,
           NEW c, c = instances'[i].class
    PROVE  Calls' = Append(Calls, [class |-> c, method |-> [home |-> m.home, name |-> m.name]])
<1>1. PICK f : f = [this |-> i, method |-> m]
  OBVIOUS
<1>2. /\ Len(frames) \in Nat /\ Len(frames') = Len(frames) + 1
      /\ frames'[Len(frames) + 1] = f
      /\ \A k \in 1 .. Len(frames) : frames'[k] = frames[k]
  BY <1>1
<1>3. PICK e : e = [class |-> c, method |-> [home |-> m.home, name |-> m.name]]
  OBVIOUS
<1>4. Message(frames[Len(frames)].this, frames[Len(frames)].method)' = e
  BY <1>1, <1>2, <1>3 DEF Message
<1>5. \A k \in 1 .. Len(frames) :
         Message(frames[k].this, frames[k].method)' = Message(frames[k].this, frames[k].method)
  BY <1>2 DEF Message
<1>6. Calls' = [k \in 1 .. Len(frames) + 1 |->
                 Message(frames[k].this, frames[k].method)']
  BY <1>2 DEF Calls
<1>7. Append(Calls, e) = [k \in 1 .. Len(frames) + 1 |-> IF k = Len(frames) + 1 THEN e ELSE Calls[k]]
  BY <1>2 DEF Calls
<1>8. Calls' = Append(Calls, e)
  BY <1>2, <1>4, <1>5, <1>6, <1>7 DEF Calls
<1> QED
  BY <1>3, <1>8

LEMMA CallsUnmoved ==
    ASSUME frames' = frames,
           \A k \in DOMAIN frames :
              instances'[frames[k].this].class = instances[frames[k].this].class
    PROVE  Calls' = Calls
BY DEF Calls, Message

(* No bound method is new.                                                 *)
LEMMA BoundKept ==
    ASSUME IInv, Steady, NEW B,
           \A w \in Held' : w.kind = "bound" => w \in Held \/ Message(w.of, w.method)' \in B
    PROVE  Bound' \subseteq Bound \cup B
<1>1. SUFFICES ASSUME NEW w \in Held', w.kind = "bound", w \in Held
      PROVE  Message(w.of, w.method)' \in Bound
  BY DEF Bound
<1>2. w.of \in DOMAIN instances
  BY <1>1 DEF IInv, Contents, GoodObject, Good, Exists, Held
<1>3. Message(w.of, w.method)' = Message(w.of, w.method)
  BY <1>2 DEF Message, Steady
<1> QED
  BY <1>1, <1>3 DEF Bound
LEMMA NoneNew ==
    ASSUME IInv, Steady, \A w \in Held' : w \in Held \/ w.kind # "bound"
    PROVE  Promise!Keep
<1>1. Bound' \subseteq Bound \cup {}
  BY BoundKept
<1> QED
  BY <1>1 DEF Promise!Keep

LEMMA Quiet ==
    ASSUME IInv, Steady, UNCHANGED <<own, line, frames>>,
           \A w \in Held' : w \in Held \/ w.kind # "bound"
    PROVE  Promise!Next
<1>1. \A k \in DOMAIN frames : frames[k].this \in DOMAIN instances
  BY DEF IInv, Contents, GoodFrame
<1>2. Calls' = Calls
  BY <1>1, CallsUnmoved DEF Steady
<1> QED
  BY <1>2, NoneNew DEF Promise!Next

LEMMA Errors ==
    ASSUME IInv, RuntimeError
    PROVE  Promise!Next /\ Promise!Stop
<1>1. UNCHANGED Heap /\ value' = Nil /\ frames' = <<>>
  BY DEF RuntimeError
<1>2. Steady
  BY <1>1 DEF Steady, Heap
<1>3. Nil.kind # "bound"
  BY NewValue, NoMethodIsClosure DEF Nil
<1>4. \A w \in Held' : w \in Held \/ w.kind # "bound"
  BY <1>1, <1>3 DEF Held, Heap
<1>5. Promise!Keep
  BY <1>2, <1>4, NoneNew
<1>6. Calls' = <<>>
  BY <1>1 DEF Calls
<1>7. Promise!Stop
  BY <1>1, <1>6 DEF Promise!Stop, Heap
<1> QED
  BY <1>5, <1>7 DEF Promise!Next

(* A call, of a new instance or an old one.                                 *)
LEMMA Entering ==
    ASSUME IInv, Steady, UNCHANGED <<own, line>>, NEW c \in DOMAIN methods, NEW i,
           instances'[i].class = c, NEW m,
           frames' = Append(frames, [this |-> i, method |-> m]),
           \A w \in Held' : w \in Held \/ w.kind # "bound"
    PROVE  /\ Promise!Keep
           /\ Promise!Run(c, [home |-> m.home, name |-> m.name])
<1>1. frames \in Seq(Frames) /\ \A k \in DOMAIN frames : frames[k].this \in DOMAIN instances
  BY DEF IInv, Contents, GoodFrame
<1>2. Calls' = Append(Calls, [class |-> c, method |-> [home |-> m.home, name |-> m.name]])
  BY <1>1, CallEntered DEF Steady
<1> QED
  BY <1>2, NoneNew DEF Promise!Run

LEMMA Sending ==
    ASSUME IInv, Steady, UNCHANGED <<own, line>>, NEW c \in DOMAIN methods, NEW i,
           instances'[i].class = c, NEW n \in Names, methods[c][n] # NoMethod,
           frames' = Append(frames, [this |-> i, method |-> methods[c][n]]),
           \A w \in Held' : w \in Held \/ w.kind # "bound"
    PROVE  Promise!Next
<1>1. PICK m : m = methods[c][n]
  OBVIOUS
<1>2. /\ m.name = n /\ Promise!Provides(line[c], n)
      /\ Promise!Resolve(line[c], n) = [home |-> m.home, name |-> m.name]
  <2>1. /\ methods[c][n].name = n /\ Promise!Provides(line[c], n)
        /\ Promise!Resolve(line[c], n) = [home |-> methods[c][n].home, name |-> n]
    BY Searched
  <2> QED
    BY <1>1, <2>1
<1>3. Promise!Keep /\ Promise!Run(c, [home |-> m.home, name |-> m.name])
  BY <1>1, Entering
<1>4. Promise!Send(c, n)
  BY <1>2, <1>3 DEF Promise!Send
<1>5. c \in 1 .. Len(own)
  BY DEF IInv, Tables, Sizes
<1> QED
  BY <1>3, <1>4, <1>5 DEF Promise!Next

LEMMA CallClassSends ==
    ASSUME IInv, NEW c \in DOMAIN methods, CallClass(c)
    PROVE  Promise!Next
<1>1. PICK i, o : i = Len(instances) + 1 /\ o = [class |-> c, fields |-> NoFields]
  OBVIOUS
<1>2. /\ instances' = Append(instances, o)
      /\ UNCHANGED <<methods, own, line, variables>>
      /\ \/ /\ methods[c][InitName] # NoMethod
            /\ frames' = Append(frames, [this |-> i, method |-> methods[c][InitName]])
            /\ value' = Nil
         \/ frames' = frames /\ value' = Instance(i)
  BY <1>1 DEF CallClass, Enter, Have
<1>3. /\ instances \in Seq(Objects) /\ Len(instances) \in Nat
      /\ DOMAIN instances = 1 .. Len(instances)
      /\ DOMAIN instances' = 1 .. i /\ instances'[i] = o
      /\ \A j \in DOMAIN instances : instances'[j] = instances[j]
  BY <1>1, <1>2 DEF IInv, Contents
<1>4. Steady
  BY <1>1, <1>2, <1>3 DEF Steady
<1>5. \A w \in Held' : w \in Held \/ w.kind # "bound"
  <2>1. Nil.kind # "bound" /\ Instance(i).kind # "bound"
    <3>1. i \in Nat
      BY <1>1, <1>3
    <3>2. Nil.kind = "nil" /\ Instance(i).kind = "instance"
      BY <3>1, NewValue, NoMethodIsClosure DEF Nil, Instance
    <3> QED
      BY <3>2
  <2>2. value'.kind # "bound"
    BY <1>2, <2>1
  <2>3. ASSUME NEW j \in DOMAIN instances', NEW n \in Names
        PROVE  instances'[j].fields[n] \in Held \/ instances'[j].fields[n].kind # "bound"
    <3>1. CASE j \in DOMAIN instances
      BY <1>3, <3>1 DEF Held
    <3>2. CASE j = i
      BY <1>1, <1>3, <2>1, <3>2 DEF NoFields
    <3> QED
      BY <1>1, <1>3, <3>1, <3>2
  <2>4. ASSUME NEW w \in Held'
        PROVE  \/ w = value' \/ (\E x \in Variables : w = variables'[x])
               \/ (\E j \in DOMAIN instances', n \in Names : w = instances'[j].fields[n])
    BY <2>4 DEF Held
  <2> QED
    BY <1>2, <2>2, <2>3, <2>4 DEF Held
<1>6. instances'[i].class = c
  BY <1>1, <1>3
<1>7. CASE frames' = frames
  BY <1>2, <1>4, <1>5, <1>7, Quiet
<1>8. CASE /\ methods[c][InitName] # NoMethod
           /\ frames' = Append(frames, [this |-> i, method |-> methods[c][InitName]])
  BY <1>2, <1>4, <1>5, <1>6, <1>8, Sending, ClassesAssumption
<1> QED
  BY <1>2, <1>7, <1>8

LEMMA HeapKeeps ==
    ASSUME IInv, UNCHANGED Heap, value' \in Held \cup {Nil} \/ value'.kind # "bound"
    PROVE  Steady /\ \A w \in Held' : w \in Held \/ w.kind # "bound"
<1>1. Nil.kind # "bound"
  BY NewValue, NoMethodIsClosure DEF Nil
<1> QED
  BY <1>1 DEF Steady, Heap, Held

LEMMA InvokeFromClassSends ==
    ASSUME IInv, NEW i \in DOMAIN instances, NEW n \in Names,
           InvokeFromClass(i, instances[i].class, n)
    PROVE  Promise!Next
<1>1. PICK c \in DOMAIN methods : c = instances[i].class
  BY DEF IInv, Contents, GoodObject
<1>2. CASE RuntimeError
  BY <1>2, Errors
<1>3. CASE methods[c][n] # NoMethod /\ Enter(i, methods[c][n]) /\ UNCHANGED Heap
  <2>1. /\ frames' = Append(frames, [this |-> i, method |-> methods[c][n]])
        /\ value' = Nil /\ UNCHANGED <<own, line, instances>>
    BY <1>3 DEF Enter, Heap
  <2>2. Steady /\ \A w \in Held' : w \in Held \/ w.kind # "bound"
    BY <1>3, <2>1, HeapKeeps
  <2> QED
    BY <1>1, <1>3, <2>1, <2>2, Sending
<1> QED
  BY <1>1, <1>2, <1>3 DEF InvokeFromClass

LEMMA CallValueSends ==
    ASSUME IInv, NEW v \in Held, CallValue(v)
    PROVE  Promise!Next
<1>1. Good(v)
  BY DEF IInv, Contents, GoodObject, Held
<1>2. CASE v.kind = "class" /\ CallClass(v.of)
  BY <1>1, <1>2, CallClassSends DEF Good, Exists
<1>3. CASE v.kind = "bound" /\ Enter(v.of, v.method) /\ UNCHANGED Heap
  <2>1. /\ frames' = Append(frames, [this |-> v.of, method |-> v.method])
        /\ value' = Nil /\ UNCHANGED <<own, line, instances>>
    BY <1>3 DEF Enter, Heap
  <2>2. Steady /\ \A w \in Held' : w \in Held \/ w.kind # "bound"
    BY <1>3, <2>1, HeapKeeps
  <2>3. frames \in Seq(Frames)
    BY DEF IInv, Contents
  <2>4. Calls' = Append(Calls, Message(v.of, v.method))
    BY <2>1, <2>3, CallEntered DEF Message
  <2>5. Message(v.of, v.method) \in Bound
    BY <1>3 DEF Bound
  <2>6. Promise!Keep /\ Promise!SendBound
    BY <2>1, <2>2, <2>4, <2>5, NoneNew DEF Promise!SendBound
  <2> QED
    BY <2>6 DEF Promise!Next
<1>4. CASE RuntimeError
  BY <1>4, Errors
<1> QED
  BY <1>2, <1>3, <1>4 DEF CallValue

LEMMA OpInvokeSends ==
    ASSUME IInv, NEW n \in Names, OpInvoke(n)
    PROVE  Promise!Next
<1>1. CASE value.kind = "instance"
  <2>1. value.of \in DOMAIN instances
    BY <1>1 DEF IInv, Contents, Good, Exists
  <2>2. instances[value.of].fields[n] \in Held
    BY <2>1 DEF Held
  <2> QED
    BY <1>1, <2>1, <2>2, CallValueSends, InvokeFromClassSends DEF OpInvoke
<1>2. CASE value.kind # "instance"
  BY <1>2, Errors DEF OpInvoke
<1> QED
  BY <1>1, <1>2
(* The method that runs, and what is above it.                               *)
LEMMA Speaks ==
    ASSUME IInv, Running, Super # 0, NEW n \in Names
    PROVE  /\ Calls # <<>> /\ Super \in DOMAIN methods /\ This \in DOMAIN instances
           /\ Promise!Speaker.class = instances[This].class
           /\ Promise!Speaker.method.home = Frame.method.home
           /\ instances[This].class \in DOMAIN methods
           /\ Promise!Above(Frame.method.home) = line[Super]
           /\ (methods[Super][n] # NoMethod)
                 <=> Promise!Provides(Promise!Above(Frame.method.home), n)
           /\ methods[Super][n] # NoMethod =>
                 /\ methods[Super][n].name = n
                 /\ Promise!Resolve(Promise!Above(Frame.method.home), n)
                       = [home |-> methods[Super][n].home, name |-> methods[Super][n].name]
<1>1. /\ This \in DOMAIN instances /\ Frame.method \in Closures
      /\ instances[This].class \in DOMAIN methods
      /\ Belongs(instances[This].class, Frame.method)
  BY Speaking DEF This, GoodFrame
<1>2. Super \in DOMAIN methods /\ Tail(line[Frame.method.home]) = line[Super]
  BY <1>1, SuperLine DEF IInv, Super
<1>3. Promise!Above(Frame.method.home) = line[Super]
  BY <1>2 DEF Promise!Above
<1>4. /\ Len(frames) \in 1 .. Len(frames) /\ Len(Calls) = Len(frames) /\ Calls # <<>>
      /\ Calls[Len(frames)] = Message(This, Frame.method)
  <2>1. frames \in Seq(Frames) /\ frames # <<>>
    BY DEF IInv, Contents, Running
  <2>2. Len(frames) \in Nat \ {0}
    BY <2>1
  <2>3. Len(Calls) = Len(frames) /\ DOMAIN Calls = 1 .. Len(frames)
    BY <2>2 DEF Calls
  <2> QED
    BY <2>2, <2>3 DEF Calls, This, Frame
<1>5. /\ Promise!Speaker.class = instances[This].class
      /\ Promise!Speaker.method.home = Frame.method.home
  BY <1>4 DEF Promise!Speaker, Message
<1>6. /\ methods[Super][n] # NoMethod <=> Promise!Provides(line[Super], n)
      /\ methods[Super][n] # NoMethod =>
            /\ methods[Super][n].name = n
            /\ Promise!Resolve(line[Super], n) = [home |-> methods[Super][n].home, name |-> n]
  BY <1>2, Searched
<1> QED
  BY <1>1, <1>2, <1>3, <1>4, <1>5, <1>6

LEMMA OpSuperInvokeSends ==
    ASSUME IInv, NEW n \in Names, OpSuperInvoke(n)
    PROVE  /\ Promise!Next
           /\ IF Promise!Provides(Promise!Above(Frame.method.home), n)
              THEN Promise!SendSuper(n) ELSE Promise!Stop
<1>1. Running /\ Super # 0
  BY DEF OpSuperInvoke
<1>2. PICK m : m = methods[Super][n]
  OBVIOUS
<1>3. CASE m # NoMethod
  <2>1. /\ frames' = Append(frames, [this |-> This, method |-> m])
        /\ value' = Nil /\ UNCHANGED Heap
    BY <1>2, <1>3 DEF OpSuperInvoke, InvokeFromClass, Enter
  <2>2. /\ Promise!Speaker.class = instances[This].class
        /\ instances[This].class \in DOMAIN methods
        /\ Promise!Provides(Promise!Above(Promise!Speaker.method.home), n)
        /\ Promise!Provides(Promise!Above(Frame.method.home), n)
        /\ Promise!Resolve(Promise!Above(Promise!Speaker.method.home), n)
              = [home |-> m.home, name |-> m.name]
        /\ Calls # <<>>
    BY <1>1, <1>2, <1>3, Speaks
  <2>3. Steady /\ \A w \in Held' : w \in Held \/ w.kind # "bound"
    BY <2>1, HeapKeeps
  <2>4. UNCHANGED <<own, line>> /\ instances'[This].class = instances[This].class
    BY <2>1 DEF Heap
  <2>5. /\ Promise!Keep
        /\ Promise!Run(instances[This].class, [home |-> m.home, name |-> m.name])
    BY <2>1, <2>2, <2>3, <2>4, Entering
  <2>6. Promise!SendSuper(n)
    BY <2>2, <2>4, <2>5 DEF Promise!SendSuper
  <2> QED
    BY <2>2, <2>5, <2>6 DEF Promise!Next
<1>4. CASE m = NoMethod
  <2>1. RuntimeError
    BY <1>2, <1>4 DEF OpSuperInvoke, InvokeFromClass
  <2>2. ~Promise!Provides(Promise!Above(Frame.method.home), n)
    BY <1>1, <1>2, <1>4, Speaks
  <2> QED
    BY <2>1, <2>2, Errors
<1> QED
  BY <1>3, <1>4

LEMMA OpGetSuperBinds ==
    ASSUME IInv, NEW n \in Names, OpGetSuper(n)
    PROVE  Promise!Next
<1>1. Running /\ Super # 0
  BY DEF OpGetSuper
<1>2. PICK m : m = methods[Super][n]
  OBVIOUS
<1>3. CASE m # NoMethod
  <2>1. /\ frames' = frames /\ value' = BoundMethod(This, m) /\ UNCHANGED Heap
    BY <1>2, <1>3 DEF OpGetSuper, Have
  <2>2. /\ Promise!Speaker.class = instances[This].class
        /\ Promise!Provides(Promise!Above(Promise!Speaker.method.home), n)
        /\ Promise!Resolve(Promise!Above(Promise!Speaker.method.home), n)
              = [home |-> m.home, name |-> m.name]
        /\ Calls # <<>> /\ This \in DOMAIN instances /\ Super \in DOMAIN methods
    BY <1>1, <1>2, <1>3, Speaks
  <2>3. Steady
    BY <2>1 DEF Steady, Heap
  <2>4. m \in Closures /\ This \in Nat
    BY <1>2, <2>2, Found DEF IInv, Contents
  <2>5. BoundMethod(This, m).of = This /\ BoundMethod(This, m).method = m
    BY <2>4, NewValue DEF BoundMethod
  <2>6. PICK b : b = Message(This, m)
    OBVIOUS
  <2>7. \A w \in Held' : w.kind = "bound" => w \in Held \/ Message(w.of, w.method)' \in {b}
    <3>1. SUFFICES ASSUME NEW w \in Held' PROVE w \in Held \/ Message(w.of, w.method)' \in {b}
      OBVIOUS
    <3>2. CASE w = BoundMethod(This, m)
      BY <2>1, <2>5, <2>6, <3>2 DEF Message, Heap
    <3>3. CASE w # BoundMethod(This, m)
      BY <2>1, <3>3 DEF Held, Heap
    <3> QED
      BY <3>2, <3>3
  <2>8. Bound' \subseteq Bound \cup {b}
    BY <2>3, <2>7, BoundKept
  <2>9. b = [class |-> Promise!Speaker.class,
             method |-> Promise!Resolve(Promise!Above(Promise!Speaker.method.home), n)]
    BY <2>2, <2>6 DEF Message
  <2>10. Calls' = Calls
    <3>1. \A k \in DOMAIN frames : frames[k].this \in DOMAIN instances
      BY DEF IInv, Contents, GoodFrame
    <3> QED
      BY <2>1, <2>3, <3>1, CallsUnmoved DEF Steady
  <2>11. UNCHANGED <<own, line>>
    BY <2>1 DEF Heap
  <2>12. Promise!BindSuper(n)
    BY <2>2, <2>8, <2>9, <2>10, <2>11 DEF Promise!BindSuper
  <2> QED
    BY <2>2, <2>12 DEF Promise!Next
<1>4. CASE m = NoMethod
  BY <1>2, <1>4, Errors DEF OpGetSuper
<1> QED
  BY <1>3, <1>4

LEMMA OpReturnReturns ==
    ASSUME IInv, OpReturn
    PROVE  Promise!Next
<1>1. /\ Running /\ UNCHANGED Heap
      /\ frames' = SubSeq(frames, 1, Len(frames) - 1)
      /\ value' \in {Instance(This), value}
  BY DEF OpReturn
<1>2. Instance(This).kind # "bound"
  <2>1. This \in Nat
    BY <1>1, Speaking DEF This, IInv, Contents
  <2>2. Instance(This).kind = "instance"
    BY <2>1, NewValue, NoMethodIsClosure DEF Instance
  <2> QED
    BY <2>2
<1>3. Promise!Keep
  <2>1. Steady /\ \A w \in Held' : w \in Held \/ w.kind # "bound"
    <3>1. value' \in Held \cup {Nil} \/ value'.kind # "bound"
      BY <1>1, <1>2 DEF Held
    <3> QED
      BY <1>1, <3>1, HeapKeeps
  <2> QED
    BY <2>1, NoneNew
<1>4. Calls # <<>> /\ Calls' = SubSeq(Calls, 1, Len(Calls) - 1)
  <2>1. frames \in Seq(Frames) /\ frames # <<>>
    BY <1>1 DEF IInv, Contents, Running
  <2>2. /\ Len(frames) \in Nat \ {0} /\ Len(frames') = Len(frames) - 1
        /\ \A k \in 1 .. Len(frames) - 1 : frames'[k] = frames[k]
    <3>1. Len(frames) \in Nat \ {0} /\ Len(frames) - 1 \in 0 .. Len(frames)
      BY <2>1
    <3> QED
      BY <1>1, <2>1, <3>1, Prefix
  <2>3. Calls' = [k \in 1 .. Len(frames) - 1 |-> Message(frames[k].this, frames[k].method)]
    BY <1>1, <2>2 DEF Calls, Message, Heap
  <2>4. Len(Calls) = Len(frames)
    BY <2>2 DEF Calls
  <2>5. SubSeq(Calls, 1, Len(Calls) - 1)
           = [k \in 1 .. Len(frames) - 1 |-> Message(frames[k].this, frames[k].method)]
    BY <2>2, <2>4 DEF Calls
  <2> QED
    BY <2>2, <2>3, <2>4, <2>5
<1>5. Promise!Return
  BY <1>1, <1>4 DEF Promise!Return, Heap
<1> QED
  BY <1>3, <1>4, <1>5 DEF Promise!Next
LEMMA OpClassDeclares ==
    ASSUME IInv, NEW x \in Variables, OpClass(x)
    PROVE  Promise!Next
<1>1. /\ methods' = Append(methods, NoMethods) /\ own' = Append(own, {})
      /\ line' = Append(line, <<Len(methods) + 1>>)
      /\ variables' = [variables EXCEPT ![x] = Class(Len(methods) + 1)]
      /\ value' = Nil /\ UNCHANGED <<instances, frames>>
  BY DEF OpClass
<1>2. /\ Len(own) = Len(methods) /\ Len(line) = Len(methods) /\ Len(methods) \in Nat
      /\ line \in Seq(Seq(1 .. ClassBound)) /\ methods \in Seq([Names -> Closures])
      /\ variables \in [Variables -> Values] /\ klass = 0
  BY DEF IInv, Tables, Sizes, Contents, OpClass
<1>3. Steady
  BY <1>1, <1>2 DEF Steady
<1>4. \A w \in Held' : w \in Held \/ w.kind # "bound"
  <2>1. Nil.kind = "nil" /\ Class(Len(methods) + 1).kind = "class"
    BY <1>2, NewValue, NoMethodIsClosure DEF Nil, Class
  <2>2. \A y \in Variables : variables'[y] \in {variables[y], Class(Len(methods) + 1)}
    BY <1>1, <1>2
  <2>3. ASSUME NEW w \in Held'
        PROVE  w \in Held \/ w = Nil \/ w = Class(Len(methods) + 1)
    BY <1>1, <2>2 DEF Held
  <2> QED
    BY <2>1, <2>3
<1>5. Promise!Keep
  BY <1>3, <1>4, NoneNew
<1>6. Calls' = Calls
  BY <1>1, CallsUnmoved
<1>7. Promise!Declare
  BY <1>1, <1>2, <1>6 DEF Promise!Declare
<1> QED
  BY <1>5, <1>7 DEF Promise!Next

LEMMA OpInheritExtends ==
    ASSUME IInv, NEW y \in Variables, OpInherit(y)
    PROVE  Promise!Next
<1>1. CASE variables[y].kind # "class"
  BY <1>1, Errors DEF OpInherit
<1>2. CASE variables[y].kind = "class"
  <2>1. PICK s : s = variables[y].of
    OBVIOUS
  <2>2. /\ klass # 0 /\ super = 0 /\ methods[klass] = NoMethods /\ s # klass
        /\ methods' = [methods EXCEPT ![klass] = Copied(methods[s], @)]
        /\ line' = [line EXCEPT ![klass] = @ \o line[s]]
        /\ UNCHANGED <<own, instances, variables, value, frames>>
    BY <1>2, <2>1 DEF OpInherit
  <2>3. /\ methods \in Seq([Names -> Closures]) /\ own \in Seq(SUBSET Names)
        /\ line \in Seq(Seq(1 .. ClassBound))
        /\ Len(own) = Len(methods) /\ Len(line) = Len(methods) /\ Len(methods) \in Nat
        /\ DOMAIN methods = 1 .. Len(methods)
        /\ klass \in DOMAIN methods /\ klass = Len(methods) /\ super = Superclass(klass)
    BY <2>2 DEF IInv, Tables, Sizes, Declared
  <2>4. s \in DOMAIN methods /\ s \in 1 .. klass - 1
    <3>1. s \in DOMAIN methods
      BY <1>2, <2>1 DEF IInv, Contents, Good, Exists
    <3> QED
      BY <2>2, <2>3, <3>1
  <2>5. Lined(klass) /\ line[klass] \in Seq(1 .. ClassBound)
    BY <2>3, Element DEF IInv, Tables
  <2>6. line[klass] = <<klass>>
    <3>1. Len(line[klass]) > 0 /\ line[klass][1] = klass /\ Len(line[klass]) \in Nat
      BY <2>5 DEF Lined
    <3>2. ASSUME Len(line[klass]) > 1 PROVE FALSE
      <4>1. 2 \in 2 .. Len(line[klass])
        BY <2>5, <3>2
      <4>2. line[klass][2] = 0
        BY <2>2, <2>3, <3>2 DEF Superclass
      <4> QED
        BY <2>3, <2>5, <4>1, <4>2 DEF Lined
    <3>3. PICK n, l : n = Len(line[klass]) /\ l = line[klass]
      OBVIOUS
    <3>4. n \in Nat /\ n > 0 /\ ~(n > 1)
      BY <3>1, <3>2, <3>3
    <3>5. l \in Seq(1 .. ClassBound) /\ Len(l) = 1 /\ l[1] = klass
      <4>1. n = 1
        BY <3>4
      <4>2. l \in Seq(1 .. ClassBound) /\ Len(l) = n /\ l[1] = klass
        BY <2>5, <3>1, <3>3
      <4> QED
        BY <4>1, <4>2
    <3>6. l = <<klass>>
      BY <3>5
    <3> QED
      BY <3>3, <3>6
  <2>7. own[klass] = {}
    <3>1. ASSUME NEW n \in own[klass] PROVE FALSE
      <4>1. n \in Names
        BY <2>3, <3>1, Element
      <4>2. Copy(klass, n) /\ methods[klass][n] = NoMethod
        BY <2>2, <2>3, <4>1 DEF IInv, Tables, NoMethods
      <4>3. 1 \in DOMAIN line[klass] /\ line[klass][1] = klass
        BY <2>6
      <4> QED
        BY <3>1, <4>2, <4>3 DEF Copy
    <3> QED
      BY <3>1
  <2>8. Steady
    BY <2>2, <2>3 DEF Steady
  <2>9. Promise!Keep
    <3>1. Held' = Held
      BY <2>2 DEF Held
    <3> QED
      BY <2>8, <3>1, NoneNew
  <2>10. Calls' = Calls
    BY <2>2, CallsUnmoved
  <2>11. line' = [line EXCEPT ![klass] = <<klass>> \o line[s]]
    BY <2>2, <2>6
  <2>12. Promise!Extend(s)
    BY <2>2, <2>3, <2>4, <2>6, <2>7, <2>10, <2>11 DEF Promise!Extend
  <2>13. s \in 1 .. Len(own)
    BY <2>3, <2>4
  <2> QED
    BY <2>9, <2>12, <2>13 DEF Promise!Next
<1> QED
  BY <1>1, <1>2

LEMMA OpMethodAdds ==
    ASSUME IInv, NEW n \in Names, OpMethod(n)
    PROVE  Promise!Next
<1>1. /\ klass # 0 /\ own' = [own EXCEPT ![klass] = @ \cup {n}]
      /\ methods' = [methods EXCEPT ![klass][n] = Closure(klass, n, super)]
      /\ UNCHANGED <<line, instances, variables, value, frames>>
  BY DEF OpMethod
<1>2. /\ klass = Len(own) /\ own # <<>> /\ methods \in Seq([Names -> Closures])
  BY <1>1 DEF IInv, Tables, Sizes, Declared
<1>3. Steady
  BY <1>1, <1>2 DEF Steady
<1>4. Promise!Keep
  <2>1. Held' = Held
    BY <1>1 DEF Held
  <2> QED
    BY <1>3, <2>1, NoneNew
<1>5. Calls' = Calls
  BY <1>1, CallsUnmoved
<1>6. Promise!Method(n)
  BY <1>1, <1>2, <1>5 DEF Promise!Method
<1> QED
  BY <1>4, <1>6 DEF Promise!Next

LEMMA Expressions ==
    ASSUME IInv, NEW v, Have(v), UNCHANGED Heap, v \in Held \/ v.kind # "bound"
    PROVE  Promise!Next
<1>1. frames' = frames /\ value' = v /\ UNCHANGED <<own, line>>
  BY DEF Have, Heap
<1>2. Steady /\ \A w \in Held' : w \in Held \/ w.kind # "bound"
  BY <1>1, HeapKeeps
<1> QED
  BY <1>1, <1>2, Quiet

LEMMA Assignments ==
    ASSUME IInv, NEW x \in Variables, NEW n \in Names, OpSetGlobal(x) \/ OpSetProperty(x, n)
    PROVE  Promise!Next
<1>1. CASE OpSetGlobal(x)
  <2>1. /\ variables' = [variables EXCEPT ![x] = value]
        /\ UNCHANGED <<methods, own, line, instances, value, frames>>
    BY <1>1 DEF OpSetGlobal
  <2>2. Steady
    BY <2>1 DEF Steady
  <2>3. \A y \in Variables : variables'[y] \in {variables[y], value}
    BY <2>1 DEF IInv, Contents
  <2>4. \A w \in Held' : w \in Held
    BY <2>1, <2>3 DEF Held
  <2> QED
    BY <2>1, <2>2, <2>4, Quiet
<1>2. CASE OpSetProperty(x, n) /\ variables[x].kind # "instance"
  BY <1>2, Errors DEF OpSetProperty
<1>3. CASE OpSetProperty(x, n) /\ variables[x].kind = "instance"
  <2>1. PICK i : i = variables[x].of
    OBVIOUS
  <2>2. /\ instances' = [instances EXCEPT ![i].fields[n] = value]
        /\ UNCHANGED <<methods, own, line, variables, value, frames>>
    BY <1>3, <2>1 DEF OpSetProperty
  <2>3. instances \in Seq(Objects) /\ i \in DOMAIN instances
    BY <1>3, <2>1 DEF IInv, Contents, Good, Exists
  <2>4. \A j \in DOMAIN instances : instances[j] \in Objects /\ instances[j].fields \in [Names -> Values]
    BY <2>3, Element, ObjectForms
  <2>5. /\ DOMAIN instances' = DOMAIN instances
        /\ instances'[i] = [instances[i] EXCEPT !.fields[n] = value]
        /\ \A j \in DOMAIN instances : j # i => instances'[j] = instances[j]
    BY <2>2, <2>3
  <2>6. /\ instances'[i].class = instances[i].class
        /\ instances'[i].fields = [instances[i].fields EXCEPT ![n] = value]
    BY <2>3, <2>4, <2>5 DEF Objects
  <2>7. Steady
    BY <2>2, <2>5, <2>6 DEF Steady
  <2>8. \A j \in DOMAIN instances, k \in Names :
           instances'[j].fields[k] \in {instances[j].fields[k], value}
    BY <2>3, <2>4, <2>5, <2>6
  <2>9. \A w \in Held' : w \in Held
    BY <2>2, <2>5, <2>8 DEF Held
  <2> QED
    BY <2>2, <2>7, <2>9, Quiet
<1> QED
  BY <1>1, <1>2, <1>3

LEMMA NextImplements == IInv /\ [Next]_vars => [Promise!Next]_(Promise!vars)
<1> SUFFICES ASSUME IInv, [Next]_vars PROVE [Promise!Next]_(Promise!vars)
  OBVIOUS
<1>1. ASSUME NEW x \in Variables, OpGetGlobal(x) PROVE Promise!Next
  <2>1. variables[x] \in Held
    BY DEF Held
  <2> QED
    BY <1>1, <2>1, Expressions DEF OpGetGlobal
<1>2. CASE GetThis
  <2>1. This \in Nat
    BY <1>2, Speaking DEF GetThis, This, IInv, Contents
  <2>2. Instance(This).kind = "instance"
    BY <2>1, NewValue, NoMethodIsClosure DEF Instance
  <2>3. Instance(This).kind # "bound"
    BY <2>2
  <2> QED
    BY <1>2, <2>3, Expressions DEF GetThis
<1>3. CASE OpCall
  BY <1>3, CallValueSends DEF OpCall, Held
<1>4. CASE EndClass
  <2>1. UNCHANGED Heap /\ value' = value /\ UNCHANGED <<own, line, frames>>
    BY <1>4 DEF EndClass, Heap
  <2>2. Steady /\ \A w \in Held' : w \in Held \/ w.kind # "bound"
    BY <2>1, HeapKeeps DEF Held
  <2> QED
    BY <2>1, <2>2, Quiet
<1>5. ASSUME NEW x \in Variables, NEW n \in FieldNames, OpSetProperty(x, n) PROVE Promise!Next
  BY <1>5, Assignments, ClassesAssumption
<1>6. ASSUME NEW x \in Variables, OpSetGlobal(x) PROVE Promise!Next
  BY <1>6, Assignments, ClassesAssumption
<1>7. CASE UNCHANGED vars
  BY <1>7 DEF vars, Promise!vars, Calls, Bound, Held, Message
<1> QED
  BY <1>1, <1>2, <1>3, <1>4, <1>5, <1>6, <1>7, OpClassDeclares, OpInheritExtends,
     OpMethodAdds, OpInvokeSends, OpSuperInvokeSends, OpGetSuperBinds, OpReturnReturns
     DEF Next

(* A message to super finds what the classes above have, or fails.            *)
THEOREM SuperNeverLooksBelow == Spec => SuperLooksAbove
<1>1. IInv /\ [Next]_vars =>
         [\A n \in Names : OpSuperInvoke(n) =>
             IF Promise!Provides(Promise!Above(Frame.method.home), n)
             THEN Promise!SendSuper(n) ELSE Promise!Stop]_vars
  BY OpSuperInvokeSends
<1> QED
  BY <1>1, Invariance, PTL DEF Spec, SuperLooksAbove

(* Classes implements Dispatch: tables filled by copying and captured          *)
(* variables answer every message as single inheritance promises.            *)
THEOREM ClassesImplementDispatch == Spec => ImplementsDispatch
<1>1. Init => Promise!Init
  <2> SUFFICES ASSUME Init PROVE Promise!Init
    OBVIOUS
  <2>1. Nil.kind = "nil"
    BY NewValue, NoMethodIsClosure DEF Nil
  <2>2. Nil.kind # "bound"
    BY <2>1
  <2>3. \A w \in Held : w = Nil
    BY DEF Init, Held
  <2>4. Bound = {}
    BY <2>2, <2>3 DEF Bound
  <2>5. Calls = <<>>
    BY DEF Init, Calls
  <2> QED
    BY <2>4, <2>5 DEF Init, Promise!Init
<1> QED
  BY <1>1, NextImplements, Invariance, PTL DEF Spec, ImplementsDispatch, Promise!Spec
=============================================================================
