---------------------------- MODULE InterpProofs ----------------------------
(***************************************************************************)
(* Interp for every set of classes, every arity and every size of stack:     *)
(* frames begin one above the other and below the top of the stack, so no    *)
(* instruction reaches the slot 0 of a call, and the slot 0 of a method is   *)
(* an instance that understands it; and Interp implements Calls.            *)
(***************************************************************************)
EXTENDS Interp, SequenceTheorems, TLAPS

Frames == [closure : Closures, slots : Nat \ {0}]

(* A call whose frame is fr has `this` in s, if it is a method's.           *)
KnowsThis(fr, s) ==
    fr.closure \in MethodClosures =>
        s[fr.slots].kind = "instance" /\ fr.closure \in Understands(s[fr.slots].class)

(* Each frame begins in the stack and above its caller's.                   *)
Stacked(fs, s) ==
    /\ \A i \in 1 .. Len(fs) : fs[i].slots <= Len(s) /\ KnowsThis(fs[i], s)
    /\ \A i, j \in 1 .. Len(fs) : i < j => fs[i].slots < fs[j].slots

InterpInv ==
    /\ TypeOK
    /\ mode = "running" => frames # <<>>
    /\ Stacked(frames, stack)

-----------------------------------------------------------------------------
(* Values.                                                                 *)

LEMMA Made ==
    /\ Number \in Values /\ String \in Values /\ Table \in Values /\ Native \in Values
    /\ Closure(Main) \in Values /\ Storable \subseteq Values
    /\ \A c \in Classes : Instance(c) \in Values
    /\ \A c \in Classes : \A f \in Understands(c) : BoundMethod(c, f) \in Values
  BY DEF Values, Storable

LEMMA Fields ==
    /\ \A c : Instance(c).kind = "instance" /\ Instance(c).class = c
    /\ String.kind = "string"
  BY DEF Instance, String

(* What a value of a kind has.                                             *)
LEMMA Kinds ==
    ASSUME NEW v \in Values
    PROVE  /\ v.kind = "class" => v.class \in Classes
           /\ v.kind = "instance" => v.class \in Classes
           /\ v.kind = "bound" => v.class \in Classes /\ v.method \in Understands(v.class)
           /\ v.kind = "closure" => v.closure \in Closures /\ v.closure \notin MethodClosures
<1>1. CASE v \in {Number, String, Table, Native}
  BY <1>1 DEF Number, String, Table, Native
<1>2. ASSUME NEW c \in Classes, v = Class(c) PROVE v.kind = "class" /\ v.class \in Classes
  BY <1>2 DEF Class
<1>3. ASSUME NEW c \in Classes, v = Instance(c) PROVE v.kind = "instance" /\ v.class \in Classes
  BY <1>3 DEF Instance
<1>4. ASSUME NEW f \in Closures \ MethodClosures, v = Closure(f)
      PROVE  v.kind = "closure" /\ v.closure \in Closures /\ v.closure \notin MethodClosures
  BY <1>4 DEF Closure
<1>5. ASSUME NEW c \in Classes, NEW f \in Understands(c), v = BoundMethod(c, f)
      PROVE  v.kind = "bound" /\ v.class \in Classes /\ v.method \in Understands(v.class)
  BY <1>5 DEF BoundMethod
<1>6. Main \in Closures \ MethodClosures
  BY InterpAssumption DEF MethodClosures
<1>7. \/ v \in {Number, String, Table, Native}
      \/ \E c \in Classes : v = Class(c)
      \/ \E c \in Classes : v = Instance(c)
      \/ \E f \in Closures \ MethodClosures : v = Closure(f)
      \/ \E c \in Classes : \E f \in Understands(c) : v = BoundMethod(c, f)
  BY <1>6 DEF Values, Storable
<1>8. QED BY <1>1, <1>2, <1>3, <1>4, <1>5, <1>7

(* The methods of a class, and those of its superclasses, are closures it     *)
(* understands.                                                            *)
LEMMA MethodsUnderstood ==
    ASSUME NEW c \in Classes, NEW a \in {c} \cup Ancestors[c], NEW n \in DOMAIN Methods[a]
    PROVE  /\ Methods[a][n] \in Closures
           /\ Methods[a][n] \in Understands(c)
<1>1. a \in Classes
  BY InterpAssumption
<1>2. Methods[a][n] \in Range(Methods[a])
  BY DEF Range
<1>3. Range(Methods[a]) \subseteq Closures
  BY <1>1, InterpAssumption
<1>4. QED BY <1>2, <1>3 DEF Understands

LEMMA UnderstoodAreClosures ==
    ASSUME NEW c \in Classes
    PROVE  Understands(c) \subseteq Closures
<1>1. ASSUME NEW a \in {c} \cup Ancestors[c] PROVE Range(Methods[a]) \subseteq Closures
  BY InterpAssumption
<1>2. QED BY <1>1 DEF Understands

-----------------------------------------------------------------------------
(* Frames.                                                                 *)

(* A frame that begins above all others, and in the stack.                  *)
LEMMA PushFrame ==
    ASSUME NEW fs \in Seq(Frames), NEW s \in Seq(Values), NEW fr \in Frames,
           Stacked(fs, s), KnowsThis(fr, s), fr.slots <= Len(s),
           \A i \in 1 .. Len(fs) : fs[i].slots < fr.slots
    PROVE  Append(fs, fr) \in Seq(Frames) /\ Stacked(Append(fs, fr), s)
<1> DEFINE new == Append(fs, fr)
<1>1. /\ new \in Seq(Frames) /\ Len(new) = Len(fs) + 1 /\ Len(fs) \in Nat
      /\ \A i \in 1 .. Len(fs) : new[i] = fs[i]
      /\ new[Len(fs) + 1] = fr
  OBVIOUS
<1> HIDE DEF new
<1>2. ASSUME NEW i \in 1 .. Len(new) PROVE new[i].slots <= Len(s) /\ KnowsThis(new[i], s)
  <2>1. CASE i = Len(fs) + 1
    BY <1>1, <2>1
  <2>2. CASE i \in 1 .. Len(fs)
    BY <1>1, <2>2 DEF Stacked
  <2>3. QED BY <1>1, <2>1, <2>2
<1>3. ASSUME NEW i \in 1 .. Len(new), NEW j \in 1 .. Len(new), i < j
      PROVE  new[i].slots < new[j].slots
  <2>1. i \in 1 .. Len(fs) /\ new[i] = fs[i]
    BY <1>1, <1>3
  <2>2. CASE j = Len(fs) + 1
    BY <1>1, <2>1, <2>2
  <2>3. CASE j \in 1 .. Len(fs)
    BY <1>1, <1>3, <2>1, <2>3 DEF Stacked
  <2>4. QED BY <1>1, <2>2, <2>3
<1>4. Stacked(new, s)
  BY <1>2, <1>3 DEF Stacked
<1>5. QED BY <1>1, <1>4 DEF new

(* Frames that are left begin where they did.                               *)
LEMMA FewerFrames ==
    ASSUME NEW fs \in Seq(Frames), NEW s, NEW n \in 0 .. Len(fs), Stacked(fs, s)
    PROVE  /\ ButLast(fs, n) \in Seq(Frames) /\ Len(ButLast(fs, n)) = Len(fs) - n
           /\ \A i \in 1 .. Len(fs) - n : ButLast(fs, n)[i] = fs[i]
           /\ Stacked(ButLast(fs, n), s)
<1> DEFINE left == SubSeq(fs, 1, Len(fs) - n)
<1>1. /\ left \in Seq(Frames) /\ Len(left) = Len(fs) - n /\ Len(fs) \in Nat
      /\ \A i \in 1 .. Len(fs) - n : left[i] = fs[i]
  OBVIOUS
<1> HIDE DEF left
<1>2. \A i \in 1 .. Len(left) : i \in 1 .. Len(fs) /\ left[i] = fs[i]
  BY <1>1
<1>3. Stacked(left, s)
  BY <1>2 DEF Stacked
<1>4. QED BY <1>1, <1>3 DEF ButLast, left

(* A stack that agrees up to a height holds the frames that begin below it.  *)
LEMMA SameStacked ==
    ASSUME NEW fs \in Seq(Frames), NEW s \in Seq(Values), NEW old, Stacked(fs, old),
           NEW h \in Nat, h <= Len(s),
           \A k \in 1 .. h : s[k] = old[k],
           \A i \in 1 .. Len(fs) : fs[i].slots <= h
    PROVE  Stacked(fs, s)
<1>1. ASSUME NEW i \in 1 .. Len(fs) PROVE fs[i].slots <= Len(s) /\ KnowsThis(fs[i], s)
  <2>1. fs[i] \in Frames
    OBVIOUS
  <2>2. fs[i].slots \in 1 .. h /\ Len(s) \in Nat
    BY <2>1 DEF Frames
  <2>3. s[fs[i].slots] = old[fs[i].slots] /\ fs[i].slots <= Len(s)
    BY <2>2
  <2>4. KnowsThis(fs[i], old)
    BY DEF Stacked
  <2>5. QED BY <2>3, <2>4 DEF KnowsThis
<1>2. QED BY <1>1 DEF Stacked

-----------------------------------------------------------------------------
(* What an instruction leaves alone: the stack up to the slot 0 of the call.  *)

Kept(s) ==
    /\ s \in Seq(Values)
    /\ Len(s) >= Slots
    /\ \A k \in 1 .. Slots : s[k] = stack[k]

LEMMA SlotsInStack ==
    ASSUME InterpInv, mode = "running"
    PROVE  /\ frames # <<>> /\ Len(frames) \in 1 .. FRAMES_MAX
           /\ stack \in Seq(Values)
           /\ Slots \in 1 .. Len(stack)
           /\ \A i \in 1 .. Len(frames) : frames[i] \in Frames /\ frames[i].slots <= Slots
<1>1. frames \in Seq(Frames) /\ frames # <<>> /\ Len(frames) <= FRAMES_MAX /\ stack \in Seq(Values)
  BY DEF InterpInv, TypeOK, Frames
<1>2. FRAMES_MAX \in Nat
  BY InterpAssumption
<1>3. Len(frames) \in 1 .. FRAMES_MAX
  BY <1>1, <1>2
<1>4. \A i \in 1 .. Len(frames) : frames[i] \in Frames
  BY <1>1
<1>5. \A i \in 1 .. Len(frames) : frames[i].slots \in Nat \ {0}
  BY <1>4 DEF Frames
<1>6. Slots = frames[Len(frames)].slots
  BY DEF Slots, Last
<1>7. Slots \in 1 .. Len(stack)
  BY <1>1, <1>3, <1>5, <1>6 DEF InterpInv, Stacked
<1>8. ASSUME NEW i \in 1 .. Len(frames) PROVE frames[i].slots <= Slots
  <2>1. CASE i = Len(frames)
    BY <2>1, <1>5, <1>6
  <2>2. CASE i < Len(frames)
    BY <2>2, <1>3, <1>5, <1>6 DEF InterpInv, Stacked
  <2>3. QED BY <1>3, <2>1, <2>2
<1>9. QED BY <1>1, <1>3, <1>4, <1>7, <1>8

LEMMA KeptStacked ==
    ASSUME InterpInv, mode = "running", NEW s, Kept(s)
    PROVE  Stacked(frames, s)
<1>1. frames \in Seq(Frames) /\ Stacked(frames, stack)
  BY DEF InterpInv, TypeOK, Frames
<1>2. Slots \in Nat /\ \A i \in 1 .. Len(frames) : frames[i].slots <= Slots
  BY SlotsInStack
<1>3. s \in Seq(Values) /\ Slots <= Len(s) /\ \A k \in 1 .. Slots : s[k] = stack[k]
  BY <1>2 DEF Kept
<1>4. QED BY <1>1, <1>2, <1>3, SameStacked

LEMMA KeptAppend ==
    ASSUME InterpInv, mode = "running", NEW s, Kept(s), NEW v \in Values
    PROVE  Kept(Append(s, v))
<1>1. Slots \in Nat
  BY SlotsInStack
<1>2. s \in Seq(Values) /\ Len(s) >= Slots
  BY DEF Kept
<1>3. /\ Append(s, v) \in Seq(Values) /\ Len(Append(s, v)) = Len(s) + 1
      /\ \A k \in 1 .. Len(s) : Append(s, v)[k] = s[k]
  BY <1>2
<1>4. QED BY <1>1, <1>2, <1>3 DEF Kept

LEMMA KeptPop ==
    ASSUME InterpInv, NEW n \in Nat, Holds(n)
    PROVE  /\ Kept(ButLast(stack, n))
           /\ Len(ButLast(stack, n)) = Len(stack) - n
           /\ \A k \in 1 .. Len(stack) - n : ButLast(stack, n)[k] = stack[k]
<1>1. Slots \in 1 .. Len(stack) /\ stack \in Seq(Values) /\ Len(stack) >= Slots + n
  BY SlotsInStack DEF Holds
<1>2. /\ SubSeq(stack, 1, Len(stack) - n) \in Seq(Values)
      /\ Len(SubSeq(stack, 1, Len(stack) - n)) = Len(stack) - n
      /\ \A k \in 1 .. Len(stack) - n : SubSeq(stack, 1, Len(stack) - n)[k] = stack[k]
  BY <1>1
<1>3. QED BY <1>1, <1>2 DEF Kept, ButLast

LEMMA KeptUpdate ==
    ASSUME InterpInv, mode = "running", NEW k \in Slots + 1 .. Len(stack), NEW v \in Values
    PROVE  /\ Kept([stack EXCEPT ![k] = v])
           /\ Len([stack EXCEPT ![k] = v]) = Len(stack)
           /\ [stack EXCEPT ![k] = v][k] = v
<1>1. Slots \in 1 .. Len(stack) /\ stack \in Seq(Values)
  BY SlotsInStack
<1>2. QED BY <1>1 DEF Kept

(* An operand is a value, and lies above the slot 0.                         *)
LEMMA Operand ==
    ASSUME InterpInv, NEW n \in Nat, Holds(n), NEW d \in 0 .. n - 1
    PROVE  /\ Peek(d) \in Values
           /\ Len(stack) - d \in Slots + 1 .. Len(stack)
<1>1. Slots \in 1 .. Len(stack) /\ stack \in Seq(Values) /\ Len(stack) >= Slots + n
  BY SlotsInStack DEF Holds
<1>2. Len(stack) - d \in 1 .. Len(stack) /\ Len(stack) - d \in Slots + 1 .. Len(stack)
  BY <1>1
<1>3. QED BY <1>1, <1>2 DEF Peek

-----------------------------------------------------------------------------
(* How instructions end.                                                   *)

LEMMA GoKeeps ==
    ASSUME InterpInv, mode = "running", NEW s, Kept(s), Go(s)
    PROVE  InterpInv'
<1>1. stack' = s /\ frames' = frames /\ mode' = mode /\ code' = code
  BY DEF Go
<1>2. Stacked(frames, s)
  BY KeptStacked
<1>3. s \in Seq(Values)
  BY DEF Kept
<1>4. Stacked(frames, stack)'
  BY <1>1, <1>2 DEF Stacked, KnowsThis
<1>5. TypeOK'
  BY <1>1, <1>3 DEF InterpInv, TypeOK
<1>6. QED BY <1>1, <1>4, <1>5 DEF InterpInv

(* A machine without frames is well formed.                                 *)
LEMMA IdleKeeps ==
    ASSUME InterpAssumption,
           stack' \in Seq(Values), frames' = <<>>, mode' = "idle", code' \in {"ok", "error"}
    PROVE  InterpInv'
<1>1. Len(frames') = 0 /\ frames' \in Seq(Frames) /\ 0 <= FRAMES_MAX
  BY InterpAssumption
<1>2. Stacked(frames, stack)'
  BY <1>1 DEF Stacked
<1>3. TypeOK'
  BY <1>1 DEF TypeOK, Frames
<1>4. QED BY <1>2, <1>3 DEF InterpInv

LEMMA ErrorKeeps ==
    ASSUME InterpInv, NEW s \in Seq(Values), RuntimeError(s)
    PROVE  InterpInv'
<1>1. /\ Append(s, String) # <<>>
      /\ Last(Append(s, String)) = String
  BY Made DEF Last
<1>2. stack' = <<>> /\ frames' = <<>> /\ mode' = "idle" /\ code' = "error"
  BY <1>1 DEF RuntimeError, Finish
<1>3. QED BY <1>2, IdleKeeps, InterpAssumption

(* The handler returns false with something left on the stack.               *)
LEMMA FinishKeeps ==
    ASSUME InterpInv, mode = "running", NEW s, Kept(s), Finish(s, frames)
    PROVE  InterpInv'
<1>1. s \in Seq(Values) /\ s # <<>>
  BY SlotsInStack DEF Kept
<1>2. mode' = "idle" /\ code' = "error"
  BY <1>1 DEF Finish
<1>3. CASE stack' = <<>> /\ frames' = <<>>
  BY <1>2, <1>3, IdleKeeps, InterpAssumption
<1>4. CASE stack' = s /\ frames' = frames
  <2>1. Stacked(frames, s)
    BY KeptStacked
  <2>2. Stacked(frames, stack)'
    BY <1>4, <2>1 DEF Stacked, KnowsThis
  <2>3. TypeOK'
    BY <1>1, <1>2, <1>4 DEF InterpInv, TypeOK
  <2>4. QED BY <1>2, <2>2, <2>3 DEF InterpInv
<1>5. QED BY <1>1, <1>3, <1>4 DEF Finish

(* A call puts its frame above the caller's slot 0.                          *)
LEMMA CallKeeps ==
    ASSUME InterpInv, mode = "running", NEW s, Kept(s), NEW f \in Closures, NEW n \in Nat,
           Len(s) - n > Slots,
           f \in MethodClosures =>
               s[Len(s) - n].kind = "instance" /\ f \in Understands(s[Len(s) - n].class),
           Call(s, f, n)
    PROVE  InterpInv'
<1>1. s \in Seq(Values)
  BY DEF Kept
<1>2. CASE RuntimeError(s)
  BY <1>1, <1>2, ErrorKeeps
<1>3. CASE /\ Len(frames) < FRAMES_MAX
           /\ stack' = s
           /\ frames' = Append(frames, [closure |-> f, slots |-> Len(s) - n])
           /\ UNCHANGED <<mode, code>>
  <2> DEFINE fr == [closure |-> f, slots |-> Len(s) - n]
  <2>1. Slots \in Nat \ {0} /\ Len(s) \in Nat /\ frames \in Seq(Frames)
    BY <1>1, SlotsInStack DEF InterpInv, TypeOK, Frames
  <2>2. fr \in Frames /\ fr.closure = f /\ fr.slots = Len(s) - n
    BY <2>1 DEF Frames
  <2>3. frames' = Append(frames, fr)
    BY <1>3
  <2> HIDE DEF fr
  <2>4. KnowsThis(fr, s) /\ fr.slots <= Len(s)
    BY <2>1, <2>2 DEF KnowsThis
  <2>5. ASSUME NEW i \in 1 .. Len(frames) PROVE frames[i].slots < fr.slots
    <3>1. frames[i].slots <= Slots /\ frames[i] \in Frames
      BY SlotsInStack
    <3>2. QED BY <2>1, <2>2, <3>1 DEF Frames
  <2>6. Append(frames, fr) \in Seq(Frames) /\ Stacked(Append(frames, fr), s)
    BY <1>1, <2>1, <2>2, <2>4, <2>5, KeptStacked, PushFrame
  <2>7. Stacked(frames, stack)'
    BY <1>3, <2>3, <2>6 DEF Stacked, KnowsThis
  <2>8. Len(frames') <= FRAMES_MAX /\ frames' # <<>>
    <3>1. Len(frames') = Len(frames) + 1 /\ Len(frames) \in Nat
      BY <2>1, <2>2, <2>3
    <3>2. frames' # <<>>
      BY <2>1, <2>2, <2>3
    <3>3. FRAMES_MAX \in Nat /\ Len(frames) < FRAMES_MAX
      BY <1>3, InterpAssumption
    <3>4. QED BY <3>1, <3>2, <3>3
  <2>9. TypeOK'
    BY <1>1, <1>3, <2>3, <2>6, <2>8 DEF InterpInv, TypeOK, Frames
  <2>10. QED BY <2>7, <2>8, <2>9 DEF InterpInv
<1>4. QED BY <1>2, <1>3 DEF Call

-----------------------------------------------------------------------------
(* Calls.                                                                  *)

(* The receiver takes the place of the called value.                        *)
LEMMA Received ==
    ASSUME InterpInv, NEW n \in Nat, Holds(n + 1), NEW v \in Values
    PROVE  /\ Kept(WithReceiver(v, n))
           /\ Len(WithReceiver(v, n)) = Len(stack)
           /\ WithReceiver(v, n)[Len(stack) - n] = v
           /\ Len(stack) - n > Slots
<1>1. mode = "running"
  BY DEF Holds
<1>2. n + 1 \in Nat /\ n \in 0 .. (n + 1) - 1
  OBVIOUS
<1>3. Len(stack) - n \in Slots + 1 .. Len(stack)
  BY <1>2, Operand
<1>4. Len(stack) - n > Slots
  BY <1>1, <1>3, SlotsInStack
<1>5. QED BY <1>1, <1>3, <1>4, KeptUpdate DEF WithReceiver

(* What a call needs of the value at the bottom of its operands.             *)
LEMMA CallValueKeeps ==
    ASSUME InterpInv, NEW n \in Nat, Holds(n + 1),
           NEW s, Kept(s), Len(s) = Len(stack),
           NEW callee \in Values, CallValue(s, callee, n)
    PROVE  InterpInv'
<1>1. mode = "running" /\ Len(stack) - n > Slots
  BY Received, Made DEF Holds
<1>2. CASE CallBound(callee, n)
  <2>1. callee.class \in Classes /\ callee.method \in Understands(callee.class)
    BY <1>2, Kinds DEF CallBound
  <2> DEFINE r == WithReceiver(Instance(callee.class), n)
  <2>2. Instance(callee.class) \in Values
    BY <2>1, Made
  <2>3. /\ Kept(r) /\ Len(r) = Len(stack)
        /\ r[Len(stack) - n] = Instance(callee.class)
    BY <2>2, Received
  <2>4. callee.method \in Closures
    BY <2>1, UnderstoodAreClosures
  <2>5. Call(r, callee.method, n)
    BY <1>2 DEF CallBound
  <2> HIDE DEF r
  <2>6. r[Len(r) - n].kind = "instance" /\ r[Len(r) - n].class = callee.class
    BY <2>3, Fields
  <2>7. QED BY <1>1, <2>1, <2>3, <2>4, <2>5, <2>6, CallKeeps
<1>3. CASE CallClass(callee, n)
  <2> DEFINE c == callee.class
             r == WithReceiver(Instance(c), n)
  <2>1. c \in Classes
    BY <1>3, Kinds DEF CallClass
  <2>2. Instance(c) \in Values
    BY <2>1, Made
  <2>3. Kept(r) /\ Len(r) = Len(stack) /\ r[Len(stack) - n] = Instance(c)
    BY <2>2, Received
  <2>4. \/ InitName \in DOMAIN Methods[c] /\ Call(r, Methods[c][InitName], n)
        \/ Go(r) \/ RuntimeError(r)
    BY <1>3 DEF CallClass
  <2> HIDE DEF r
  <2>5. CASE InitName \in DOMAIN Methods[c] /\ Call(r, Methods[c][InitName], n)
    <3>1. Methods[c][InitName] \in Closures /\ Methods[c][InitName] \in Understands(c)
      BY <2>1, <2>5, MethodsUnderstood
    <3>2. r[Len(r) - n].kind = "instance" /\ r[Len(r) - n].class = c
      BY <2>3, Fields
    <3>3. QED BY <1>1, <2>3, <2>5, <3>1, <3>2, CallKeeps
  <2>6. CASE Go(r)
    BY <1>1, <2>3, <2>6, GoKeeps
  <2>7. CASE RuntimeError(r)
    BY <2>3, <2>7, ErrorKeeps DEF Kept
  <2>8. QED BY <2>4, <2>5, <2>6, <2>7
<1>4. CASE CallNative(callee, n)
  <2>1. PICK result \in {Number, Table} : Go(Append(ButLast(stack, n + 1), result))
    BY <1>4 DEF CallNative
  <2>2. n + 1 \in Nat /\ result \in Values
    BY Made
  <2>3. Kept(Append(ButLast(stack, n + 1), result))
    BY <1>1, <2>2, KeptPop, KeptAppend
  <2>4. QED BY <1>1, <2>1, <2>3, GoKeeps
<1>5. CASE callee.kind = "closure" /\ Call(s, callee.closure, n)
  <2>1. callee.closure \in Closures /\ callee.closure \notin MethodClosures
    BY <1>5, Kinds
  <2>2. Len(s) - n > Slots
    BY <1>1
  <2>3. QED BY <1>1, <1>5, <2>1, <2>2, CallKeeps
<1>6. CASE RuntimeError(s)
  BY <1>6, ErrorKeeps DEF Kept
<1>7. QED BY <1>2, <1>3, <1>4, <1>5, <1>6 DEF CallValue

(* The stack is kept by an instruction that leaves it as it is.              *)
LEMMA KeptStack ==
    ASSUME InterpInv, mode = "running"
    PROVE  Kept(stack)
<1>1. Slots \in 1 .. Len(stack) /\ stack \in Seq(Values)
  BY SlotsInStack
<1>2. QED BY <1>1 DEF Kept

(* A method found in a class is invoked on an instance that understands it.   *)
LEMMA InvokeKeeps ==
    ASSUME InterpInv, mode = "running", NEW s, Kept(s), NEW n \in Nat, Len(s) - n > Slots,
           NEW c \in Classes, NEW a \in {c} \cup Ancestors[c], NEW name,
           s[Len(s) - n].kind = "instance", s[Len(s) - n].class = c,
           InvokeFromClass(s, a, name, n)
    PROVE  InterpInv'
<1>1. CASE name \in DOMAIN Methods[a] /\ Call(s, Methods[a][name], n)
  <2>1. Methods[a][name] \in Closures /\ Methods[a][name] \in Understands(c)
    BY <1>1, MethodsUnderstood
  <2>2. QED BY <1>1, <2>1, CallKeeps
<1>2. CASE RuntimeError(s)
  BY <1>2, ErrorKeeps DEF Kept
<1>3. QED BY <1>1, <1>2 DEF InvokeFromClass

LEMMA OpCallKeeps ==
    ASSUME InterpInv, NEW n \in Nat, OpCall(n)
    PROVE  InterpInv'
<1>1. Holds(n + 1) /\ CallValue(stack, Peek(n), n) /\ mode = "running"
  BY DEF OpCall, Holds
<1>2. n + 1 \in Nat /\ n \in 0 .. (n + 1) - 1
  OBVIOUS
<1>3. Peek(n) \in Values
  BY <1>1, <1>2, Operand
<1>4. QED BY <1>1, <1>3, KeptStack, CallValueKeeps

LEMMA OpInvokeKeeps ==
    ASSUME InterpInv, NEW n \in Nat, NEW name, OpInvoke(name, n)
    PROVE  InterpInv'
<1> DEFINE receiver == Peek(n)
<1>1. Holds(n + 1) /\ mode = "running"
  BY DEF OpInvoke, Holds
<1>2. n + 1 \in Nat /\ n \in 0 .. (n + 1) - 1
  OBVIOUS
<1>3. /\ receiver \in Values /\ stack[Len(stack) - n] = receiver
      /\ Len(stack) - n > Slots
  BY <1>1, <1>2, Operand, Received DEF Peek
<1>4. \/ RuntimeError(stack)
      \/ /\ receiver.kind = "instance"
         /\ \/ \E v \in Storable : CallValue(WithReceiver(v, n), v, n)
            \/ InvokeFromClass(stack, receiver.class, name, n)
  BY DEF OpInvoke
<1> HIDE DEF receiver
<1>5. CASE RuntimeError(stack)
  BY <1>1, <1>5, KeptStack, ErrorKeeps DEF Kept
<1>6. ASSUME NEW v \in Storable, CallValue(WithReceiver(v, n), v, n) PROVE InterpInv'
  <2>1. v \in Values
    BY Made
  <2>2. Kept(WithReceiver(v, n)) /\ Len(WithReceiver(v, n)) = Len(stack)
    BY <1>1, <2>1, Received
  <2>3. QED BY <1>1, <1>6, <2>1, <2>2, CallValueKeeps
<1>7. CASE receiver.kind = "instance" /\ InvokeFromClass(stack, receiver.class, name, n)
  <2>1. receiver.class \in Classes
    BY <1>3, <1>7, Kinds
  <2>2. receiver.class \in {receiver.class} \cup Ancestors[receiver.class]
    OBVIOUS
  <2>3. QED BY <1>1, <1>3, <1>7, <2>1, <2>2, KeptStack, InvokeKeeps
<1>8. QED BY <1>4, <1>5, <1>6, <1>7

LEMMA OpSuperInvokeKeeps ==
    ASSUME InterpInv, NEW n \in Nat, NEW name, OpSuperInvoke(name, n)
    PROVE  InterpInv'
<1> DEFINE s == ButLast(stack, 1)
           this == Peek(n + 1)
           a == Peek(0).class
<1>1. /\ Holds(n + 2) /\ mode = "running" /\ InvokeFromClass(s, a, name, n)
      /\ this.kind = "instance" /\ a \in Ancestors[this.class]
  BY DEF OpSuperInvoke, SuperOperands, Holds
<1>2. /\ Slots \in 1 .. Len(stack) /\ stack \in Seq(Values)
      /\ Len(stack) >= Slots + (n + 2)
  BY <1>1, SlotsInStack DEF Holds
<1>3. 1 \in Nat /\ Holds(1)
  BY <1>1, <1>2 DEF Holds
<1>4. /\ Kept(s) /\ Len(s) = Len(stack) - 1
      /\ \A k \in 1 .. Len(stack) - 1 : s[k] = stack[k]
  BY <1>3, KeptPop
<1>5. Len(s) - n = Len(stack) - (n + 1) /\ Len(s) - n \in 1 .. Len(stack) - 1 /\ Len(s) - n > Slots
  BY <1>2, <1>4
<1>6. s[Len(s) - n] = this
  BY <1>4, <1>5 DEF Peek
<1>7. n + 2 \in Nat /\ n + 1 \in 0 .. (n + 2) - 1
  OBVIOUS
<1>8. this \in Values
  BY <1>1, <1>7, Operand
<1> HIDE DEF s, this, a
<1>9. this.class \in Classes
  BY <1>1, <1>8, Kinds
<1>10. a \in {this.class} \cup Ancestors[this.class]
  BY <1>1
<1>11. QED BY <1>1, <1>4, <1>5, <1>6, <1>9, <1>10, InvokeKeeps

(* The caller gets its operands back, and the value above them.               *)
LEMMA OpReturnKeeps ==
    ASSUME InterpInv, OpReturn
    PROVE  InterpInv'
<1> DEFINE callers == ButLast(frames, 1)
           rest == ButLast(ButLast(stack, 1), 1)
           s == Append(SubSeq(stack, 1, Slots - 1), Peek(0))
<1>1. Holds(1) /\ mode = "running"
  BY DEF OpReturn, Holds
<1>2. /\ Slots \in 1 .. Len(stack) /\ stack \in Seq(Values) /\ Len(stack) >= Slots + 1
      /\ Len(frames) \in 1 .. FRAMES_MAX /\ frames \in Seq(Frames)
      /\ Slots = frames[Len(frames)].slots
  BY <1>1, SlotsInStack DEF Holds, InterpInv, TypeOK, Frames, Slots, Last
<1>3. 1 \in Nat /\ 0 \in 0 .. 1 - 1
  OBVIOUS
<1>4. Peek(0) \in Values
  BY <1>1, <1>3, Operand
<1>5. CASE callers = <<>> /\ Finish(rest, callers)
  <2>1. rest \in Seq(Values)
    BY <1>2 DEF ButLast
  <2>2. /\ mode' = "idle" /\ frames' = <<>> /\ code' \in {"ok", "error"}
        /\ stack' \in {<<>>, rest}
    BY <1>5 DEF Finish
  <2>3. <<>> \in Seq(Values)
    OBVIOUS
  <2> HIDE DEF rest
  <2>4. stack' \in Seq(Values)
    BY <2>1, <2>2, <2>3
  <2>5. QED BY <2>2, <2>4, IdleKeeps, InterpAssumption
<1>6. CASE callers # <<>> /\ stack' = s /\ frames' = callers /\ UNCHANGED <<mode, code>>
  <2>1. 1 \in 0 .. Len(frames) /\ Stacked(frames, stack)
    BY <1>2 DEF InterpInv
  <2>2. /\ callers \in Seq(Frames) /\ Len(callers) = Len(frames) - 1
        /\ \A i \in 1 .. Len(frames) - 1 : callers[i] = frames[i]
        /\ Stacked(callers, stack)
    BY <1>2, <2>1, FewerFrames
  <2>3. /\ s \in Seq(Values) /\ Len(s) = Slots
        /\ \A k \in 1 .. Slots - 1 : s[k] = stack[k]
    BY <1>2, <1>4
  <2>4. ASSUME NEW i \in 1 .. Len(callers) PROVE callers[i].slots <= Slots - 1
    <3>1. i \in 1 .. Len(frames) /\ Len(frames) \in 1 .. Len(frames) /\ i < Len(frames)
      BY <1>2, <2>2
    <3>2. frames[i].slots < Slots
      BY <1>2, <2>1, <3>1 DEF Stacked
    <3>3. callers[i] = frames[i] /\ frames[i] \in Frames
      BY <1>2, <2>2, <3>1
    <3>4. frames[i].slots \in Nat
      BY <3>3 DEF Frames
    <3>5. Slots \in Nat
      BY <1>2
    <3>6. QED BY <3>2, <3>3, <3>4, <3>5
  <2>5. Slots - 1 \in Nat /\ Slots - 1 <= Len(s)
    BY <1>2, <2>3
  <2> HIDE DEF s, callers
  <2>6. Stacked(callers, s)
    BY <2>2, <2>3, <2>4, <2>5, SameStacked
  <2>7. Stacked(frames, stack)'
    BY <1>6, <2>6 DEF Stacked, KnowsThis
  <2>8. Len(callers) <= FRAMES_MAX
    BY <1>2, <2>2, InterpAssumption
  <2>9. TypeOK'
    BY <1>6, <2>2, <2>3, <2>8 DEF InterpInv, TypeOK, Frames
  <2>10. QED BY <1>6, <2>7, <2>9 DEF InterpInv
<1>7. QED BY <1>5, <1>6 DEF OpReturn

LEMMA CallStepKeeps ==
    ASSUME InterpInv, CallStep
    PROVE  InterpInv'
<1>1. \A n \in 0 .. ArgBound : n \in Nat
  BY InterpAssumption
<1>2. QED
  BY <1>1, OpCallKeeps, OpInvokeKeeps, OpSuperInvokeKeeps, OpReturnKeeps DEF CallStep

-----------------------------------------------------------------------------
(* Operands and properties.                                                *)

(* An instruction that takes n operands may put a value in their place.       *)
LEMMA Replaces ==
    ASSUME InterpInv, NEW n \in Nat, Holds(n), NEW v \in Values,
           Go(Append(ButLast(stack, n), v))
    PROVE  InterpInv'
<1>1. mode = "running"
  BY DEF Holds
<1>2. Kept(Append(ButLast(stack, n), v))
  BY <1>1, KeptPop, KeptAppend
<1>3. QED BY <1>1, <1>2, GoKeeps

(* Or fail.                                                                *)
LEMMA Fails ==
    ASSUME InterpInv, NEW n \in Nat, Holds(n), RuntimeError(stack)
    PROVE  InterpInv'
<1>1. stack \in Seq(Values)
  BY DEF InterpInv, TypeOK
<1>2. QED BY <1>1, ErrorKeeps

(* A stack that holds n operands holds any fewer.                            *)
LEMMA HoldsFewer ==
    ASSUME InterpInv, NEW n \in Nat, Holds(n), NEW m \in 0 .. n
    PROVE  m \in Nat /\ Holds(m)
<1>1. Slots \in Nat /\ Len(stack) \in Nat
  BY SlotsInStack DEF Holds
<1>2. QED BY <1>1 DEF Holds

LEMMA OperandStepKeeps ==
    ASSUME InterpInv, OperandStep
    PROVE  InterpInv'
<1>1. /\ 0 \in Nat /\ 1 \in Nat /\ 2 \in Nat /\ 3 \in Nat
      /\ Number \in Values /\ String \in Values /\ Storable \subseteq Values
  BY Made
<1>2. ASSUME NEW v \in Storable, OpPush(v) PROVE InterpInv'
  <2>1. mode = "running" /\ v \in Values /\ Go(Append(stack, v))
    BY <1>1, <1>2 DEF OpPush, Holds
  <2>2. Kept(Append(stack, v))
    BY <2>1, KeptStack, KeptAppend
  <2>3. QED BY <2>1, <2>2, GoKeeps
<1>3. ASSUME NEW slot \in 1 .. Len(stack), OpGetLocal(slot) PROVE InterpInv'
  <2>1. mode = "running" /\ Go(Append(stack, stack[slot]))
    BY <1>3 DEF OpGetLocal, Holds
  <2>2. stack[slot] \in Values
    BY DEF InterpInv, TypeOK
  <2>3. Kept(Append(stack, stack[slot]))
    BY <2>1, <2>2, KeptStack, KeptAppend
  <2>4. QED BY <2>1, <2>3, GoKeeps
<1>4. ASSUME NEW slot \in 1 .. Len(stack), OpSetLocal(slot) PROVE InterpInv'
  <2>1. /\ Holds(1) /\ mode = "running" /\ slot \in Slots + 1 .. Len(stack)
        /\ Go([stack EXCEPT ![slot] = Peek(0)])
    BY <1>4 DEF OpSetLocal, Holds
  <2>2. Peek(0) \in Values
    BY <2>1, <1>1, Operand
  <2>3. Kept([stack EXCEPT ![slot] = Peek(0)])
    BY <2>1, <2>2, KeptUpdate
  <2>4. QED BY <2>1, <2>3, GoKeeps
<1>5. ASSUME OpPop PROVE InterpInv'
  BY <1>1, <1>5, KeptPop, GoKeeps DEF OpPop, Holds
<1>6. ASSUME UndefinedVariable PROVE InterpInv'
  BY <1>1, <1>6, Fails DEF UndefinedVariable
<1>7. ASSUME OpEqual PROVE InterpInv'
  BY <1>1, <1>7, Replaces DEF OpEqual
<1>8. ASSUME BinaryOp PROVE InterpInv'
  BY <1>1, <1>8, Replaces, Fails DEF BinaryOp
<1>9. ASSUME OpAdd PROVE InterpInv'
  BY <1>1, <1>9, Replaces, Fails DEF OpAdd
<1>10. ASSUME OpNot PROVE InterpInv'
  BY <1>1, <1>10, Replaces DEF OpNot
<1>11. ASSUME OpNegate PROVE InterpInv'
  <2>1. Holds(1) /\ mode = "running" /\ (Go(stack) \/ RuntimeError(stack))
    BY <1>11 DEF OpNegate, Holds
  <2>2. QED BY <1>1, <2>1, KeptStack, GoKeeps, Fails
<1>12. ASSUME OpTableGet PROVE InterpInv'
  <2>1. Holds(2) /\ mode = "running"
    BY <1>12 DEF OpTableGet, Holds
  <2>2. \/ RuntimeError(stack)
        \/ \E v \in Storable : Go(Append(ButLast(stack, 2), v))
        \/ RuntimeError(Append(ButLast(stack, 2), Number))
    BY <1>12 DEF OpTableGet
  <2>3. Append(ButLast(stack, 2), Number) \in Seq(Values)
    BY <1>1, <2>1, KeptPop, KeptAppend DEF Kept
  <2>4. QED BY <1>1, <2>1, <2>2, <2>3, Fails, Replaces, ErrorKeeps
<1>13. ASSUME OpTableSet PROVE InterpInv'
  <2>1. Holds(3)
    BY <1>13 DEF OpTableSet
  <2>2. Peek(0) \in Values
    BY <1>1, <2>1, Operand
  <2>3. QED BY <1>1, <1>13, <2>1, <2>2, Replaces, Fails DEF OpTableSet
<1>14. QED
  BY <1>2, <1>3, <1>4, <1>5, <1>6, <1>7, <1>8, <1>9, <1>10, <1>11, <1>12, <1>13
     DEF OperandStep

(* A bound method holds an instance and a method it understands.             *)
LEMMA BoundIsValue ==
    ASSUME NEW c \in Classes, NEW a \in {c} \cup Ancestors[c], NEW name \in DOMAIN Methods[a]
    PROVE  BoundMethod(c, Methods[a][name]) \in Values
  BY MethodsUnderstood, Made

LEMMA OpGetPropertyKeeps ==
    ASSUME InterpInv, NEW name, OpGetProperty(name)
    PROVE  InterpInv'
<1> DEFINE this == Peek(0)
<1>1. 1 \in Nat /\ Holds(1) /\ mode = "running" /\ 0 \in 0 .. 1 - 1
  BY DEF OpGetProperty, Holds
<1>2. \/ RuntimeError(stack)
      \/ \E v \in Storable : Go(Append(ButLast(stack, 1), v))
      \/ /\ this.kind = "instance" /\ name \in DOMAIN Methods[this.class]
         /\ Finish(Bound(stack, this.class, name), frames)
  BY DEF OpGetProperty
<1>3. this \in Values
  BY <1>1, Operand
<1>4. Bound(stack, this.class, name) =
          Append(ButLast(stack, 1), BoundMethod(this.class, Methods[this.class][name]))
  <2>1. Last(stack) = this
    <3>1. Len(stack) \in Nat
      BY DEF InterpInv, TypeOK
    <3>2. QED BY <3>1 DEF Last, Peek
  <2>2. QED BY <2>1 DEF Bound
<1> HIDE DEF this
<1>5. CASE RuntimeError(stack)
  BY <1>1, <1>5, Fails
<1>6. ASSUME NEW v \in Storable, Go(Append(ButLast(stack, 1), v)) PROVE InterpInv'
  BY <1>1, <1>6, Made, Replaces
<1>7. CASE /\ this.kind = "instance" /\ name \in DOMAIN Methods[this.class]
           /\ Finish(Bound(stack, this.class, name), frames)
  <2>1. this.class \in Classes
    BY <1>3, <1>7, Kinds
  <2>2. BoundMethod(this.class, Methods[this.class][name]) \in Values
    BY <1>7, <2>1, BoundIsValue
  <2>3. Kept(Bound(stack, this.class, name))
    BY <1>1, <1>4, <2>2, KeptPop, KeptAppend
  <2>4. QED BY <1>1, <1>7, <2>3, FinishKeeps
<1>8. QED BY <1>2, <1>5, <1>6, <1>7

(* A method of the superclass, bound to `this`, takes the place of both.     *)
LEMMA BindsSuper ==
    ASSUME InterpInv, NEW name, OpGetSuper(name)
    PROVE  \/ /\ ButLast(stack, 1) \in Seq(Values) /\ RuntimeError(ButLast(stack, 1))
           \/ /\ Holds(2)
              /\ \E v \in Values : Go(Append(ButLast(stack, 2), v))
<1> DEFINE s == ButLast(stack, 1)
           this == Peek(1)
           a == Peek(0).class
<1>1. /\ Holds(2) /\ mode = "running"
      /\ this.kind = "instance" /\ a \in Ancestors[this.class]
  BY DEF OpGetSuper, SuperOperands, Holds
<1>2. \/ name \in DOMAIN Methods[a] /\ Go(Bound(s, a, name))
      \/ RuntimeError(s)
  BY DEF OpGetSuper
<1>3. 2 \in Nat /\ 1 \in Nat /\ 1 \in 0 .. 2 /\ 1 \in 0 .. 2 - 1
  OBVIOUS
<1>4. Holds(1) /\ this \in Values
  BY <1>1, <1>3, HoldsFewer, Operand
<1>5. /\ Kept(s) /\ s \in Seq(Values) /\ Len(s) = Len(stack) - 1
      /\ \A k \in 1 .. Len(stack) - 1 : s[k] = stack[k]
  BY <1>3, <1>4, KeptPop DEF Kept
<1>6. Slots \in 1 .. Len(stack) /\ Len(stack) \in Nat /\ Len(stack) >= Slots + 2
  BY <1>1, SlotsInStack DEF Holds
<1>7. Last(s) = this
  BY <1>5, <1>6 DEF Last, Peek
<1>8. ButLast(s, 1) = ButLast(stack, 2)
  <2>1. stack \in Seq(Values)
    BY DEF InterpInv, TypeOK
  <2>2. \A k \in 1 .. Len(stack) - 2 : SubSeq(s, 1, Len(s) - 1)[k] = stack[k]
    BY <1>5, <1>6
  <2>3. \A k \in 1 .. Len(stack) - 2 : SubSeq(stack, 1, Len(stack) - 2)[k] = stack[k]
    BY <1>6, <2>1
  <2>4. /\ Len(SubSeq(s, 1, Len(s) - 1)) = Len(stack) - 2
        /\ Len(SubSeq(stack, 1, Len(stack) - 2)) = Len(stack) - 2
    BY <1>5, <1>6, <2>1
  <2>5. SubSeq(s, 1, Len(s) - 1) \in Seq(Values) /\ SubSeq(stack, 1, Len(stack) - 2) \in Seq(Values)
    BY <1>5, <1>6, <2>1
  <2> HIDE DEF s
  <2> DEFINE x == SubSeq(s, 1, Len(s) - 1)
             y == SubSeq(stack, 1, Len(stack) - 2)
  <2>6. Len(x) = Len(y) /\ \A k \in 1 .. Len(x) : x[k] = y[k]
    BY <2>2, <2>3, <2>4
  <2> HIDE DEF x, y
  <2>7. x = y
    BY <2>5, <2>6, SeqEqual DEF x, y
  <2>8. QED BY <2>7 DEF ButLast, x, y
<1>9. Bound(s, a, name) =
          Append(ButLast(stack, 2), BoundMethod(this.class, Methods[a][name]))
  BY <1>7, <1>8 DEF Bound
<1> HIDE DEF s, this, a
<1>10. ASSUME name \in DOMAIN Methods[a]
       PROVE  BoundMethod(this.class, Methods[a][name]) \in Values
  <2>1. this.class \in Classes /\ a \in {this.class} \cup Ancestors[this.class]
    BY <1>1, <1>4, Kinds
  <2>2. QED BY <1>10, <2>1, BoundIsValue
<1>11. CASE name \in DOMAIN Methods[a] /\ Go(Bound(s, a, name))
  BY <1>1, <1>9, <1>10, <1>11
<1>12. CASE RuntimeError(s)
  BY <1>5, <1>12 DEF s
<1>13. QED BY <1>2, <1>11, <1>12

LEMMA OpGetSuperKeeps ==
    ASSUME InterpInv, NEW name, OpGetSuper(name)
    PROVE  InterpInv'
<1>1. 2 \in Nat
  OBVIOUS
<1>2. QED BY <1>1, BindsSuper, ErrorKeeps, Replaces

LEMMA OpSetPropertyKeeps ==
    ASSUME InterpInv, OpSetProperty
    PROVE  InterpInv'
<1>1. 2 \in Nat /\ 0 \in 0 .. 2 - 1 /\ Holds(2)
  BY DEF OpSetProperty
<1>2. Peek(0) \in Values
  BY <1>1, Operand
<1>3. QED BY <1>1, <1>2, Replaces, Fails DEF OpSetProperty

LEMMA PropertyStepKeeps ==
    ASSUME InterpInv, PropertyStep
    PROVE  InterpInv'
  BY OpGetPropertyKeeps, OpGetSuperKeeps, OpSetPropertyKeeps DEF PropertyStep

-----------------------------------------------------------------------------
(* Lines.                                                                  *)

(* A script runs above what the line before it may have left.                *)
LEMMA InterpretKeeps ==
    ASSUME InterpInv, Interpret
    PROVE  InterpInv'
<1> DEFINE s == Append(stack, Closure(Main))
           fr == [closure |-> Main, slots |-> Len(s)]
<1>1. /\ stack \in Seq(Values) /\ frames \in Seq(Frames) /\ Stacked(frames, stack)
      /\ Len(frames) <= FRAMES_MAX /\ code \in {"ok", "error"}
  BY DEF InterpInv, TypeOK, Frames
<1>2. /\ s \in Seq(Values) /\ Len(s) = Len(stack) + 1 /\ Len(stack) \in Nat
      /\ \A k \in 1 .. Len(stack) : s[k] = stack[k]
  BY <1>1, Made
<1>3. \A i \in 1 .. Len(frames) : frames[i].slots <= Len(stack) /\ frames[i].slots \in Nat
  <2>1. \A i \in 1 .. Len(frames) : frames[i] \in Frames
    BY <1>1
  <2>2. QED BY <1>1, <2>1 DEF Stacked, Frames
<1>4. mode' = "running" /\ code' = code
  BY DEF Interpret
<1>5. \/ Len(frames) < FRAMES_MAX /\ stack' = s /\ frames' = Append(frames, fr)
      \/ Len(frames) = FRAMES_MAX /\ stack' = Append(s, String) /\ frames' = frames
  BY DEF Interpret
<1>6. fr \in Frames /\ fr.closure = Main /\ fr.slots = Len(s)
  BY <1>2, InterpAssumption DEF Frames
<1> HIDE DEF s, fr
<1>7. CASE Len(frames) < FRAMES_MAX /\ stack' = s /\ frames' = Append(frames, fr)
  <2>1. Stacked(frames, s)
    <3>1. Len(stack) <= Len(s)
      BY <1>2
    <3>2. QED BY <1>1, <1>2, <1>3, <3>1, SameStacked
  <2>2. KnowsThis(fr, s)
    BY <1>6, InterpAssumption DEF KnowsThis, MethodClosures
  <2>3. fr.slots <= Len(s) /\ \A i \in 1 .. Len(frames) : frames[i].slots < fr.slots
    BY <1>2, <1>3, <1>6
  <2>4. Append(frames, fr) \in Seq(Frames) /\ Stacked(Append(frames, fr), s)
    BY <1>1, <1>2, <1>6, <2>1, <2>2, <2>3, PushFrame
  <2>5. Stacked(frames, stack)'
    BY <1>7, <2>4 DEF Stacked, KnowsThis
  <2>6. Len(frames') <= FRAMES_MAX /\ frames' # <<>>
    BY <1>1, <1>6, <1>7, InterpAssumption
  <2>7. TypeOK'
    BY <1>1, <1>2, <1>4, <1>7, <2>4, <2>6 DEF TypeOK, Frames
  <2>8. QED BY <2>5, <2>6, <2>7 DEF InterpInv
<1>8. CASE Len(frames) = FRAMES_MAX /\ stack' = Append(s, String) /\ frames' = frames
  <2>1. /\ stack' \in Seq(Values) /\ Len(stack) <= Len(stack')
        /\ \A k \in 1 .. Len(stack) : stack'[k] = stack[k]
    BY <1>2, <1>8, Made
  <2>2. Stacked(frames, stack')
    BY <1>1, <1>2, <1>3, <2>1, SameStacked
  <2>3. Stacked(frames, stack)'
    BY <1>8, <2>2 DEF Stacked, KnowsThis
  <2>4. frames' # <<>>
    BY <1>1, <1>8, InterpAssumption
  <2>5. TypeOK'
    BY <1>1, <1>4, <1>8, <2>1 DEF TypeOK, Frames
  <2>6. QED BY <2>3, <2>4, <2>5 DEF InterpInv
<1>9. QED BY <1>5, <1>7, <1>8

LEMMA StepKeeps ==
    ASSUME InterpInv, [Next]_vars
    PROVE  InterpInv'
<1>1. CASE CompileError
  <2>1. code' = "error" /\ stack' = stack /\ frames' = frames /\ mode' = mode
    BY <1>1 DEF CompileError
  <2>2. QED BY <2>1 DEF InterpInv, TypeOK, Stacked, KnowsThis
<1>2. CASE UNCHANGED vars
  BY <1>2 DEF vars, InterpInv, TypeOK, Stacked, KnowsThis
<1>3. QED
  BY <1>1, <1>2, CallStepKeeps, OperandStepKeeps, PropertyStepKeeps, InterpretKeeps DEF Next

(* The invariant: besides the types, a running machine has a frame, each       *)
(* frame begins in the stack and above its caller's, and the slot 0 of every  *)
(* method is its instance.                                                  *)
THEOREM CallsAreStacked ==
    Spec => []InterpInv
<1>1. ASSUME Init PROVE InterpInv
  <2>1. /\ stack = <<>> /\ frames = <<>> /\ mode = "idle" /\ code = "ok"
    BY <1>1 DEF Init
  <2>2. Len(frames) = 0 /\ frames \in Seq(Frames) /\ stack \in Seq(Values) /\ 0 <= FRAMES_MAX
    BY <2>1, InterpAssumption
  <2>3. QED BY <2>1, <2>2 DEF InterpInv, TypeOK, Stacked, Frames
<1>2. QED BY <1>1, StepKeeps, PTL DEF Spec

(* Every variable of the machine keeps its type, and no call goes past       *)
(* FRAMES_MAX, whatever methods and functions a program has.                *)
THEOREM TypeCorrect ==
    Spec => []TypeOK
<1>1. InterpInv => TypeOK
  BY DEF InterpInv
<1>2. QED BY <1>1, CallsAreStacked, PTL

(* The slot 0 of a running method is an instance of a class that declares it *)
(* or has it from a superclass, for every program, every depth of calls and  *)
(* every way of reaching the method.                                        *)
THEOREM MethodsHaveThis ==
    Spec => []MethodsKnowThis
<1>1. InterpInv => MethodsKnowThis
  BY DEF InterpInv, Stacked, KnowsThis, MethodsKnowThis
<1>2. QED BY <1>1, CallsAreStacked, PTL

-----------------------------------------------------------------------------
(* Interp implements Calls.                                                *)

CallRecords == [closure : Closures, operands : Seq(Values)]

(* The operands of the call with frame i, and all calls, in a stack s.        *)
OperandsOf(fs, s, i) ==
    SubSeq(s, fs[i].slots, IF i = Len(fs) THEN Len(s) ELSE fs[i + 1].slots - 1)

CallsOf(fs, s) ==
    [i \in 1 .. Len(fs) |-> [closure |-> fs[i].closure, operands |-> OperandsOf(fs, s, i)]]

(* Those of the running call, when the stack becomes s.                      *)
Top(s) == SubSeq(s, Slots, Len(s))

(* Between lines nothing is left; a script is the first call, at the bottom.  *)
Tidy ==
    /\ mode = "idle" => stack = <<>> /\ frames = <<>>
    /\ frames # <<>> => frames[1].slots = 1 /\ frames[1].closure = Main

(* What a step is to Calls.                                                 *)
Refines ==
    /\ Tidy'
    /\ Abstract!Step \/ Abstract!Start \/ Abstract!End \/ Abstract!Stop("error")

(* A step of Calls, in what it says of the calls alone.                      *)
StepOf(old, new) ==
    \/ /\ Len(new) = Len(old)
       /\ ButLast(new, 1) = ButLast(old, 1)
       /\ Last(new).closure = Last(old).closure
       /\ Abstract!Computes(Last(old).operands, Last(new).operands)
    \/ /\ Len(new) = Len(old) + 1
       /\ ButLast(new, 2) = ButLast(old, 1)
       /\ new[Len(old)].closure = old[Len(old)].closure
       /\ Abstract!Enters(old[Len(old)].operands, new[Len(old)].operands,
                 new[Len(old) + 1].closure, new[Len(old) + 1].operands)
    \/ /\ Len(new) = Len(old) - 1 /\ Len(old) > 1
       /\ new = [ButLast(old, 1) EXCEPT
                   ![Len(old) - 1].operands = Append(@, Last(old[Len(old)].operands))]

LEMMA CallsAre ==
    /\ [i \in 1 .. Len(frames) |-> [closure |-> frames[i].closure, operands |-> Operands(i)]]
          = CallsOf(frames, stack)
    /\ [i \in 1 .. Len(frames) |-> [closure |-> frames[i].closure, operands |-> Operands(i)]]'
          = CallsOf(frames', stack')
BY DEF CallsOf, Operands, OperandsOf

LEMMA StepIs ==
    ASSUME mode = "running", UNCHANGED <<mode, code>>,
           StepOf(CallsOf(frames, stack), CallsOf(frames', stack'))
    PROVE  Abstract!Step
<1>1. StepOf([i \in 1 .. Len(frames) |-> [closure |-> frames[i].closure, operands |-> Operands(i)]],
             [i \in 1 .. Len(frames) |-> [closure |-> frames[i].closure, operands |-> Operands(i)]]')
  BY CallsAre
<1>2. QED
  BY <1>1, Zenon DEF StepOf, Abstract!Step, Abstract!ButLast, Abstract!Last, ButLast, Last

(* Parts of stacks that agree.                                              *)
LEMMA SameParts ==
    ASSUME NEW V, NEW s \in Seq(V), NEW t \in Seq(V), NEW a \in Nat \ {0}, NEW b \in Int,
           b <= Len(s), b <= Len(t), \A k \in a .. b : s[k] = t[k]
    PROVE  SubSeq(s, a, b) = SubSeq(t, a, b)
<1> DEFINE x == SubSeq(s, a, b)
           y == SubSeq(t, a, b)
<1>1. \A k \in a .. b : s[k] \in V /\ t[k] \in V
  OBVIOUS
<1>2. /\ x \in Seq(V) /\ Len(x) = (IF a <= b THEN b - a + 1 ELSE 0)
      /\ \A k \in 1 .. b - a + 1 : x[k] = s[a + k - 1]
  BY <1>1, SubSeqProperties
<1>3. /\ y \in Seq(V) /\ Len(y) = (IF a <= b THEN b - a + 1 ELSE 0)
      /\ \A k \in 1 .. b - a + 1 : y[k] = t[a + k - 1]
  BY <1>1, SubSeqProperties
<1>4. \A k \in 1 .. b - a + 1 : x[k] = y[k]
  BY <1>2, <1>3
<1> HIDE DEF x, y
<1>5. Len(x) = Len(y) /\ \A k \in 1 .. Len(x) : x[k] = y[k]
  BY <1>2, <1>3, <1>4
<1>6. x = y
  BY <1>2, <1>3, <1>5, SeqEqual
<1>7. QED BY <1>6 DEF x, y

(* A part of a stack, element by element.                                   *)
LEMMA Part ==
    ASSUME NEW s \in Seq(Values), NEW a \in Nat \ {0}, NEW b \in Nat, a <= b + 1, b <= Len(s)
    PROVE  /\ SubSeq(s, a, b) \in Seq(Values)
           /\ Len(SubSeq(s, a, b)) = b - a + 1
           /\ \A k \in 1 .. b - a + 1 : SubSeq(s, a, b)[k] = s[a + k - 1]
<1>1. \A k \in a .. b : s[k] \in Values
  OBVIOUS
<1>2. /\ SubSeq(s, a, b) \in Seq(Values)
      /\ Len(SubSeq(s, a, b)) = (IF a <= b THEN b - a + 1 ELSE 0)
      /\ \A k \in 1 .. b - a + 1 : SubSeq(s, a, b)[k] = s[a + k - 1]
  BY <1>1, SubSeqProperties
<1>3. QED BY <1>2

LEMMA SameInterval ==
    ASSUME NEW n \in Nat, NEW m \in Nat, 1 .. n = 1 .. m
    PROVE  n = m
<1>1. CASE n < m
  <2>1. m \in 1 .. m /\ m \notin 1 .. n
    BY <1>1
  <2>2. QED BY <2>1
<1>2. CASE m < n
  <2>1. n \in 1 .. n /\ n \notin 1 .. m
    BY <1>2
  <2>2. QED BY <2>1
<1>3. QED BY <1>1, <1>2

LEMMA CallsSeq ==
    ASSUME NEW fs \in Seq(Frames), NEW s \in Seq(Values), Stacked(fs, s)
    PROVE  /\ CallsOf(fs, s) \in Seq(CallRecords) /\ Len(CallsOf(fs, s)) = Len(fs)
           /\ \A i \in 1 .. Len(fs) :
                 /\ CallsOf(fs, s)[i].closure = fs[i].closure
                 /\ CallsOf(fs, s)[i].operands = OperandsOf(fs, s, i)
                 /\ CallsOf(fs, s)[i] \in CallRecords
           /\ \A i \in 1 .. Len(fs) - 1 :
                 OperandsOf(fs, s, i) = SubSeq(s, fs[i].slots, fs[i + 1].slots - 1)
           /\ OperandsOf(fs, s, Len(fs)) = SubSeq(s, fs[Len(fs)].slots, Len(s))
<1>1. Len(fs) \in Nat /\ Len(s) \in Nat
  OBVIOUS
<1>2. ASSUME NEW i \in 1 .. Len(fs) - 1
      PROVE  OperandsOf(fs, s, i) = SubSeq(s, fs[i].slots, fs[i + 1].slots - 1)
  <2>1. i # Len(fs)
    BY <1>1
  <2>2. QED BY <2>1, Zenon DEF OperandsOf
<1>3. OperandsOf(fs, s, Len(fs)) = SubSeq(s, fs[Len(fs)].slots, Len(s))
  BY DEF OperandsOf
<1>4. \A i \in 1 .. Len(fs) : /\ fs[i].slots \in Nat \ {0} /\ fs[i].closure \in Closures
                              /\ fs[i].slots <= Len(s)
  <2>1. \A i \in 1 .. Len(fs) : fs[i] \in Frames
    OBVIOUS
  <2>2. QED BY <2>1 DEF Frames, Stacked
<1>5. ASSUME NEW i \in 1 .. Len(fs) PROVE OperandsOf(fs, s, i) \in Seq(Values)
  <2>1. CASE i = Len(fs)
    <3>1. fs[i].slots \in Nat \ {0} /\ fs[i].slots <= Len(s) + 1
      BY <1>1, <1>4
    <3>2. SubSeq(s, fs[i].slots, Len(s)) \in Seq(Values)
      BY <1>1, <3>1, Part
    <3>3. QED BY <1>3, <2>1, <3>2
  <2>2. CASE i \in 1 .. Len(fs) - 1
    <3>1. i + 1 \in 1 .. Len(fs) /\ fs[i].slots < fs[i + 1].slots
      BY <1>1, <2>2 DEF Stacked
    <3>2. fs[i + 1].slots \in Nat \ {0} /\ fs[i + 1].slots <= Len(s) /\ fs[i].slots \in Nat \ {0}
      BY <1>4, <3>1
    <3>3. /\ fs[i + 1].slots - 1 \in Nat /\ fs[i].slots <= (fs[i + 1].slots - 1) + 1
          /\ fs[i + 1].slots - 1 <= Len(s)
      BY <1>1, <3>1, <3>2
    <3>4. SubSeq(s, fs[i].slots, fs[i + 1].slots - 1) \in Seq(Values)
      BY <3>2, <3>3, Part
    <3>5. QED BY <1>2, <2>2, <3>4
  <2>3. QED BY <1>1, <2>1, <2>2
<1>6. \A i \in 1 .. Len(fs) :
         /\ CallsOf(fs, s)[i] = [closure |-> fs[i].closure, operands |-> OperandsOf(fs, s, i)]
         /\ CallsOf(fs, s)[i] \in CallRecords
  BY <1>4, <1>5 DEF CallsOf, CallRecords
<1>7. CallsOf(fs, s) \in [1 .. Len(fs) -> CallRecords]
  BY <1>6 DEF CallsOf
<1>8. CallsOf(fs, s) \in Seq(CallRecords) /\ Len(CallsOf(fs, s)) = Len(fs)
  <2>1. CallsOf(fs, s) \in UNION {[1 .. n -> CallRecords] : n \in Nat}
    BY <1>1, <1>7
  <2>2. CallsOf(fs, s) \in Seq(CallRecords)
    BY <2>1, SeqDef
  <2>3. DOMAIN CallsOf(fs, s) = 1 .. Len(CallsOf(fs, s)) /\ Len(CallsOf(fs, s)) \in Nat
    BY <2>2, LenProperties
  <2>4. DOMAIN CallsOf(fs, s) = 1 .. Len(fs)
    BY DEF CallsOf
  <2>5. Len(CallsOf(fs, s)) = Len(fs)
    BY <1>1, <2>3, <2>4, SameInterval
  <2>6. QED BY <2>2, <2>5
<1>9. ASSUME NEW i \in 1 .. Len(fs)
      PROVE  /\ CallsOf(fs, s)[i].closure = fs[i].closure
             /\ CallsOf(fs, s)[i].operands = OperandsOf(fs, s, i)
  <2> DEFINE call == [closure |-> fs[i].closure, operands |-> OperandsOf(fs, s, i)]
  <2>1. call.closure = fs[i].closure /\ call.operands = OperandsOf(fs, s, i)
    OBVIOUS
  <2>2. CallsOf(fs, s)[i] = call
    BY <1>6
  <2> HIDE DEF call
  <2>3. QED BY <2>1, <2>2
<1>10. QED BY <1>2, <1>3, <1>6, <1>8, <1>9

(* Calls other than the running one keep their operands.                     *)
LEMMA OthersKeep ==
    ASSUME InterpInv, mode = "running", NEW s, Kept(s), Stacked(frames, s)
    PROVE  \A i \in 1 .. Len(frames) - 1 : OperandsOf(frames, s, i) = OperandsOf(frames, stack, i)
<1>1. /\ frames \in Seq(Frames) /\ stack \in Seq(Values) /\ s \in Seq(Values)
      /\ Stacked(frames, stack) /\ Slots \in 1 .. Len(stack) /\ Slots <= Len(s)
      /\ \A k \in 1 .. Slots : s[k] = stack[k]
  BY SlotsInStack DEF InterpInv, TypeOK, Frames, Kept
<1>2. ASSUME NEW i \in 1 .. Len(frames) - 1
      PROVE  OperandsOf(frames, s, i) = OperandsOf(frames, stack, i)
  <2> DEFINE a == frames[i].slots
             b == frames[i + 1].slots - 1
  <2>1. i \in 1 .. Len(frames) /\ i + 1 \in 1 .. Len(frames)
    BY <1>1
  <2>2. frames[i] \in Frames /\ frames[i + 1] \in Frames /\ frames[i + 1].slots <= Slots
    BY <2>1, SlotsInStack
  <2>3. a \in Nat \ {0} /\ b \in Int /\ b < Slots
    <3>1. frames[i].slots \in Nat \ {0} /\ frames[i + 1].slots \in Nat \ {0}
      BY <2>2 DEF Frames
    <3>2. Slots \in Nat
      BY <1>1
    <3>3. QED BY <2>2, <3>1, <3>2
  <2>4. OperandsOf(frames, s, i) = SubSeq(s, a, b) /\ OperandsOf(frames, stack, i) = SubSeq(stack, a, b)
    BY <1>1, CallsSeq
  <2> HIDE DEF a, b
  <2>5. b <= Len(s) /\ b <= Len(stack) /\ \A k \in a .. b : s[k] = stack[k]
    BY <1>1, <2>3
  <2>6. SubSeq(s, a, b) = SubSeq(stack, a, b)
    BY <1>1, <2>3, <2>5, SameParts
  <2>7. QED BY <2>4, <2>6
<1>3. QED BY <1>2

(* An instruction of the running call.                                      *)
LEMMA Stays ==
    ASSUME InterpInv, Tidy, mode = "running", NEW s, Go(s), Kept(s),
           Abstract!Computes(Top(stack), Top(s))
    PROVE  Refines
<1> DEFINE old == CallsOf(frames, stack)
           new == CallsOf(frames, s)
<1>1. stack' = s /\ frames' = frames /\ UNCHANGED <<mode, code>>
  BY DEF Go
<1>2. /\ frames \in Seq(Frames) /\ stack \in Seq(Values) /\ s \in Seq(Values)
      /\ Stacked(frames, stack) /\ Stacked(frames, s) /\ Len(frames) \in 1 .. FRAMES_MAX
      /\ Slots = frames[Len(frames)].slots
  BY SlotsInStack, KeptStacked DEF InterpInv, TypeOK, Frames, Kept, Slots, Last
<1>3. /\ old \in Seq(CallRecords) /\ new \in Seq(CallRecords)
      /\ Len(old) = Len(frames) /\ Len(new) = Len(frames)
      /\ old[Len(frames)].operands = Top(stack) /\ new[Len(frames)].operands = Top(s)
      /\ old[Len(frames)].closure = new[Len(frames)].closure
  <2>1. Len(frames) \in 1 .. Len(frames)
    BY <1>2
  <2>2. /\ old[Len(frames)].operands = OperandsOf(frames, stack, Len(frames))
        /\ old[Len(frames)].closure = frames[Len(frames)].closure
        /\ old \in Seq(CallRecords) /\ Len(old) = Len(frames)
        /\ OperandsOf(frames, stack, Len(frames)) = Top(stack)
    BY <1>2, <2>1, CallsSeq DEF Top
  <2>3. /\ new[Len(frames)].operands = OperandsOf(frames, s, Len(frames))
        /\ new[Len(frames)].closure = frames[Len(frames)].closure
        /\ new \in Seq(CallRecords) /\ Len(new) = Len(frames)
        /\ OperandsOf(frames, s, Len(frames)) = Top(s)
    BY <1>2, <2>1, CallsSeq DEF Top
  <2> HIDE DEF old, new
  <2>4. QED BY <2>2, <2>3
<1>4. \A i \in 1 .. Len(frames) - 1 : new[i] = old[i]
  BY <1>2, OthersKeep DEF CallsOf
<1> HIDE DEF old, new
<1>5. ButLast(new, 1) = ButLast(old, 1)
  <2>1. Len(frames) - 1 \in Int /\ Len(frames) - 1 <= Len(frames)
    BY <1>2
  <2>2. SubSeq(new, 1, Len(frames) - 1) = SubSeq(old, 1, Len(frames) - 1)
    BY <1>3, <1>4, <2>1, SameParts
  <2>3. QED BY <1>3, <2>2 DEF ButLast
<1>6. StepOf(old, new)
  BY <1>3, <1>5 DEF StepOf, Last
<1>7. Abstract!Step
  BY <1>1, <1>6, StepIs DEF old, new
<1>8. Tidy'
  BY <1>1 DEF Tidy
<1>9. QED BY <1>7, <1>8 DEF Refines

(* The operands of the running call, element by element.                     *)
LEMMA TopOf ==
    ASSUME InterpInv, mode = "running", NEW s \in Seq(Values), Slots <= Len(s)
    PROVE  /\ Slots \in Nat \ {0} /\ Len(s) \in Nat
           /\ Top(s) \in Seq(Values) /\ Len(Top(s)) = Len(s) - Slots + 1
           /\ \A k \in 1 .. Len(s) - Slots + 1 : Top(s)[k] = s[Slots + k - 1]
<1>1. Slots \in Nat \ {0} /\ Len(s) \in Nat
  BY SlotsInStack
<1>2. QED BY <1>1, Part DEF Top

LEMMA TopOfStack ==
    ASSUME InterpInv, mode = "running"
    PROVE  /\ stack \in Seq(Values) /\ Len(stack) \in Nat
           /\ Slots \in Nat \ {0} /\ Slots <= Len(stack)
           /\ Top(stack) \in Seq(Values) /\ Len(Top(stack)) = Len(stack) - Slots + 1
           /\ \A k \in 1 .. Len(stack) - Slots + 1 : Top(stack)[k] = stack[Slots + k - 1]
<1>1. stack \in Seq(Values) /\ Slots \in 1 .. Len(stack)
  BY SlotsInStack
<1>2. QED BY <1>1, TopOf

(* It takes n operands and puts a value in their place.                      *)
LEMMA ReplaceSteps ==
    ASSUME InterpInv, Tidy, NEW n \in Nat, Holds(n), NEW v \in Values,
           Go(Append(ButLast(stack, n), v))
    PROVE  Refines
<1> DEFINE s == Append(ButLast(stack, n), v)
           old == Top(stack)
           new == Top(s)
           rest == Len(stack) - n - Slots + 1
<1>1. mode = "running" /\ Len(stack) >= Slots + n
  BY DEF Holds
<1>2. Kept(s)
  BY <1>1, KeptPop, KeptAppend
<1>3. /\ ButLast(stack, n) \in Seq(Values) /\ Len(ButLast(stack, n)) = Len(stack) - n
      /\ \A k \in 1 .. Len(stack) - n : ButLast(stack, n)[k] = stack[k]
  BY KeptPop DEF Kept
<1>4. /\ s \in Seq(Values) /\ Len(s) = Len(stack) - n + 1
      /\ \A k \in 1 .. Len(stack) - n : s[k] = stack[k]
  BY <1>3
<1>5. Go(s)
  OBVIOUS
<1>6. Slots \in Nat \ {0} /\ Len(stack) \in Nat /\ rest \in Nat \ {0}
  BY <1>1, TopOfStack
<1> HIDE DEF s
<1>7. Slots <= Len(s)
  BY <1>1, <1>4, <1>6
<1>8. /\ new \in Seq(Values) /\ Len(new) = rest + 1
      /\ \A k \in 1 .. rest + 1 : new[k] = s[Slots + k - 1]
  <2>1. Len(s) - Slots + 1 = rest + 1
    BY <1>4, <1>6
  <2> HIDE DEF rest
  <2>2. QED BY <1>1, <1>4, <1>7, <2>1, TopOf
<1>9. /\ old \in Seq(Values) /\ Len(old) = rest + n
      /\ \A k \in 1 .. rest + n : old[k] = stack[Slots + k - 1]
  <2>1. Len(stack) - Slots + 1 = rest + n
    BY <1>6
  <2> HIDE DEF rest
  <2>2. QED BY <1>1, <2>1, TopOfStack
<1>10. \A k \in 1 .. rest : Slots + k - 1 \in 1 .. Len(stack) - n
  BY <1>6
<1> HIDE DEF old, new
<1>11. \A k \in 1 .. rest : new[k] = old[k]
  <2>1. \A k \in 1 .. rest : k \in 1 .. rest + 1 /\ k \in 1 .. rest + n
    BY <1>6
  <2> HIDE DEF rest
  <2>2. QED BY <1>4, <1>8, <1>9, <1>10, <2>1
<1> HIDE DEF rest
<1>12. SubSeq(new, 1, rest) = SubSeq(old, 1, rest)
  <2>1. rest <= Len(new) /\ rest <= Len(old) /\ rest \in Int
    BY <1>6, <1>8, <1>9
  <2>2. QED BY <1>8, <1>9, <1>11, <2>1, SameParts
<1>13. Abstract!ButLast(new, 1) = Abstract!ButLast(old, n)
  <2>1. Len(new) - 1 = rest /\ Len(old) - n = rest
    BY <1>6, <1>8, <1>9
  <2>2. QED BY <1>12, <2>1 DEF Abstract!ButLast
<1>14. n \in 0 .. Len(old) - 1
  BY <1>6, <1>9
<1>15. Abstract!Computes(old, new)
  BY <1>13, <1>14 DEF Abstract!Computes
<1>16. QED BY <1>1, <1>2, <1>5, <1>15, Stays DEF old, new

(* It takes n operands.                                                     *)
LEMMA PopSteps ==
    ASSUME InterpInv, Tidy, NEW n \in Nat, Holds(n), Go(ButLast(stack, n))
    PROVE  Refines
<1> DEFINE s == ButLast(stack, n)
           old == Top(stack)
           new == Top(s)
           rest == Len(stack) - n - Slots + 1
<1>1. mode = "running" /\ Len(stack) >= Slots + n /\ Go(s)
  BY DEF Holds
<1>2. /\ Kept(s) /\ s \in Seq(Values) /\ Len(s) = Len(stack) - n
      /\ \A k \in 1 .. Len(stack) - n : s[k] = stack[k]
  BY KeptPop DEF Kept
<1>3. Slots \in Nat \ {0} /\ Len(stack) \in Nat /\ rest \in Nat \ {0}
  BY <1>1, TopOfStack
<1> HIDE DEF s
<1>4. Slots <= Len(s)
  BY <1>1, <1>2, <1>3
<1>5. /\ new \in Seq(Values) /\ Len(new) = rest
      /\ \A k \in 1 .. rest : new[k] = s[Slots + k - 1]
  <2>1. Len(s) - Slots + 1 = rest
    BY <1>2, <1>3
  <2> HIDE DEF rest
  <2>2. QED BY <1>1, <1>2, <1>4, <2>1, TopOf
<1>6. /\ old \in Seq(Values) /\ Len(old) = rest + n
      /\ \A k \in 1 .. rest + n : old[k] = stack[Slots + k - 1]
  <2>1. Len(stack) - Slots + 1 = rest + n
    BY <1>3
  <2> HIDE DEF rest
  <2>2. QED BY <1>1, <2>1, TopOfStack
<1>7. \A k \in 1 .. rest : Slots + k - 1 \in 1 .. Len(stack) - n
  BY <1>3
<1> HIDE DEF old, new
<1>8. \A k \in 1 .. rest : new[k] = old[k]
  <2>1. \A k \in 1 .. rest : k \in 1 .. rest + n
    BY <1>3
  <2> HIDE DEF rest
  <2>2. QED BY <1>2, <1>5, <1>6, <1>7, <2>1
<1> HIDE DEF rest
<1>9. Abstract!ButLast(old, n) = new
  <2>1. rest <= Len(old) /\ 1 \in Nat /\ rest \in Nat /\ 1 <= rest + 1 /\ Len(old) - n = rest
    BY <1>3, <1>6
  <2>2. /\ SubSeq(old, 1, rest) \in Seq(Values) /\ Len(SubSeq(old, 1, rest)) = rest - 1 + 1
        /\ \A k \in 1 .. rest - 1 + 1 : SubSeq(old, 1, rest)[k] = old[1 + k - 1]
    BY <1>6, <2>1, Part
  <2> DEFINE x == SubSeq(old, 1, rest)
  <2>3. x \in Seq(Values) /\ Len(x) = rest /\ \A k \in 1 .. rest : x[k] = old[k]
    BY <2>1, <2>2
  <2> HIDE DEF x
  <2>4. Len(x) = Len(new) /\ \A k \in 1 .. Len(x) : x[k] = new[k]
    BY <1>5, <1>8, <2>3
  <2>5. x = new
    BY <1>5, <2>3, <2>4, SeqEqual
  <2>6. QED BY <2>1, <2>5 DEF Abstract!ButLast, x
<1>10. n \in 0 .. Len(old) - 1
  BY <1>3, <1>6
<1>11. Abstract!Computes(old, new)
  BY <1>9, <1>10 DEF Abstract!Computes
<1>12. QED BY <1>1, <1>2, <1>11, Stays DEF old, new

(* It assigns to an operand.                                                *)
LEMMA UpdateSteps ==
    ASSUME InterpInv, Tidy, mode = "running", NEW k \in Slots + 1 .. Len(stack), NEW v \in Values,
           Go([stack EXCEPT ![k] = v])
    PROVE  Refines
<1> DEFINE s == [stack EXCEPT ![k] = v]
           old == Top(stack)
           new == Top(s)
           m == Len(stack) - Slots + 1
           i == k - Slots + 1
<1>1. /\ Slots \in Nat \ {0} /\ Len(stack) \in Nat /\ stack \in Seq(Values) /\ Slots <= Len(stack)
      /\ old \in Seq(Values) /\ Len(old) = m
      /\ \A j \in 1 .. m : old[j] = stack[Slots + j - 1]
  BY TopOfStack
<1>2. k \in 1 .. Len(stack)
  BY <1>1
<1>3. /\ s \in Seq(Values) /\ Len(s) = Len(stack) /\ Kept(s) /\ s[k] = v
      /\ \A j \in 1 .. Len(stack) : j # k => s[j] = stack[j]
  BY <1>1, <1>2, KeptUpdate
<1>4. Go(s)
  OBVIOUS
<1> HIDE DEF s
<1>5. new \in Seq(Values) /\ Len(new) = m /\ \A j \in 1 .. m : new[j] = s[Slots + j - 1]
  BY <1>1, <1>3, TopOf
<1>6. i \in 2 .. m /\ i \in 1 .. m /\ m \in Nat /\ Slots + i - 1 = k
  BY <1>1, <1>2
<1>7. \A j \in 1 .. m : Slots + j - 1 \in 1 .. Len(stack) /\ (j # i => Slots + j - 1 # k)
  BY <1>1, <1>2
<1> HIDE DEF old, new, m, i
<1>8. \A j \in 1 .. m : j # i => new[j] = old[j]
  BY <1>1, <1>3, <1>5, <1>7
<1> DEFINE x == [old EXCEPT ![i] = new[i]]
<1>9. x \in Seq(Values) /\ Len(x) = m /\ \A j \in 1 .. m : x[j] = IF j = i THEN new[i] ELSE old[j]
  <2>1. new[i] \in Values
    BY <1>5, <1>6
  <2>2. QED BY <1>1, <1>6, <2>1, ExceptSeq
<1> HIDE DEF x
<1>10. Len(new) = Len(x) /\ \A j \in 1 .. Len(new) : new[j] = x[j]
  BY <1>5, <1>8, <1>9
<1>11. new = x
  BY <1>5, <1>9, <1>10, SeqEqual
<1>12. Abstract!Computes(old, new)
  BY <1>1, <1>6, <1>11 DEF Abstract!Computes, x
<1>13. QED BY <1>3, <1>4, <1>12, Stays DEF old, new

(* A machine without frames has no calls.                                   *)
LEMMA NoCalls ==
    ASSUME NEW s
    PROVE  CallsOf(<<>>, s) = <<>>
<1>1. 1 .. Len(<<>>) = {}
  OBVIOUS
<1>2. DOMAIN CallsOf(<<>>, s) = {}
  BY <1>1 DEF CallsOf
<1>3. CallsOf(<<>>, s) \in [1 .. 0 -> {}]
  BY <1>1 DEF CallsOf
<1>4. CallsOf(<<>>, s) \in Seq({}) 
  <2> HIDE DEF CallsOf
  <2>1. CallsOf(<<>>, s) \in UNION {[1 .. n -> {}] : n \in Nat}
    BY <1>3
  <2>2. QED BY <2>1, SeqDef
<1>5. CallsOf(<<>>, s) \in Seq({}) /\ Len(CallsOf(<<>>, s)) = 0
  <2> HIDE DEF CallsOf
  <2>1. Len(CallsOf(<<>>, s)) \in Nat /\ 1 .. Len(CallsOf(<<>>, s)) = 1 .. 0
    BY <1>2, <1>4, LenProperties
  <2>2. QED BY <1>4, <2>1, SameInterval
<1>6. QED BY <1>5, EmptySeq

(* An error leaves nothing behind.                                          *)
LEMMA ErrorStops ==
    ASSUME NEW s \in Seq(Values), RuntimeError(s)
    PROVE  Refines
<1>1. /\ Append(s, String) # <<>>
      /\ Last(Append(s, String)) = String
  BY Made DEF Last
<1>2. stack' = <<>> /\ frames' = <<>> /\ mode' = "idle" /\ code' = "error"
  BY <1>1 DEF RuntimeError, Finish
<1>3. CallsOf(frames', stack') = <<>>
  BY <1>2, NoCalls
<1>4. Abstract!Stop("error")
  BY <1>2, <1>3, CallsAre DEF Abstract!Stop
<1>5. Tidy'
  BY <1>2 DEF Tidy
<1>6. QED BY <1>4, <1>5 DEF Refines

-----------------------------------------------------------------------------
(* A stack made ready for a call with n arguments: a receiver has taken the    *)
(* place of the called value, or the superclass has been popped.             *)
Prepared(s, n) ==
    /\ s \in Seq(Values) /\ Kept(s) /\ Len(s) - n > Slots
    /\ \/ /\ Len(s) = Len(stack)
          /\ \A k \in 1 .. Len(stack) : k # Len(stack) - n => s[k] = stack[k]
       \/ /\ Len(s) = Len(stack) - 1
          /\ \A k \in 1 .. Len(s) : s[k] = stack[k]

(* Sequences of the same length and elements.                               *)
LEMMA SameValues ==
    ASSUME NEW x \in Seq(Values), NEW y \in Seq(Values), NEW n \in Nat,
           Len(x) = n, Len(y) = n, \A k \in 1 .. n : x[k] = y[k]
    PROVE  x = y
  BY SeqEqual

LEMMA EntersCallee ==
    ASSUME InterpInv, mode = "running", NEW n \in Nat, NEW s, Prepared(s, n),
           NEW f, Arity[f] = n
    PROVE  Abstract!Enters(Top(stack), SubSeq(s, Slots, Len(s) - n - 1),
                           f, SubSeq(s, Len(s) - n, Len(s)))
<1> DEFINE old == Top(stack)
           rest == SubSeq(s, Slots, Len(s) - n - 1)
           new == SubSeq(s, Len(s) - n, Len(s))
           m == Len(stack) - Slots + 1
           r == Len(s) - n - Slots
<1>1. /\ stack \in Seq(Values) /\ Len(stack) \in Nat /\ Slots \in Nat \ {0} /\ Slots <= Len(stack)
      /\ old \in Seq(Values) /\ Len(old) = m
      /\ \A k \in 1 .. m : old[k] = stack[Slots + k - 1]
  BY TopOfStack
<1>2. s \in Seq(Values) /\ Len(s) - n > Slots /\ Len(s) \in Nat
  BY DEF Prepared
<1>3. m \in Nat /\ r \in Nat \ {0}
  BY <1>1, <1>2
<1>4. rest \in Seq(Values) /\ Len(rest) = r /\ \A k \in 1 .. r : rest[k] = s[Slots + k - 1]
  <2>1. /\ Len(s) - n - 1 \in Nat /\ Slots <= (Len(s) - n - 1) + 1 /\ Len(s) - n - 1 <= Len(s)
        /\ (Len(s) - n - 1) - Slots + 1 = r
    BY <1>1, <1>2
  <2> DEFINE b == Len(s) - n - 1
  <2>2. b \in Nat /\ Slots <= b + 1 /\ b <= Len(s) /\ Slots \in Nat \ {0} /\ s \in Seq(Values)
    BY <1>1, <1>2, <2>1
  <2>3. rest = SubSeq(s, Slots, b) /\ b - Slots + 1 = r
    BY <2>1
  <2> HIDE DEF rest, r, b
  <2>4. /\ SubSeq(s, Slots, b) \in Seq(Values) /\ Len(SubSeq(s, Slots, b)) = b - Slots + 1
        /\ \A k \in 1 .. b - Slots + 1 : SubSeq(s, Slots, b)[k] = s[Slots + k - 1]
    BY <2>2, Part
  <2>5. QED BY <2>3, <2>4, Zenon
<1>5. new \in Seq(Values) /\ Len(new) = n + 1 /\ \A k \in 1 .. n + 1 : new[k] = s[Len(s) - n + k - 1]
  <2>1. /\ Len(s) - n \in Nat \ {0} /\ Len(s) - n <= Len(s) + 1 /\ Len(s) <= Len(s)
        /\ Len(s) - (Len(s) - n) + 1 = n + 1
    BY <1>1, <1>2
  <2>2. QED BY <1>2, <2>1, Part
<1> HIDE DEF old, rest, new
<1>6. rest # <<>>
  BY <1>3, <1>4
<1>7. ASSUME Len(s) = Len(stack), \A k \in 1 .. Len(stack) : k # Len(stack) - n => s[k] = stack[k]
      PROVE  Abstract!Enters(old, rest, f, new)
  <2>1. m = r + n + 1
    BY <1>1, <1>2, <1>7
  <2>2. \A k \in 1 .. r : /\ Slots + k - 1 \in 1 .. Len(stack) /\ Slots + k - 1 # Len(stack) - n
                          /\ k \in 1 .. m
    BY <1>1, <1>2, <1>7
  <2>3. \A k \in 1 .. n : /\ Len(stack) - n + k \in 1 .. Len(stack) /\ Len(stack) - n + k # Len(stack) - n
                          /\ k + 1 \in 1 .. n + 1 /\ r + 1 + k \in 1 .. m
                          /\ Len(s) - n + (k + 1) - 1 = Len(stack) - n + k
                          /\ Slots + (r + 1 + k) - 1 = Len(stack) - n + k
    BY <1>1, <1>2, <1>7
  <2>4. \A k \in 1 .. r : rest[k] = old[k]
    <3> HIDE DEF m, r
    <3>1. QED BY <1>1, <1>4, <1>7, <2>2
  <2>5. \A k \in 1 .. n : new[k + 1] = old[r + 1 + k]
    <3>1. \A k \in 1 .. n : /\ new[k + 1] = s[Len(stack) - n + k]
                            /\ old[r + 1 + k] = stack[Len(stack) - n + k]
      <4> SUFFICES ASSUME NEW k \in 1 .. n
                   PROVE  /\ new[k + 1] = s[Len(stack) - n + k]
                          /\ old[r + 1 + k] = stack[Len(stack) - n + k]
        OBVIOUS
      <4>1. /\ k + 1 \in 1 .. n + 1 /\ r + 1 + k \in 1 .. m
            /\ Len(s) - n + (k + 1) - 1 = Len(stack) - n + k
            /\ Slots + (r + 1 + k) - 1 = Len(stack) - n + k
        BY <2>3
      <4>2. new[k + 1] = s[Len(s) - n + (k + 1) - 1] /\ old[r + 1 + k] = stack[Slots + (r + 1 + k) - 1]
        <5> HIDE DEF m, r
        <5>1. QED BY <1>1, <1>5, <4>1
      <4>3. QED BY <4>1, <4>2
    <3>2. ASSUME NEW k \in 1 .. n PROVE new[k + 1] = old[r + 1 + k]
      <4>1. /\ new[k + 1] = s[Len(stack) - n + k]
            /\ old[r + 1 + k] = stack[Len(stack) - n + k]
        BY <3>1
      <4>2. Len(stack) - n + k \in 1 .. Len(stack) /\ Len(stack) - n + k # Len(stack) - n
        BY <2>3
      <4>3. s[Len(stack) - n + k] = stack[Len(stack) - n + k]
        BY <1>7, <4>2
      <4>4. QED BY <4>1, <4>3
    <3>3. QED BY <3>2
  <2>6. rest = Abstract!ButLast(old, Len(new))
    <3>1. Len(old) - Len(new) = r /\ 1 <= r + 1 /\ r <= Len(old) /\ r - 1 + 1 = r
      BY <1>1, <1>3, <1>5, <2>1
    <3>2. /\ SubSeq(old, 1, r) \in Seq(Values) /\ Len(SubSeq(old, 1, r)) = r
          /\ \A k \in 1 .. r : SubSeq(old, 1, r)[k] = old[1 + k - 1]
      <4>1. 1 \in Nat \ {0} /\ r \in Nat /\ old \in Seq(Values)
        BY <1>1, <1>3
      <4> HIDE DEF r, m
      <4>2. /\ SubSeq(old, 1, r) \in Seq(Values) /\ Len(SubSeq(old, 1, r)) = r - 1 + 1
            /\ \A k \in 1 .. r - 1 + 1 : SubSeq(old, 1, r)[k] = old[1 + k - 1]
        BY <3>1, <4>1, Part
      <4>3. QED BY <3>1, <4>2, Zenon
    <3> HIDE DEF r
    <3>3. \A k \in 1 .. r : rest[k] = SubSeq(old, 1, r)[k]
      BY <2>4, <3>2, <1>3
    <3>4. rest = SubSeq(old, 1, r)
      BY <1>3, <1>4, <3>2, <3>3, SameValues
    <3>5. QED BY <3>1, <3>4 DEF Abstract!ButLast
  <2>7. Tail(new) = Abstract!Ending(old, n)
    <3>1. Len(old) - n + 1 = r + 2 /\ Len(old) = m /\ m - (r + 2) + 1 = n
      <4>1. Len(old) = m
        BY <1>1
      <4> HIDE DEF r, m
      <4>2. QED BY <1>3, <2>1, <4>1
    <3>2. r + 2 \in Nat \ {0} /\ r + 2 <= m + 1 /\ m \in Nat
      <4> HIDE DEF r, m
      <4>1. QED BY <1>3, <2>1
    <3> HIDE DEF r, m
    <3>3. /\ SubSeq(old, r + 2, m) \in Seq(Values) /\ Len(SubSeq(old, r + 2, m)) = n
          /\ \A k \in 1 .. n : SubSeq(old, r + 2, m)[k] = old[r + 2 + k - 1]
      <4>1. m <= Len(old)
        BY <3>1, <3>2
      <4>2. /\ SubSeq(old, r + 2, m) \in Seq(Values)
            /\ Len(SubSeq(old, r + 2, m)) = m - (r + 2) + 1
            /\ \A k \in 1 .. m - (r + 2) + 1 : SubSeq(old, r + 2, m)[k] = old[r + 2 + k - 1]
        BY <1>1, <3>2, <4>1, Part
      <4>3. QED BY <3>1, <4>2, Zenon
    <3>4. Tail(new) \in Seq(Values) /\ Len(Tail(new)) = n /\ \A k \in 1 .. n : Tail(new)[k] = new[k + 1]
      <4>1. new # <<>>
        BY <1>5
      <4>2. QED BY <1>5, <4>1, HeadTailProperties
    <3>5. \A k \in 1 .. n : Tail(new)[k] = SubSeq(old, r + 2, m)[k]
      <4>1. \A k \in 1 .. n : r + 2 + k - 1 = r + 1 + k
        BY <1>3
      <4>2. QED BY <2>5, <3>3, <3>4, <4>1
    <3>6. Tail(new) = SubSeq(old, r + 2, m)
      BY <3>3, <3>4, <3>5, SameValues
    <3>7. QED BY <3>1, <3>6, Zenon DEF Abstract!Ending
  <2>8. Len(new) = Arity[f] + 1
    BY <1>5
  <2>9. Tail(new) = Abstract!Ending(old, Arity[f])
    BY <2>7
  <2>10. QED BY <1>6, <2>6, <2>8, <2>9 DEF Abstract!Enters
<1>8. ASSUME Len(s) = Len(stack) - 1, \A k \in 1 .. Len(s) : s[k] = stack[k]
      PROVE  Abstract!Enters(old, rest, f, new)
  <2>1. m = r + n + 2
    BY <1>1, <1>2, <1>8
  <2>2. \A k \in 1 .. r : Slots + k - 1 \in 1 .. Len(s) /\ k \in 1 .. m
    BY <1>1, <1>2, <1>8
  <2>3. \A k \in 1 .. n + 1 : /\ Len(s) - n + k - 1 \in 1 .. Len(s) /\ r + k \in 1 .. m
                              /\ Slots + (r + k) - 1 = Len(s) - n + k - 1
    BY <1>1, <1>2, <1>8
  <2>4. \A k \in 1 .. r : rest[k] = old[k]
    <3> HIDE DEF m, r
    <3>1. QED BY <1>1, <1>4, <1>8, <2>2
  <2>5. \A k \in 1 .. n + 1 : new[k] = old[r + k]
    <3> SUFFICES ASSUME NEW k \in 1 .. n + 1 PROVE new[k] = old[r + k]
      OBVIOUS
    <3>1. /\ Len(s) - n + k - 1 \in 1 .. Len(s) /\ r + k \in 1 .. m
          /\ Slots + (r + k) - 1 = Len(s) - n + k - 1
      BY <2>3
    <3>2. new[k] = s[Len(s) - n + k - 1] /\ old[r + k] = stack[Slots + (r + k) - 1]
      <4> HIDE DEF m, r
      <4>1. QED BY <1>1, <1>5, <3>1
    <3>3. QED BY <1>8, <3>1, <3>2
  <2>6. rest = Abstract!ButLast(old, Len(new) + 1)
    <3>1. Len(old) - (Len(new) + 1) = r /\ 1 <= r + 1 /\ r <= Len(old) /\ r - 1 + 1 = r
      BY <1>1, <1>3, <1>5, <2>1
    <3>2. /\ SubSeq(old, 1, r) \in Seq(Values) /\ Len(SubSeq(old, 1, r)) = r
          /\ \A k \in 1 .. r : SubSeq(old, 1, r)[k] = old[1 + k - 1]
      <4>1. 1 \in Nat \ {0} /\ r \in Nat /\ old \in Seq(Values)
        BY <1>1, <1>3
      <4> HIDE DEF r, m
      <4>2. /\ SubSeq(old, 1, r) \in Seq(Values) /\ Len(SubSeq(old, 1, r)) = r - 1 + 1
            /\ \A k \in 1 .. r - 1 + 1 : SubSeq(old, 1, r)[k] = old[1 + k - 1]
        BY <3>1, <4>1, Part
      <4>3. QED BY <3>1, <4>2, Zenon
    <3> HIDE DEF r
    <3>3. \A k \in 1 .. r : rest[k] = SubSeq(old, 1, r)[k]
      BY <2>4, <3>2, <1>3
    <3>4. rest = SubSeq(old, 1, r)
      BY <1>3, <1>4, <3>2, <3>3, SameValues
    <3>5. QED BY <3>1, <3>4 DEF Abstract!ButLast
  <2>7. new = Abstract!Ending(Abstract!ButLast(old, 1), Len(new))
    <3> DEFINE o == SubSeq(old, 1, m - 1)
    <3>1. m - 1 \in Nat /\ 1 <= (m - 1) + 1 /\ m - 1 <= Len(old) /\ (m - 1) - 1 + 1 = m - 1 /\ 1 \in Nat \ {0}
      BY <1>1, <1>2, <1>3, <2>1
    <3>2. /\ o \in Seq(Values) /\ Len(o) = m - 1
          /\ \A k \in 1 .. m - 1 : o[k] = old[1 + k - 1]
      <4> HIDE DEF m
      <4>1. QED BY <1>1, <3>1, Part
    <3>3. /\ m - 1 - (n + 1) + 1 = r + 1 /\ r + 1 \in Nat \ {0} /\ r + 1 <= (m - 1) + 1
          /\ (m - 1) - (r + 1) + 1 = n + 1
          /\ \A k \in 1 .. n + 1 : /\ r + 1 + k - 1 \in 1 .. m - 1 /\ r + 1 + k - 1 = r + k
                                   /\ 1 + (r + k) - 1 = r + k
      <4> HIDE DEF r, m
      <4>1. QED BY <1>3, <2>1
    <3>4. Abstract!ButLast(old, 1) = o
      BY <1>1 DEF Abstract!ButLast
    <3> HIDE DEF o, m, r
    <3>5. /\ SubSeq(o, r + 1, m - 1) \in Seq(Values) /\ Len(SubSeq(o, r + 1, m - 1)) = n + 1
          /\ \A k \in 1 .. n + 1 : SubSeq(o, r + 1, m - 1)[k] = o[r + 1 + k - 1]
      <4>1. m - 1 <= Len(o)
        BY <3>1, <3>2
      <4>2. /\ SubSeq(o, r + 1, m - 1) \in Seq(Values)
            /\ Len(SubSeq(o, r + 1, m - 1)) = (m - 1) - (r + 1) + 1
            /\ \A k \in 1 .. (m - 1) - (r + 1) + 1 : SubSeq(o, r + 1, m - 1)[k] = o[r + 1 + k - 1]
        BY <3>1, <3>2, <3>3, <4>1, Part
      <4>3. QED BY <3>3, <4>2, Zenon
    <3>6. ASSUME NEW k \in 1 .. n + 1 PROVE new[k] = SubSeq(o, r + 1, m - 1)[k]
      <4>1. /\ r + 1 + k - 1 \in 1 .. m - 1 /\ r + 1 + k - 1 = r + k
            /\ 1 + (r + k) - 1 = r + k
        BY <3>3
      <4>2. SubSeq(o, r + 1, m - 1)[k] = o[r + 1 + k - 1]
        BY <3>5
      <4>3. o[r + k] = old[1 + (r + k) - 1]
        BY <3>2, <4>1
      <4>4. QED BY <2>5, <4>1, <4>2, <4>3
    <3>7. new = SubSeq(o, r + 1, m - 1)
      <4>1. n + 1 \in Nat
        OBVIOUS
      <4>2. QED BY <1>5, <3>5, <3>6, <4>1, SameValues
    <3>8. Len(o) - Len(new) + 1 = r + 1
      BY <1>5, <3>2, <3>3
    <3>9. QED BY <3>2, <3>4, <3>7, <3>8, Zenon DEF Abstract!Ending
  <2>8. Len(new) = Arity[f] + 1
    BY <1>5
  <2>9. QED BY <1>6, <2>6, <2>7, <2>8 DEF Abstract!Enters
<1>9. QED BY <1>7, <1>8 DEF Prepared, rest, new, old

(* A call is a step of Calls, or fails.                                      *)
LEMMA CallSteps ==
    ASSUME InterpInv, InterpInv', Tidy, mode = "running", NEW n \in Nat, NEW s, Prepared(s, n),
           NEW f, Call(s, f, n)
    PROVE  Refines
<1>1. CASE RuntimeError(s)
  BY <1>1, ErrorStops DEF Prepared
<1>2. CASE /\ n = Arity[f] /\ stack' = s
           /\ frames' = Append(frames, [closure |-> f, slots |-> Len(s) - n])
           /\ UNCHANGED <<mode, code>>
  <2> DEFINE fr == [closure |-> f, slots |-> Len(s) - n]
             old == CallsOf(frames, stack)
             new == CallsOf(frames', s)
             l == Len(frames)
  <2>1. /\ frames \in Seq(Frames) /\ stack \in Seq(Values) /\ s \in Seq(Values) /\ Kept(s)
        /\ Stacked(frames, stack) /\ Stacked(frames, s) /\ l \in 1 .. FRAMES_MAX
        /\ Slots = frames[l].slots /\ Len(s) - n > Slots
    BY SlotsInStack, KeptStacked DEF InterpInv, TypeOK, Frames, Slots, Last, Prepared
  <2>2. frames' \in Seq(Frames) /\ Stacked(frames', s)
    <3>1. Stacked(frames, stack)'
      BY DEF InterpInv
    <3>2. Stacked(frames', s)
      BY <1>2, <3>1 DEF Stacked, KnowsThis
    <3>3. QED BY <3>2 DEF InterpInv, TypeOK, Frames
  <2>3. /\ Len(frames') = l + 1 /\ frames'[l + 1] = fr /\ l \in Nat \ {0}
        /\ \A i \in 1 .. l : frames'[i] = frames[i]
    BY <1>2, <2>1
  <2>4. fr.closure = f /\ fr.slots = Len(s) - n
    OBVIOUS
  <2> HIDE DEF fr
  <2>5. /\ old \in Seq(CallRecords) /\ Len(old) = l
        /\ \A i \in 1 .. l : /\ old[i].closure = frames[i].closure
                             /\ old[i].operands = OperandsOf(frames, stack, i)
        /\ OperandsOf(frames, stack, l) = Top(stack)
    BY <2>1, CallsSeq DEF Top
  <2>6. /\ new \in Seq(CallRecords) /\ Len(new) = l + 1
        /\ \A i \in 1 .. l + 1 : /\ new[i].closure = frames'[i].closure
                                 /\ new[i].operands = OperandsOf(frames', s, i)
    BY <2>1, <2>2, <2>3, CallsSeq
  <2>7. \A i \in 1 .. l : OperandsOf(frames', s, i) = SubSeq(s, frames'[i].slots, frames'[i + 1].slots - 1)
    <3>1. Len(frames') - 1 = l
      BY <2>3
    <3>2. \A i \in 1 .. Len(frames') - 1 :
             OperandsOf(frames', s, i) = SubSeq(s, frames'[i].slots, frames'[i + 1].slots - 1)
      BY <2>1, <2>2, CallsSeq
    <3>3. QED BY <3>1, <3>2
  <2>8. ASSUME NEW i \in 1 .. l - 1 PROVE new[i] = old[i]
    <3>1. i \in 1 .. l /\ i + 1 \in 1 .. l /\ i \in 1 .. Len(frames) - 1
      BY <2>3
    <3>2. frames'[i] = frames[i] /\ frames'[i + 1] = frames[i + 1]
      BY <2>3, <3>1
    <3>3. OperandsOf(frames', s, i) = SubSeq(s, frames[i].slots, frames[i + 1].slots - 1)
      BY <2>7, <3>1, <3>2
    <3>4. OperandsOf(frames, s, i) = SubSeq(s, frames[i].slots, frames[i + 1].slots - 1)
      BY <2>1, <3>1, CallsSeq
    <3>5. OperandsOf(frames, s, i) = OperandsOf(frames, stack, i)
      BY <2>1, <3>1, OthersKeep
    <3>6. OperandsOf(frames', s, i) = OperandsOf(frames, stack, i)
      BY <3>3, <3>4, <3>5
    <3>7. i \in 1 .. Len(frames) /\ i \in 1 .. Len(frames')
      BY <2>3, <3>1
    <3>8. QED BY <3>2, <3>6, <3>7 DEF CallsOf
  <2>9. new[l].closure = old[l].closure /\ new[l].operands = SubSeq(s, Slots, Len(s) - n - 1)
    <3>1. l \in 1 .. l /\ l \in 1 .. l + 1 /\ frames'[l] = frames[l]
      BY <2>3
    <3>2. OperandsOf(frames', s, l) = SubSeq(s, frames'[l].slots, frames'[l + 1].slots - 1)
      BY <2>7, <3>1
    <3>3. frames'[l].slots = Slots /\ frames'[l + 1].slots = Len(s) - n
      BY <2>1, <2>3, <2>4, <3>1
    <3>4. new[l].operands = OperandsOf(frames', s, l) /\ new[l].closure = old[l].closure
      BY <2>5, <2>6, <3>1
    <3>5. QED BY <3>2, <3>3, <3>4
  <2>10. new[l + 1].closure = f /\ new[l + 1].operands = SubSeq(s, Len(s) - n, Len(s))
    <3>1. l + 1 \in 1 .. l + 1
      BY <2>3
    <3>2. OperandsOf(frames', s, l + 1) = SubSeq(s, frames'[l + 1].slots, Len(s))
      <4>1. OperandsOf(frames', s, Len(frames')) = SubSeq(s, frames'[Len(frames')].slots, Len(s))
        BY <2>1, <2>2, CallsSeq
      <4>2. QED BY <2>3, <4>1
    <3>3. QED BY <2>3, <2>4, <2>6, <3>1, <3>2
  <2>11. Abstract!Enters(Top(stack), SubSeq(s, Slots, Len(s) - n - 1),
                         f, SubSeq(s, Len(s) - n, Len(s)))
    BY <1>2, EntersCallee
  <2>12. old[l].operands = Top(stack)
    <3>1. l \in 1 .. l
      BY <2>3
    <3>2. QED BY <2>5, <3>1
  <2> HIDE DEF old, new
  <2>13. ButLast(new, 2) = ButLast(old, 1)
    <3>1. l - 1 \in Int /\ l - 1 <= Len(old) /\ l - 1 <= Len(new) /\ Len(new) - 2 = l - 1 /\ Len(old) - 1 = l - 1
      BY <2>3, <2>5, <2>6
    <3>2. SubSeq(new, 1, l - 1) = SubSeq(old, 1, l - 1)
      BY <2>5, <2>6, <2>8, <3>1, SameParts
    <3>3. QED BY <3>1, <3>2 DEF ButLast
  <2>14. Abstract!Enters(old[l].operands, new[l].operands, new[l + 1].closure, new[l + 1].operands)
    BY <2>9, <2>10, <2>11, <2>12
  <2>15. StepOf(old, new)
    BY <2>5, <2>6, <2>9, <2>13, <2>14 DEF StepOf
  <2>16. Abstract!Step
    BY <1>2, <2>15, StepIs DEF old, new
  <2>17. Tidy'
    <3>1. frames'[1] = frames[1]
      BY <2>3
    <3>2. mode' = "running" /\ frames # <<>>
      BY <1>2, <2>1, <2>3
    <3>3. QED BY <3>1, <3>2 DEF Tidy
  <2>18. QED BY <2>16, <2>17 DEF Refines
<1>3. QED BY <1>1, <1>2 DEF Call

(* A call that gets an operand.                                             *)
LEMMA Appended ==
    ASSUME NEW c \in CallRecords, NEW v
    PROVE  [c EXCEPT !.operands = Append(@, v)] =
               [closure |-> c.closure, operands |-> Append(c.operands, v)]
<1> DEFINE o == Append(c.operands, v)
<1>1. c = [closure |-> c.closure, operands |-> c.operands]
  BY DEF CallRecords
<1> HIDE DEF o
<1>2. [c EXCEPT !.operands = o] = [closure |-> c.closure, operands |-> o]
  BY <1>1 DEF CallRecords
<1>3. QED BY <1>2 DEF o

(* The caller of a call that returns gets one value.                         *)
LEMMA ReturnSteps ==
    ASSUME InterpInv, InterpInv', Tidy, mode = "running", Holds(1), ButLast(frames, 1) # <<>>,
           stack' = Append(SubSeq(stack, 1, Slots - 1), Peek(0)),
           frames' = ButLast(frames, 1), UNCHANGED <<mode, code>>
    PROVE  Refines
<1> DEFINE s == Append(SubSeq(stack, 1, Slots - 1), Peek(0))
           fs == ButLast(frames, 1)
           old == CallsOf(frames, stack)
           new == CallsOf(fs, s)
           l == Len(frames)
           v == Peek(0)
<1>1. /\ frames \in Seq(Frames) /\ stack \in Seq(Values) /\ Stacked(frames, stack)
      /\ l \in 1 .. FRAMES_MAX /\ l \in Nat \ {0}
      /\ Slots = frames[l].slots /\ Slots \in 1 .. Len(stack) /\ Len(stack) >= Slots + 1
  BY SlotsInStack DEF InterpInv, TypeOK, Frames, Slots, Last, Holds
<1>2. v \in Values /\ v = stack[Len(stack)]
  <2>1. 1 \in Nat /\ 0 \in 0 .. 1 - 1 /\ Len(stack) - 0 = Len(stack)
    BY <1>1
  <2>2. QED BY <2>1, Operand DEF Peek
<1>3. /\ s \in Seq(Values) /\ Len(s) = Slots /\ s[Slots] = v
      /\ \A k \in 1 .. Slots - 1 : s[k] = stack[k]
  <2>1. /\ SubSeq(stack, 1, Slots - 1) \in Seq(Values) /\ Len(SubSeq(stack, 1, Slots - 1)) = Slots - 1
        /\ \A k \in 1 .. Slots - 1 : SubSeq(stack, 1, Slots - 1)[k] = stack[k]
    BY <1>1
  <2> HIDE DEF v
  <2>2. QED BY <1>1, <1>2, <2>1, AppendProperties DEF v
<1>4. fs \in Seq(Frames) /\ Stacked(fs, s)
  <2>1. Stacked(frames, stack)'
    BY DEF InterpInv
  <2>2. Stacked(fs, s)
    BY <2>1 DEF Stacked, KnowsThis
  <2>3. QED BY <2>2 DEF InterpInv, TypeOK, Frames
<1>5. Len(fs) = l - 1 /\ \A i \in 1 .. l - 1 : fs[i] = frames[i]
  <2>1. 1 \in 0 .. Len(frames)
    BY <1>1
  <2>2. QED BY <1>1, <2>1, FewerFrames
<1>6. l > 1
  <2>1. Len(fs) # 0
    BY <1>4, EmptySeq
  <2>2. QED BY <1>1, <1>5, <2>1
<1>7. stack' = s /\ frames' = fs
  OBVIOUS
<1> HIDE DEF s, fs
<1>8. /\ old \in Seq(CallRecords) /\ Len(old) = l
      /\ \A i \in 1 .. l : /\ old[i].closure = frames[i].closure
                           /\ old[i].operands = OperandsOf(frames, stack, i)
                           /\ old[i] \in CallRecords
      /\ \A i \in 1 .. l - 1 :
            OperandsOf(frames, stack, i) = SubSeq(stack, frames[i].slots, frames[i + 1].slots - 1)
      /\ OperandsOf(frames, stack, l) = Top(stack)
  BY <1>1, CallsSeq DEF Top
<1>9. /\ new \in Seq(CallRecords) /\ Len(new) = l - 1
      /\ \A i \in 1 .. l - 1 : /\ new[i].closure = fs[i].closure
                               /\ new[i].operands = OperandsOf(fs, s, i)
                               /\ new[i] \in CallRecords
      /\ OperandsOf(fs, s, l - 1) = SubSeq(s, fs[l - 1].slots, Len(s))
  BY <1>3, <1>4, <1>5, CallsSeq
<1>10. ASSUME NEW i \in 1 .. l - 2 PROVE new[i] = old[i]
  <2> DEFINE a == frames[i].slots
             b == frames[i + 1].slots - 1
  <2>1. i \in 1 .. l - 1 /\ i + 1 \in 1 .. l - 1 /\ i \in 1 .. Len(fs) - 1 /\ i \in 1 .. l /\ i + 1 \in 1 .. l /\ i + 1 < l /\ l \in 1 .. l
    BY <1>1, <1>5
  <2>2. fs[i] = frames[i] /\ fs[i + 1] = frames[i + 1]
    BY <1>5, <2>1
  <2>3. OperandsOf(fs, s, i) = SubSeq(s, a, b)
    <3>1. \A j \in 1 .. Len(fs) - 1 :
             OperandsOf(fs, s, j) = SubSeq(s, fs[j].slots, fs[j + 1].slots - 1)
      BY <1>3, <1>4, CallsSeq
    <3>2. OperandsOf(fs, s, i) = SubSeq(s, fs[i].slots, fs[i + 1].slots - 1)
      BY <2>1, <3>1
    <3>3. QED BY <2>2, <3>2
  <2>4. OperandsOf(frames, stack, i) = SubSeq(stack, a, b)
    BY <1>8, <2>1
  <2>5. frames[i] \in Frames /\ frames[i + 1] \in Frames
    <3>1. \A j \in 1 .. l : frames[j] \in Frames
      BY <1>1
    <3>2. QED BY <2>1, <3>1
  <2>6. frames[i + 1].slots < Slots
    BY <1>1, <2>1 DEF Stacked
  <2>7. a \in Nat \ {0} /\ b \in Int /\ b <= Slots - 1
    <3>1. frames[i].slots \in Nat \ {0} /\ frames[i + 1].slots \in Nat \ {0}
      BY <2>5 DEF Frames
    <3>2. Slots \in Nat
      BY <1>1
    <3>3. QED BY <2>6, <3>1, <3>2
  <2> HIDE DEF a, b
  <2>8. b <= Len(s) /\ b <= Len(stack) /\ \A k \in a .. b : s[k] = stack[k]
    <3>1. Slots \in Nat \ {0} /\ Len(stack) \in Nat /\ Slots <= Len(stack)
      BY <1>1
    <3>2. \A k \in a .. b : k \in 1 .. Slots - 1
      BY <2>7, <3>1
    <3>3. QED BY <1>3, <2>7, <3>1, <3>2
  <2>9. SubSeq(s, a, b) = SubSeq(stack, a, b)
    BY <1>1, <1>3, <2>7, <2>8, SameParts
  <2>10. OperandsOf(fs, s, i) = OperandsOf(frames, stack, i)
    BY <2>3, <2>4, <2>9
  <2>11. i \in 1 .. Len(frames) /\ i \in 1 .. Len(fs)
    BY <1>5, <2>1
  <2>12. QED BY <2>2, <2>10, <2>11 DEF CallsOf
<1>11. l - 1 \in 1 .. l - 1 /\ l - 1 \in 1 .. l /\ l \in 1 .. l /\ l - 1 + 1 = l /\ l - 1 < l
  BY <1>1, <1>6
<1>12. new[l - 1].operands = Append(old[l - 1].operands, v) /\ new[l - 1].closure = old[l - 1].closure
  <2> DEFINE a == frames[l - 1].slots
             x == SubSeq(stack, a, Slots - 1)
             y == SubSeq(s, a, Slots)
  <2>1. fs[l - 1] = frames[l - 1] /\ frames[l - 1] \in Frames
    BY <1>1, <1>5, <1>11
  <2>2. new[l - 1].operands = y /\ new[l - 1].closure = old[l - 1].closure
    BY <1>3, <1>8, <1>9, <1>11, <2>1
  <2>3. old[l - 1].operands = x
    BY <1>1, <1>8, <1>11
  <2>4. a < Slots
    BY <1>1, <1>11 DEF Stacked
  <2>5. a \in Nat \ {0} /\ Slots - 1 \in Nat /\ Slots \in Nat /\ Slots - 1 <= Len(stack)
    <3>1. a \in Nat \ {0}
      BY <2>1 DEF Frames
    <3>2. Slots \in Nat \ {0} /\ Slots <= Len(stack) /\ Len(stack) \in Nat
      BY <1>1
    <3>3. QED BY <3>1, <3>2
  <2> HIDE DEF a
  <2>6. /\ x \in Seq(Values) /\ Len(x) = (Slots - 1) - a + 1
        /\ \A k \in 1 .. (Slots - 1) - a + 1 : x[k] = stack[a + k - 1]
    <3>1. a <= (Slots - 1) + 1
      BY <2>4, <2>5
    <3>2. stack \in Seq(Values)
      BY <1>1
    <3>3. QED BY <2>5, <3>1, <3>2, Part
  <2>7. /\ y \in Seq(Values) /\ Len(y) = Slots - a + 1
        /\ \A k \in 1 .. Slots - a + 1 : y[k] = s[a + k - 1]
    <3>1. a <= Slots + 1 /\ Slots <= Len(s)
      BY <1>3, <2>4, <2>5
    <3>2. QED BY <1>3, <2>5, <3>1, Part
  <2> DEFINE n == Slots - a
  <2>8. n \in Nat /\ Len(x) = n /\ Len(y) = n + 1
    BY <2>4, <2>5, <2>6, <2>7
  <2>9. \A k \in 1 .. n : x[k] = y[k]
    <3> SUFFICES ASSUME NEW k \in 1 .. n PROVE x[k] = y[k]
      OBVIOUS
    <3>1. k \in 1 .. (Slots - 1) - a + 1 /\ k \in 1 .. Slots - a + 1 /\ a + k - 1 \in 1 .. Slots - 1
      BY <2>4, <2>5
    <3>2. x[k] = stack[a + k - 1] /\ y[k] = s[a + k - 1]
      BY <2>6, <2>7, <3>1
    <3>3. QED BY <1>3, <3>1, <3>2
  <2>10. y[n + 1] = v
    <3>1. n + 1 \in 1 .. Slots - a + 1 /\ a + (n + 1) - 1 = Slots
      BY <2>4, <2>5
    <3>2. y[n + 1] = s[a + (n + 1) - 1]
      BY <2>7, <3>1
    <3>3. QED BY <1>3, <3>1, <3>2
  <2> HIDE DEF x, y, n, v
  <2>11. /\ Append(x, v) \in Seq(Values) /\ Len(Append(x, v)) = n + 1
         /\ \A k \in 1 .. n : Append(x, v)[k] = x[k]
         /\ Append(x, v)[n + 1] = v
    BY <1>2, <2>6, <2>8, AppendProperties
  <2>12. \A k \in 1 .. n + 1 : y[k] = Append(x, v)[k]
    <3>1. \A k \in 1 .. n + 1 : k \in 1 .. n \/ k = n + 1
      BY <2>8
    <3>2. QED BY <2>9, <2>10, <2>11, <3>1
  <2>13. n + 1 \in Nat
    BY <2>8
  <2>14. y = Append(x, v)
    BY <2>7, <2>8, <2>11, <2>12, <2>13, SameValues
  <2>15. QED BY <2>2, <2>3, <2>14
<1>13. Last(old[l].operands) = v
  <2>1. old[l].operands = Top(stack)
    BY <1>8, <1>11
  <2>2. /\ Len(Top(stack)) = Len(stack) - Slots + 1 /\ Slots \in Nat \ {0} /\ Len(stack) \in Nat
        /\ \A k \in 1 .. Len(stack) - Slots + 1 : Top(stack)[k] = stack[Slots + k - 1]
    BY TopOfStack
  <2> DEFINE k == Len(stack) - Slots + 1
  <2>3. k \in 1 .. k /\ Slots + k - 1 = Len(stack)
    <3>1. Slots <= Len(stack)
      BY TopOfStack
    <3>2. QED BY <2>2, <3>1
  <2>4. Top(stack)[k] = stack[Slots + k - 1]
    BY <2>2, <2>3
  <2> HIDE DEF v
  <2>5. QED BY <1>2, <2>1, <2>2, <2>3, <2>4 DEF Last
<1> HIDE DEF old, new, v
<1> DEFINE p == ButLast(old, 1)
           w == Last(old[l].operands)
           x == [p EXCEPT ![l - 1].operands = Append(@, w)]
<1>14. p \in Seq(CallRecords) /\ Len(p) = l - 1 /\ \A i \in 1 .. l - 1 : p[i] = old[i]
  <2>1. /\ SubSeq(old, 1, l - 1) \in Seq(CallRecords) /\ Len(SubSeq(old, 1, l - 1)) = l - 1
        /\ \A i \in 1 .. l - 1 : SubSeq(old, 1, l - 1)[i] = old[i]
    <3> HIDE DEF l
    <3>1. QED BY <1>1, <1>8
  <2>2. QED BY <1>8, <2>1 DEF ButLast
<1> DEFINE q == [p[l - 1] EXCEPT !.operands = Append(@, w)]
<1>15. q = new[l - 1]
  <2>1. /\ old[l - 1] \in CallRecords /\ new[l - 1] \in CallRecords /\ p[l - 1] = old[l - 1]
    BY <1>8, <1>9, <1>11, <1>14
  <2>2. w = v
    BY <1>13
  <2> DEFINE c == old[l - 1]
  <2>3. q = [closure |-> c.closure, operands |-> Append(c.operands, v)]
    <3>1. q = [c EXCEPT !.operands = Append(@, v)]
      BY <2>1, <2>2
    <3> HIDE DEF c, q
    <3>2. c \in CallRecords
      BY <2>1 DEF c
    <3>3. QED BY <3>1, <3>2, Appended
  <2>4. new[l - 1] = [closure |-> new[l - 1].closure, operands |-> new[l - 1].operands]
    BY <2>1 DEF CallRecords
  <2>5. QED BY <1>12, <2>3, <2>4
<1>16. x = [p EXCEPT ![l - 1] = q]
  OBVIOUS
<1> HIDE DEF q, w, x, p, l
<1>17. x = new
  <2>1. q \in CallRecords
    BY <1>9, <1>11, <1>15
  <2>2. /\ x \in Seq(CallRecords) /\ Len(x) = l - 1
        /\ \A j \in 1 .. l - 1 : x[j] = IF j = l - 1 THEN q ELSE p[j]
    BY <1>11, <1>14, <1>16, <2>1, ExceptSeq
  <2>3. \A j \in 1 .. l - 1 : j # l - 1 => j \in 1 .. l - 2
    BY <1>1
  <2>4. \A j \in 1 .. l - 1 : x[j] = new[j]
    BY <1>10, <1>14, <1>15, <2>2, <2>3
  <2>5. QED BY <1>9, <2>2, <2>4, SeqEqual
<1>18. StepOf(old, new)
  <2>1. Len(new) = Len(old) - 1 /\ Len(old) > 1
    BY <1>6, <1>8, <1>9
  <2>2. new = [ButLast(old, 1) EXCEPT
                   ![Len(old) - 1].operands = Append(@, Last(old[Len(old)].operands))]
    BY <1>8, <1>17 DEF x, p, w
  <2>3. QED BY <2>1, <2>2 DEF StepOf
<1>19. Abstract!Step
  BY <1>7, <1>18, StepIs DEF old, new
<1>20. Tidy'
  <2>1. fs[1] = frames[1] /\ frames # <<>>
    BY <1>1, <1>5, <1>6 DEF l
  <2>2. QED BY <1>7, <2>1 DEF Tidy
<1>21. QED BY <1>19, <1>20 DEF Refines


-----------------------------------------------------------------------------
(* Instructions as steps of Calls.                                         *)

LEMMA FailSteps ==
    ASSUME InterpInv, RuntimeError(stack)
    PROVE  Refines
<1>1. stack \in Seq(Values)
  BY DEF InterpInv, TypeOK
<1>2. QED BY <1>1, ErrorStops

(* The three ways to prepare a stack for a call.                             *)
LEMMA PreparedStack ==
    ASSUME InterpInv, NEW n \in Nat, Holds(n + 1)
    PROVE  Prepared(stack, n)
<1>1. Len(stack) - n > Slots
  BY Received, Made
<1>2. Kept(stack) /\ stack \in Seq(Values)
  BY KeptStack DEF Kept, Holds
<1>3. QED BY <1>1, <1>2 DEF Prepared

LEMMA PreparedReceiver ==
    ASSUME InterpInv, NEW n \in Nat, Holds(n + 1), NEW v \in Values
    PROVE  Prepared(WithReceiver(v, n), n)
<1> DEFINE s == WithReceiver(v, n)
<1>1. Kept(s) /\ Len(s) = Len(stack) /\ Len(stack) - n > Slots
  BY Received
<1>2. \A k \in 1 .. Len(stack) : k # Len(stack) - n => s[k] = stack[k]
  <2>1. stack \in Seq(Values)
    BY DEF InterpInv, TypeOK
  <2>2. QED BY <2>1 DEF WithReceiver
<1> HIDE DEF s
<1>3. Prepared(s, n)
  BY <1>1, <1>2 DEF Prepared, Kept
<1>4. QED BY <1>3 DEF s

LEMMA PreparedSuper ==
    ASSUME InterpInv, NEW n \in Nat, Holds(n + 2)
    PROVE  Prepared(ButLast(stack, 1), n)
<1> DEFINE s == ButLast(stack, 1)
<1>1. Slots \in 1 .. Len(stack) /\ stack \in Seq(Values) /\ Len(stack) >= Slots + (n + 2)
  BY SlotsInStack DEF Holds
<1>2. 1 \in Nat /\ Holds(1)
  BY <1>1 DEF Holds
<1>3. Kept(s) /\ Len(s) = Len(stack) - 1 /\ \A k \in 1 .. Len(stack) - 1 : s[k] = stack[k]
  BY <1>2, KeptPop
<1> HIDE DEF s
<1>4. Len(s) - n > Slots
  BY <1>1, <1>3
<1>5. Prepared(s, n)
  BY <1>3, <1>4 DEF Prepared, Kept
<1>6. QED BY <1>5 DEF s

LEMMA CallValueSteps ==
    ASSUME InterpInv, InterpInv', Tidy, NEW n \in Nat, Holds(n + 1), NEW s, Prepared(s, n),
           NEW callee \in Values, CallValue(s, callee, n)
    PROVE  Refines
<1>1. mode = "running"
  BY DEF Holds
<1>2. CASE CallBound(callee, n)
  <2>1. callee.class \in Classes
    BY <1>2, Kinds DEF CallBound
  <2>2. Prepared(WithReceiver(Instance(callee.class), n), n)
    BY <2>1, Made, PreparedReceiver
  <2>3. QED BY <1>1, <1>2, <2>2, CallSteps DEF CallBound
<1>3. CASE CallClass(callee, n)
  <2> DEFINE c == callee.class
             r == WithReceiver(Instance(c), n)
  <2>1. c \in Classes
    BY <1>3, Kinds DEF CallClass
  <2>2. Instance(c) \in Values
    BY <2>1, Made
  <2>3. Prepared(r, n)
    BY <2>2, PreparedReceiver
  <2>4. \/ Call(r, Methods[c][InitName], n)
        \/ Go(r) \/ RuntimeError(r)
    BY <1>3 DEF CallClass
  <2>5. CASE Call(r, Methods[c][InitName], n)
    <3> HIDE DEF r
    <3>1. QED BY <1>1, <2>3, <2>5, CallSteps
  <2>6. CASE Go(r)
    <3>1. n + 1 \in Nat /\ n \in 0 .. (n + 1) - 1
      OBVIOUS
    <3>2. Len(stack) - n \in Slots + 1 .. Len(stack)
      BY <3>1, Operand
    <3>3. Go([stack EXCEPT ![Len(stack) - n] = Instance(c)])
      BY <2>6 DEF WithReceiver
    <3> HIDE DEF c, r
    <3>4. QED BY <1>1, <2>2, <3>2, <3>3, UpdateSteps
  <2>7. CASE RuntimeError(r)
    <3> HIDE DEF r
    <3>1. QED BY <2>3, <2>7, ErrorStops DEF Prepared
  <2>8. QED BY <2>4, <2>5, <2>6, <2>7
<1>4. CASE CallNative(callee, n)
  <2>1. PICK result \in {Number, Table} : Go(Append(ButLast(stack, n + 1), result))
    BY <1>4 DEF CallNative
  <2>2. n + 1 \in Nat /\ result \in Values
    BY Made
  <2>3. QED BY <2>1, <2>2, ReplaceSteps
<1>5. CASE callee.kind = "closure" /\ Call(s, callee.closure, n)
  BY <1>1, <1>5, CallSteps
<1>6. CASE RuntimeError(s)
  BY <1>6, ErrorStops DEF Prepared
<1>7. QED BY <1>2, <1>3, <1>4, <1>5, <1>6 DEF CallValue

LEMMA InvokeSteps ==
    ASSUME InterpInv, InterpInv', Tidy, mode = "running", NEW n \in Nat, NEW s, Prepared(s, n),
           NEW c, NEW name, InvokeFromClass(s, c, name, n)
    PROVE  Refines
<1>1. CASE Call(s, Methods[c][name], n)
  BY <1>1, CallSteps
<1>2. CASE RuntimeError(s)
  BY <1>2, ErrorStops DEF Prepared
<1>3. QED BY <1>1, <1>2 DEF InvokeFromClass

LEMMA OpCallSteps ==
    ASSUME InterpInv, InterpInv', Tidy, NEW n \in Nat, OpCall(n)
    PROVE  Refines
<1>1. Holds(n + 1) /\ CallValue(stack, Peek(n), n)
  BY DEF OpCall
<1>2. n + 1 \in Nat /\ n \in 0 .. (n + 1) - 1
  OBVIOUS
<1>3. Peek(n) \in Values
  BY <1>1, <1>2, Operand
<1>4. QED BY <1>1, <1>3, PreparedStack, CallValueSteps

LEMMA OpInvokeSteps ==
    ASSUME InterpInv, InterpInv', Tidy, NEW n \in Nat, NEW name, OpInvoke(name, n)
    PROVE  Refines
<1>1. Holds(n + 1) /\ mode = "running"
  BY DEF OpInvoke, Holds
<1>2. \/ RuntimeError(stack)
      \/ \E v \in Storable : CallValue(WithReceiver(v, n), v, n)
      \/ InvokeFromClass(stack, Peek(n).class, name, n)
  BY DEF OpInvoke
<1>3. ASSUME NEW v \in Storable, CallValue(WithReceiver(v, n), v, n) PROVE Refines
  <2>1. v \in Values
    BY Made
  <2>2. Prepared(WithReceiver(v, n), n)
    BY <1>1, <2>1, PreparedReceiver
  <2>3. QED BY <1>1, <1>3, <2>1, <2>2, CallValueSteps
<1>4. CASE InvokeFromClass(stack, Peek(n).class, name, n)
  BY <1>1, <1>4, PreparedStack, InvokeSteps
<1>5. QED BY <1>2, <1>3, <1>4, FailSteps

LEMMA OpSuperInvokeSteps ==
    ASSUME InterpInv, InterpInv', Tidy, NEW n \in Nat, NEW name, OpSuperInvoke(name, n)
    PROVE  Refines
<1>1. /\ Holds(n + 2) /\ mode = "running"
      /\ InvokeFromClass(ButLast(stack, 1), Peek(0).class, name, n)
  BY DEF OpSuperInvoke, SuperOperands, Holds
<1>2. QED BY <1>1, PreparedSuper, InvokeSteps

(* A script that ends leaves nothing but itself and what it returns.         *)
LEMMA EndSteps ==
    ASSUME InterpInv, Tidy, ~MethodsRead, OpReturn, ButLast(frames, 1) = <<>>
    PROVE  Refines
<1>1. Holds(1) /\ mode = "running"
  BY DEF OpReturn, Holds
<1>2. /\ frames \in Seq(Frames) /\ stack \in Seq(Values) /\ Stacked(frames, stack)
      /\ frames # <<>> /\ Len(frames) \in Nat \ {0} /\ Slots = frames[Len(frames)].slots
  BY <1>1, SlotsInStack DEF InterpInv, TypeOK, Frames, Slots, Last
<1>3. Len(frames) = 1
  <2>1. 1 \in 0 .. Len(frames)
    BY <1>2
  <2>2. Len(ButLast(frames, 1)) = Len(frames) - 1
    BY <1>2, <2>1, FewerFrames
  <2>3. Len(ButLast(frames, 1)) = 0
    OBVIOUS
  <2>4. QED BY <1>2, <2>2, <2>3
<1>4. Slots = 1 /\ Last(frames).closure = Main
  BY <1>2, <1>3 DEF Tidy, Last
<1>5. Len(stack) = 2
  BY <1>4 DEF OpReturn
<1>6. ButLast(ButLast(stack, 1), 1) = <<>>
  BY <1>2, <1>5 DEF ButLast
<1>7. stack' = <<>> /\ frames' = <<>> /\ mode' = "idle" /\ code' = "ok"
  BY <1>6 DEF OpReturn, Finish
<1>8. Abstract!Stop("ok")
  <2>1. CallsOf(frames', stack') = <<>>
    BY <1>7, NoCalls
  <2>2. QED BY <1>7, <2>1, CallsAre DEF Abstract!Stop
<1>9. Len(CallsOf(frames, stack)) = 1 /\ Len(CallsOf(frames, stack)[1].operands) = 2
  <2>1. /\ Len(CallsOf(frames, stack)) = Len(frames)
        /\ CallsOf(frames, stack)[1].operands = OperandsOf(frames, stack, 1)
        /\ OperandsOf(frames, stack, 1) = Top(stack)
    BY <1>2, <1>3, CallsSeq DEF Top
  <2>2. Len(Top(stack)) = Len(stack) - Slots + 1
    BY <1>1, TopOfStack
  <2>3. QED BY <1>3, <1>4, <1>5, <2>1, <2>2
<1>10. Abstract!End
  BY <1>8, <1>9, CallsAre DEF Abstract!End
<1>11. Tidy'
  BY <1>7 DEF Tidy
<1>12. QED BY <1>10, <1>11 DEF Refines

LEMMA OpReturnSteps ==
    ASSUME InterpInv, InterpInv', Tidy, ~MethodsRead, OpReturn
    PROVE  Refines
<1>1. CASE ButLast(frames, 1) = <<>>
  BY <1>1, EndSteps
<1>2. CASE ButLast(frames, 1) # <<>>
  <2>1. /\ Holds(1) /\ mode = "running"
        /\ stack' = Append(SubSeq(stack, 1, Slots - 1), Peek(0))
        /\ frames' = ButLast(frames, 1) /\ UNCHANGED <<mode, code>>
    BY <1>2 DEF OpReturn, Holds
  <2>2. QED BY <1>2, <2>1, ReturnSteps
<1>3. QED BY <1>1, <1>2

LEMMA CallStepSteps ==
    ASSUME InterpInv, InterpInv', Tidy, ~MethodsRead, CallStep
    PROVE  Refines
<1>1. \A n \in 0 .. ArgBound : n \in Nat
  BY InterpAssumption
<1>2. QED
  BY <1>1, OpCallSteps, OpInvokeSteps, OpSuperInvokeSteps, OpReturnSteps DEF CallStep

(* A value on top of the operands.                                          *)
LEMMA PushSteps ==
    ASSUME InterpInv, Tidy, Holds(0), NEW v \in Values, Go(Append(stack, v))
    PROVE  Refines
<1>1. ButLast(stack, 0) = stack
  <2>1. stack \in Seq(Values) /\ Len(stack) \in Nat
    BY DEF InterpInv, TypeOK
  <2>2. 0 \in Nat
    OBVIOUS
  <2>3. /\ ButLast(stack, 0) \in Seq(Values) /\ Len(ButLast(stack, 0)) = Len(stack) - 0
        /\ \A k \in 1 .. Len(stack) - 0 : ButLast(stack, 0)[k] = stack[k]
    BY <2>2, KeptPop DEF Kept
  <2>4. Len(stack) - 0 = Len(stack)
    BY <2>1
  <2>5. QED BY <2>1, <2>3, <2>4, SameValues
<1>2. 0 \in Nat /\ Go(Append(ButLast(stack, 0), v))
  BY <1>1
<1>3. QED BY <1>2, ReplaceSteps

LEMMA OperandStepSteps ==
    ASSUME InterpInv, Tidy, OperandStep
    PROVE  Refines
<1>1. /\ 0 \in Nat /\ 1 \in Nat /\ 2 \in Nat /\ 3 \in Nat
      /\ 0 \in 0 .. 1 - 1 /\ 0 \in 0 .. 2 - 1 /\ 0 \in 0 .. 3 - 1
      /\ Number \in Values /\ String \in Values /\ Storable \subseteq Values
  BY Made
<1>2. ASSUME NEW v \in Storable, OpPush(v) PROVE Refines
  BY <1>1, <1>2, PushSteps DEF OpPush
<1>3. ASSUME NEW slot \in 1 .. Len(stack), OpGetLocal(slot) PROVE Refines
  <2>1. stack[slot] \in Values
    BY DEF InterpInv, TypeOK
  <2>2. QED BY <1>3, <2>1, PushSteps DEF OpGetLocal
<1>4. ASSUME NEW slot \in 1 .. Len(stack), OpSetLocal(slot) PROVE Refines
  <2>1. /\ Holds(1) /\ mode = "running" /\ slot \in Slots + 1 .. Len(stack)
        /\ Go([stack EXCEPT ![slot] = Peek(0)])
    BY <1>4 DEF OpSetLocal, Holds
  <2>2. Peek(0) \in Values
    BY <2>1, <1>1, Operand
  <2>3. QED BY <2>1, <2>2, UpdateSteps
<1>5. ASSUME OpPop PROVE Refines
  BY <1>1, <1>5, PopSteps DEF OpPop
<1>6. ASSUME UndefinedVariable PROVE Refines
  BY <1>6, FailSteps DEF UndefinedVariable
<1>7. ASSUME OpEqual PROVE Refines
  BY <1>1, <1>7, ReplaceSteps DEF OpEqual
<1>8. ASSUME BinaryOp PROVE Refines
  BY <1>1, <1>8, ReplaceSteps, FailSteps DEF BinaryOp
<1>9. ASSUME OpAdd PROVE Refines
  BY <1>1, <1>9, ReplaceSteps, FailSteps DEF OpAdd
<1>10. ASSUME OpNot PROVE Refines
  BY <1>1, <1>10, ReplaceSteps DEF OpNot
<1>11. ASSUME OpNegate PROVE Refines
  <2>1. Holds(1) /\ mode = "running" /\ (Go(stack) \/ RuntimeError(stack))
    BY <1>11 DEF OpNegate, Holds
  <2>2. ASSUME Go(stack) PROVE Refines
    <3> DEFINE k == Len(stack) - 0
    <3>1. Peek(0) \in Values /\ k \in Slots + 1 .. Len(stack)
      BY <1>1, <2>1, Operand
    <3>2. stack = [stack EXCEPT ![k] = Peek(0)]
      <4>1. stack \in Seq(Values)
        BY DEF InterpInv, TypeOK
      <4>2. QED BY <4>1 DEF Peek
    <3>3. Go([stack EXCEPT ![k] = Peek(0)])
      BY <2>2, <3>2
    <3> HIDE DEF k
    <3>4. QED BY <2>1, <3>1, <3>3, UpdateSteps
  <2>3. QED BY <2>1, <2>2, FailSteps
<1>12. ASSUME OpTableGet PROVE Refines
  <2>1. Holds(2) /\ mode = "running"
    BY <1>12 DEF OpTableGet, Holds
  <2>2. \/ RuntimeError(stack)
        \/ \E v \in Storable : Go(Append(ButLast(stack, 2), v))
        \/ RuntimeError(Append(ButLast(stack, 2), Number))
    BY <1>12 DEF OpTableGet
  <2>3. Append(ButLast(stack, 2), Number) \in Seq(Values)
    BY <1>1, <2>1, KeptPop, KeptAppend DEF Kept
  <2>4. QED BY <1>1, <2>1, <2>2, <2>3, FailSteps, ReplaceSteps, ErrorStops
<1>13. ASSUME OpTableSet PROVE Refines
  <2>1. Holds(3)
    BY <1>13 DEF OpTableSet
  <2>2. Peek(0) \in Values
    BY <1>1, <2>1, Operand
  <2>3. QED BY <1>1, <1>13, <2>1, <2>2, ReplaceSteps, FailSteps DEF OpTableSet
<1>14. QED
  BY <1>2, <1>3, <1>4, <1>5, <1>6, <1>7, <1>8, <1>9, <1>10, <1>11, <1>12, <1>13
     DEF OperandStep

LEMMA OpGetPropertySteps ==
    ASSUME InterpInv, Tidy, ~MethodsRead, NEW name, OpGetProperty(name)
    PROVE  Refines
<1>1. 1 \in Nat /\ Holds(1)
  BY DEF OpGetProperty
<1>2. \/ RuntimeError(stack)
      \/ \E v \in Storable : Go(Append(ButLast(stack, 1), v))
  BY DEF OpGetProperty
<1>3. QED BY <1>1, <1>2, Made, ReplaceSteps, FailSteps

LEMMA OpSetPropertySteps ==
    ASSUME InterpInv, Tidy, OpSetProperty
    PROVE  Refines
<1>1. 2 \in Nat /\ 0 \in 0 .. 2 - 1 /\ Holds(2)
  BY DEF OpSetProperty
<1>2. Peek(0) \in Values
  BY <1>1, Operand
<1>3. QED BY <1>1, <1>2, ReplaceSteps, FailSteps DEF OpSetProperty

LEMMA OpGetSuperSteps ==
    ASSUME InterpInv, Tidy, NEW name, OpGetSuper(name)
    PROVE  Refines
<1>1. 2 \in Nat
  OBVIOUS
<1>2. QED BY <1>1, BindsSuper, ErrorStops, ReplaceSteps

LEMMA PropertyStepSteps ==
    ASSUME InterpInv, Tidy, ~MethodsRead, PropertyStep
    PROVE  Refines
  BY OpGetPropertySteps, OpGetSuperSteps, OpSetPropertySteps DEF PropertyStep

(* A line begins with the call of its script, on an empty stack.             *)
LEMMA InterpretSteps ==
    ASSUME InterpInv, InterpInv', Tidy, Interpret
    PROVE  Refines
<1> DEFINE v == Closure(Main)
           fr == [closure |-> Main, slots |-> 1]
           c == CallsOf(frames', stack')
           call == [closure |-> Main, operands |-> <<v>>]
<1>1. /\ mode = "idle" /\ mode' = "running" /\ code' = code
      /\ stack = <<>> /\ frames = <<>>
  BY DEF Interpret, Tidy
<1>2. v \in Values
  BY Made
<1>3. Append(stack, v) = <<v>> /\ Len(Append(stack, v)) = 1
  BY <1>1
<1>4. Len(frames) # FRAMES_MAX
  BY <1>1, InterpAssumption
<1>5. stack' = <<v>> /\ frames' = Append(frames, fr)
  BY <1>3, <1>4 DEF Interpret
<1>6. fr \in Frames /\ fr.closure = Main /\ fr.slots = 1
  BY InterpAssumption DEF Frames
<1>7. <<v>> \in Seq(Values) /\ Len(<<v>>) = 1 /\ <<v>>[1] = v
  BY <1>2
<1> HIDE DEF v, fr
<1>8. frames' = <<fr>> /\ frames' \in Seq(Frames) /\ Len(frames') = 1 /\ frames'[1] = fr
  BY <1>1, <1>5, <1>6
<1>9. Stacked(frames', stack')
  BY DEF InterpInv, Stacked, KnowsThis
<1>10. /\ c \in Seq(CallRecords) /\ Len(c) = 1
       /\ c[1] = [closure |-> Main, operands |-> SubSeq(<<v>>, 1, 1)]
  <2>1. /\ c \in Seq(CallRecords) /\ Len(c) = Len(frames')
        /\ OperandsOf(frames', stack', Len(frames')) =
               SubSeq(stack', frames'[Len(frames')].slots, Len(stack'))
    BY <1>5, <1>7, <1>8, <1>9, CallsSeq
  <2>2. OperandsOf(frames', stack', 1) = SubSeq(<<v>>, 1, 1)
    BY <1>5, <1>6, <1>7, <1>8, <2>1
  <2>3. c[1] = [closure |-> frames'[1].closure, operands |-> OperandsOf(frames', stack', 1)]
    BY <1>8 DEF CallsOf
  <2> HIDE DEF c
  <2>4. QED BY <1>6, <1>8, <2>1, <2>2, <2>3
<1>11. SubSeq(<<v>>, 1, 1) = <<v>>
  <2>1. /\ SubSeq(<<v>>, 1, 1) \in Seq(Values) /\ Len(SubSeq(<<v>>, 1, 1)) = 1
        /\ SubSeq(<<v>>, 1, 1)[1] = v
    BY <1>7
  <2>2. \A k \in 1 .. 1 : SubSeq(<<v>>, 1, 1)[k] = <<v>>[k]
    BY <1>7, <2>1
  <2>3. 1 \in Nat
    OBVIOUS
  <2>4. QED BY <1>7, <2>1, <2>2, <2>3, SameValues
<1> HIDE DEF c
<1>12. c = <<call>>
  <2>1. c[1] = call
    BY <1>10, <1>11
  <2>2. call \in CallRecords
    BY <1>7, InterpAssumption DEF CallRecords
  <2> HIDE DEF call
  <2>3. <<call>> \in Seq(CallRecords) /\ Len(<<call>>) = 1 /\ <<call>>[1] = call
    BY <2>2
  <2>4. \A k \in 1 .. Len(c) : c[k] = <<call>>[k]
    BY <1>10, <2>1, <2>3
  <2>5. QED BY <1>10, <2>3, <2>4, SeqEqual
<1>13. Abstract!Start
  <2>1. [i \in 1 .. Len(frames) |-> [closure |-> frames[i].closure, operands |-> Operands(i)]]'
            = <<call>>
    BY <1>12, CallsAre DEF c
  <2>2. QED BY <1>1, <1>2, <2>1 DEF Abstract!Start
<1>14. Tidy'
  BY <1>1, <1>6, <1>8 DEF Tidy
<1>15. QED BY <1>13, <1>14 DEF Refines

LEMMA CompileErrorSteps ==
    ASSUME Tidy, CompileError
    PROVE  Refines
<1>1. stack' = <<>> /\ frames' = <<>> /\ mode' = "idle" /\ code' = "error"
  BY DEF CompileError, Tidy
<1>2. CallsOf(frames', stack') = <<>>
  BY <1>1, NoCalls
<1>3. Abstract!Stop("error")
  BY <1>1, <1>2, CallsAre DEF Abstract!Stop
<1>4. Tidy'
  BY <1>1 DEF Tidy
<1>5. QED BY <1>3, <1>4 DEF Refines

LEMMA NextSteps ==
    ASSUME InterpInv, InterpInv', Tidy, ~MethodsRead, Next
    PROVE  Refines
  BY CallStepSteps, OperandStepSteps, PropertyStepSteps, InterpretSteps, CompileErrorSteps
     DEF Next

(* A running machine has a call.                                            *)
LEMMA CallsRun ==
    ASSUME InterpInv, mode = "running"
    PROVE  CallsOf(frames, stack) # <<>>
<1>1. frames \in Seq(Frames) /\ stack \in Seq(Values) /\ Stacked(frames, stack) /\ Len(frames) # 0
  BY SlotsInStack DEF InterpInv, TypeOK, Frames
<1>2. Len(CallsOf(frames, stack)) = Len(frames)
  BY <1>1, CallsSeq
<1>3. Len(<<>>) = 0
  OBVIOUS
<1>4. QED BY <1>1, <1>2, <1>3

LEMMA MapStep ==
    ASSUME InterpInv, Tidy, ~MethodsRead, [Next]_vars
    PROVE  /\ Tidy'
           /\ [Abstract!Next]_<<[i \in 1 .. Len(frames) |->
                                   [closure |-> frames[i].closure, operands |-> Operands(i)]],
                                mode, code>>
<1> DEFINE calls == [i \in 1 .. Len(frames) |->
                       [closure |-> frames[i].closure, operands |-> Operands(i)]]
<1>1. CASE UNCHANGED vars
  <2>1. Tidy'
    BY <1>1 DEF Tidy, vars
  <2>2. UNCHANGED <<calls, mode, code>>
    BY <1>1, CallsAre DEF vars
  <2>3. QED BY <2>1, <2>2
<1>2. CASE Next
  <2>1. Refines
    BY <1>2, StepKeeps, NextSteps
  <2>2. ASSUME Abstract!Step PROVE Abstract!Next
    <3>1. mode = "running"
      BY <2>2 DEF Abstract!Step
    <3>2. calls # <<>>
      BY <3>1, CallsRun, CallsAre
    <3>3. QED BY <2>2, <3>2 DEF Abstract!Next
  <2>3. ASSUME Abstract!End PROVE Abstract!Next
    <3>1. Len(calls) = 1 /\ Len(<<>>) = 0
      BY <2>3 DEF Abstract!End
    <3>2. calls # <<>>
      BY <3>1
    <3>3. QED BY <2>3, <3>2 DEF Abstract!Next
  <2>4. QED BY <2>1, <2>2, <2>3 DEF Refines, Abstract!Next
<1>3. QED BY <1>1, <1>2

(* One stack and one sp serve every call as if it had a stack of its own: no   *)
(* instruction of a call reaches the operands of its caller or changes its    *)
(* slot 0, a call takes the called value and its arguments and returns one    *)
(* value in their place, a script that ends is told from one that fails, and  *)
(* every line of the REPL starts and ends in a clean machine.  A program that *)
(* reads a method as a property leaves its frames behind.                    *)
THEOREM ImplementsItsCalls ==
    ASSUME ~MethodsRead
    PROVE  Spec => ImplementsCalls
<1>1. ASSUME Init PROVE Tidy /\ Abstract!Init
  <2>1. stack = <<>> /\ frames = <<>> /\ mode = "idle" /\ code = "ok"
    BY <1>1 DEF Init
  <2>2. CallsOf(frames, stack) = <<>>
    BY <2>1, NoCalls
  <2>3. QED BY <2>1, <2>2, CallsAre DEF Tidy, Abstract!Init
<1>2. InterpInv /\ Tidy /\ [Next]_vars =>
        /\ Tidy'
        /\ [Abstract!Next]_<<[i \in 1 .. Len(frames) |->
                                [closure |-> frames[i].closure, operands |-> Operands(i)]],
                             mode, code>>
  BY MapStep
<1>3. QED
  BY <1>1, <1>2, CallsAreStacked, PTL DEF Spec, ImplementsCalls, Abstract!Spec
=============================================================================
