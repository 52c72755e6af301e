------------------------ MODULE TaggedSlots_proofs ------------------------
(***************************************************************************)
(* For all types, layouts, bounds and programs, under conditions on the    *)
(* program that the code does not establish itself: an object the program  *)
(* can read is one the collector finds, what the collector follows is a    *)
(* reference, values are of their validated types and casts tell them      *)
(* apart.                                                                  *)
(***************************************************************************)
EXTENDS TaggedSlots, SequenceTheorems, FiniteSetTheorems, NaturalsInduction, WellFoundedInduction, TLAPS

\* gc_field_is_ref's test of a field is right: no vector lies before a reference or
\* where one would be.
LayoutAgrees ==
  \A s \in StructType : \A f \in DOMAIN Fields[s] : GcFieldIsRef(s, f) <=> FieldIsRef(Fields[s][f])

\* The run-time tag of an exception's parameter is known from its type.
ParamsStatic ==
  \A x \in Tag : \A k \in DOMAIN Params[x] :
    FieldIsRef(Params[x][k]) => Params[x][k].ht # "any" /\ ~Params[x][k].null

\* No global is seen by two instances.
GlobalsPrivate == \A g \in Global : \A i, j \in Sees[g] : i = j

\* ref.as_non_null is used on handles only.
AsNonNullOnHandles == AsNonNullAt \subseteq {"func", "i31"}

\* array.new, which keeps the initial value in a C local while it allocates, is used for
\* elements the collector does not follow only.
ArrayNewOnScalars == \A a \in ArrayNewAt : ~ FieldIsRef(Elem[a])

-----------------------------------------------------------------------------
(* The invariant                                                           *)

\* A value v with tag t is what a slot of the validated type vt may hold: an object is
\* tagged as one and the collector would follow a field of that type, and a type all of
\* whose values are objects leaves no doubt about the tag.
Honest(v, t, vt) ==
  /\ v \in Obj => t = "T_GCREF" /\ FieldIsRef(vt)
  /\ vt.ht \in Aggregate \cup {"exn"} /\ ~vt.null => t = "T_GCREF"

HonestSlot == {s \in [v : Value, t : ValueTag, st : ValType] : Honest(s.v, s.t, s.st)}
LocalSlot == [v : Value, t : ValueTag]
HonestFrame ==
  {fr \in [inst : Inst, base : Nat, locals : [DOMAIN LocalTypes -> LocalSlot]] :
     \A l \in DOMAIN LocalTypes : Honest(fr.locals[l].v, fr.locals[l].t, LocalTypes[l])}

HonestGlobals ==
  /\ gval \in [Global -> Value] /\ gtag \in [Inst -> [Global -> ValueTag]]
  /\ \A g \in Global : \A i \in Sees[g] : Honest(gval[g], gtag[i][g], GlobalType[g])

\* An object is of a known shape, and its references lie where the collector looks.
HonestObject(ob, rtts) ==
  /\ ob \in [type : Aggregate \cup Tag, cells : Seq(Value), tags : Seq(ValueTag)]
  /\ \A c \in DOMAIN ob.cells : ob.cells[c] \in Obj => c \in Traced(ob, rtts)
  /\ ob.type \in StructType => DOMAIN ob.cells = 1 .. StructSize(ob.type)
  /\ ob.type \in Aggregate => ob.tags = << >>
  /\ ob.type \in Tag =>
       /\ ob.type \in DOMAIN rtts
       /\ DOMAIN ob.cells = DOMAIN Params[ob.type] /\ DOMAIN ob.tags = DOMAIN Params[ob.type]
       /\ \A k \in DOMAIN Params[ob.type] : Honest(ob.cells[k], ob.tags[k], Params[ob.type][k])

HonestHeap(h, rtts) == \A o \in DOMAIN h : HonestObject(h[o], rtts)
HonestRtts(rtts) ==
  \A x \in DOMAIN rtts : x \in Tag /\ \A k \in DOMAIN Params[x] : FieldIsRef(Params[x][k]) => k \in rtts[x]

SlotsInv ==
  /\ stack \in Seq(HonestSlot) /\ frames \in Seq(HonestFrame)
  /\ HonestGlobals /\ HonestHeap(heap, exn_rtts) /\ HonestRtts(exn_rtts)

-----------------------------------------------------------------------------
(* Layouts                                                                 *)

\* A set of natural numbers has a least element.
LEMMA LeastNumber ==
  ASSUME NEW S \in SUBSET Nat, S # {}
  PROVE  \E m \in S : \A k \in S : m <= k
<1>1. IsWellFoundedOn(OpToRel(<, Nat), Nat)
  BY NatLessThanWellFounded
<1>2. PICK m \in S : \A k \in S : <<k, m>> \notin OpToRel(<, Nat)
  BY <1>1, WFMin
<1>3. \A k \in S : ~ (k < m)
  BY <1>2 DEF OpToRel
<1> QED
  BY <1>3

LEMMA FieldsAreSeq ==
  ASSUME NEW s \in StructType
  PROVE  /\ Fields[s] \in Seq(ValType) /\ Len(Fields[s]) \in Nat /\ DOMAIN Fields[s] = 1 .. Len(Fields[s])
         /\ \A f \in DOMAIN Fields[s] : Fields[s][f] \in ValType
<1>1. Fields[s] \in Seq(ValType)
  BY SlotsAssumption
<1>2. Len(Fields[s]) \in Nat /\ DOMAIN Fields[s] = 1 .. Len(Fields[s])
  BY <1>1, LenProperties
<1> QED
  BY <1>1, <1>2, ElementOfSeq

\* build_rtts adds the widths of the fields.
LEMMA OffsetUnfolds ==
  ASSUME NEW s \in StructType
  PROVE  /\ Offset(s, 1) = 1
         /\ \A k \in DOMAIN Fields[s] : Offset(s, k + 1) = Offset(s, k) + Width(Fields[s][k])
<1> DEFINE last == Len(Fields[s]) + 1
           Step(f, k) == IF k = 1 THEN 1 ELSE f[k - 1] + Width(Fields[s][k - 1])
           Holds(f, n) == f = [k \in 1 .. n |-> Step(f, k)]
           bad == {n \in 1 .. last : ~ \E f : Holds(f, n)}
<1>1. last \in Nat \ {0} /\ DOMAIN Fields[s] = 1 .. last - 1
  BY FieldsAreSeq
<1> HIDE DEF last
<1>2. ASSUME NEW m \in bad, \A k \in bad : m <= k
      PROVE  FALSE
  <2>1. m \in 1 .. last /\ m \in Nat /\ m # 0
    BY <1>1
  <2>2. m # 1
    <3>1. SUFFICES ASSUME m = 1 PROVE \E f : Holds(f, m)
      OBVIOUS
    <3>2. \A k \in 1 .. m : k = 1
      BY <3>1
    <3>3. Holds([k \in 1 .. m |-> 1], m)
      BY <3>2
    <3> QED
      BY <3>3
  <2>3. m - 1 \in 1 .. last /\ m - 1 \in Nat
    BY <1>1, <2>1, <2>2
  <2>4. m - 1 \notin bad
    <3> HIDE DEF bad
    <3> QED
      BY <1>2, <2>1
  <2>5. PICK f : Holds(f, m - 1)
    BY <2>3, <2>4
  <2> DEFINE g == [k \in 1 .. m |-> IF k = m THEN Step(f, m) ELSE f[k]]
  <2>6. \A k \in 1 .. m - 1 : g[k] = f[k]
    BY <2>1
  <2>7. ASSUME NEW k \in 1 .. m
        PROVE  Step(g, k) = Step(f, k) /\ g[k] = Step(f, k)
    <3>1. k # 1 => k - 1 \in 1 .. m - 1
      BY <2>1
    <3>2. Step(g, k) = Step(f, k)
      <4> HIDE DEF g
      <4> QED
        BY <2>6, <3>1
    <3>3. k # m => f[k] = Step(f, k)
      <4>1. k # m => k \in 1 .. m - 1
        BY <2>1
      <4> QED
        BY <2>5, <4>1
    <3>4. g[k] = Step(f, k)
      <4> HIDE DEF Step
      <4> QED
        BY <3>3
    <3> QED
      BY <3>2, <3>4
  <2>8. Holds(g, m)
    <3>1. g = [k \in 1 .. m |-> g[k]]
      OBVIOUS
    <3> HIDE DEF g, Step
    <3> QED
      BY <2>7, <3>1
  <2> QED
    BY <2>8
<1>3. bad = {}
  <2>1. bad \in SUBSET Nat
    BY <1>1
  <2> HIDE DEF bad
  <2> QED
    BY <1>2, <2>1, LeastNumber
<1>4. \E f : f = [k \in 1 .. Len(Fields[s]) + 1 |-> IF k = 1 THEN 1 ELSE f[k - 1] + Width(Fields[s][k - 1])]
  <2>1. last \in 1 .. last
    BY <1>1
  <2>2. \E f : Holds(f, last)
    BY <1>3, <2>1
  <2> QED
    BY <2>2 DEF last
<1> HIDE DEF bad, Holds, Step
<1> DEFINE off == CHOOSE f : f = [k \in 1 .. Len(Fields[s]) + 1 |->
                                   IF k = 1 THEN 1 ELSE f[k - 1] + Width(Fields[s][k - 1])]
<1>5. off = [k \in 1 .. Len(Fields[s]) + 1 |-> IF k = 1 THEN 1 ELSE off[k - 1] + Width(Fields[s][k - 1])]
  BY <1>4, Zenon
<1>6. \A k : Offset(s, k) = off[k]
  BY DEF Offset
<1> HIDE DEF off
<1>7. \A k \in 1 .. last : off[k] = IF k = 1 THEN 1 ELSE off[k - 1] + Width(Fields[s][k - 1])
  BY <1>5 DEF last
<1>8. \A k \in 1 .. last - 1 : k + 1 \in 1 .. last /\ k + 1 # 1 /\ k + 1 - 1 = k
  BY <1>1
<1>9. 1 \in 1 .. last
  BY <1>1
<1> QED
  BY <1>1, <1>6, <1>7, <1>8, <1>9

\* Each field begins above those before it.
LEMMA OffsetsGrow ==
  ASSUME NEW s \in StructType
  PROVE  \A k \in 1 .. Len(Fields[s]) + 1 :
           Offset(s, k) \in Nat \ {0} /\ \A j \in 1 .. k - 1 : Offset(s, j) < Offset(s, k)
<1> DEFINE last == Len(Fields[s]) + 1
           Off(k) == Offset(s, k)
           Right(k) == Off(k) \in Nat \ {0} /\ \A j \in 1 .. k - 1 : Off(j) < Off(k)
           bad == {k \in 1 .. last : ~ Right(k)}
<1>1. last \in Nat \ {0} /\ DOMAIN Fields[s] = 1 .. last - 1
  BY FieldsAreSeq
<1>2. Off(1) = 1 /\ \A k \in 1 .. last - 1 : Off(k + 1) = Off(k) + Width(Fields[s][k])
  BY <1>1, OffsetUnfolds
<1>3. \A k \in 1 .. last - 1 : Width(Fields[s][k]) \in {1, 2}
  BY DEF Width
<1> HIDE DEF last, Off
<1>4. ASSUME NEW m \in bad, \A k \in bad : m <= k
      PROVE  FALSE
  <2>1. m \in 1 .. last /\ m \in Nat \ {0} /\ ~ Right(m)
    BY <1>1
  <2>2. m # 1
    BY <1>2, <2>1
  <2> DEFINE n == m - 1
  <2>3. n \in 1 .. last - 1 /\ n \in 1 .. last /\ n \in Nat /\ n + 1 = m
    BY <1>1, <2>1, <2>2
  <2>4. Right(n)
    <3>1. n \notin bad
      <4> HIDE DEF bad
      <4> QED
        BY <1>4, <2>3
    <3> HIDE DEF Right
    <3> QED
      BY <2>3, <3>1
  <2>5. Off(m) = Off(n) + Width(Fields[s][n]) /\ Width(Fields[s][n]) \in {1, 2}
    BY <1>2, <1>3, <2>3
  <2>6. Off(m) \in Nat \ {0} /\ Off(n) < Off(m)
    BY <2>4, <2>5
  <2>7. ASSUME NEW j \in 1 .. m - 1 PROVE Off(j) < Off(m)
    <3>1. j = n \/ j \in 1 .. n - 1
      BY <2>3
    <3>2. j \in 1 .. last - 1 /\ j \in 1 .. last
      BY <1>1, <2>1
    <3>3. j \notin bad
      <4>1. ~ (m <= j)
        BY <2>1
      <4> HIDE DEF bad
      <4> QED
        BY <1>4, <4>1
    <3>4. Off(j) \in Nat
      BY <3>2, <3>3
    <3> QED
      BY <2>4, <2>5, <3>1, <3>4
  <2> QED
    BY <2>1, <2>6, <2>7
<1>5. bad = {}
  <2>1. bad \in SUBSET Nat
    BY <1>1
  <2> HIDE DEF bad
  <2> QED
    BY <1>4, <2>1, LeastNumber
<1> QED
  BY <1>5 DEF last, Off

\* Distinct fields of a struct lie in distinct cells of it.
LEMMA LayoutFacts ==
  ASSUME NEW s \in StructType
  PROVE  /\ StructSize(s) \in Nat
         /\ \A f \in DOMAIN Fields[s] :
              /\ Offset(s, f) \in 1 .. StructSize(s)
              /\ \A g \in DOMAIN Fields[s] : Offset(s, f) = Offset(s, g) => f = g
<1> DEFINE last == Len(Fields[s]) + 1
<1>1. last \in Nat \ {0} /\ DOMAIN Fields[s] = 1 .. last - 1 /\ StructSize(s) = Offset(s, last) - 1
  BY FieldsAreSeq DEF StructSize
<1>2. \A k \in 1 .. last : Offset(s, k) \in Nat \ {0} /\ \A j \in 1 .. k - 1 : Offset(s, j) < Offset(s, k)
  BY OffsetsGrow
<1> HIDE DEF last
<1>3. last \in 1 .. last
  BY <1>1
<1>4. StructSize(s) \in Nat
  BY <1>1, <1>2, <1>3
<1>5. ASSUME NEW f \in DOMAIN Fields[s]
      PROVE  Offset(s, f) \in 1 .. StructSize(s)
  <2>1. f \in 1 .. last /\ f \in 1 .. last - 1
    BY <1>1
  <2> QED
    BY <1>1, <1>2, <1>3, <1>4, <2>1
<1>6. ASSUME NEW f \in DOMAIN Fields[s], NEW g \in DOMAIN Fields[s], Offset(s, f) = Offset(s, g)
      PROVE  f = g
  <2>1. f \in 1 .. last /\ g \in 1 .. last /\ f \in Nat /\ g \in Nat
    BY <1>1
  <2>2. f < g => f \in 1 .. g - 1
    BY <1>1
  <2>3. g < f => g \in 1 .. f - 1
    BY <1>1
  <2>4. Offset(s, f) \in Nat /\ Offset(s, g) \in Nat
    BY <1>2, <2>1
  <2> QED
    BY <1>2, <1>6, <2>1, <2>2, <2>3, <2>4
<1> QED
  BY <1>4, <1>5, <1>6

-----------------------------------------------------------------------------
(* Types                                                                   *)

LEMMA TypesOfThings ==
  /\ \A s \in StructType : Fields[s] \in Seq(ValType)
  /\ \A a \in ArrayType : Elem[a] \in ValType
  /\ \A x \in Tag : Params[x] \in Seq(ValType)
  /\ \A g \in Global : GlobalType[g] \in ValType /\ Sees[g] \subseteq Inst
  /\ LocalTypes \in Seq(ValType) /\ Len(LocalTypes) \in Nat \ {0} /\ 1 \in DOMAIN LocalTypes
  /\ \A l \in DOMAIN LocalTypes : LocalTypes[l] \in ValType
<1>1. LocalTypes \in Seq(ValType) /\ LocalTypes # << >>
  BY SlotsAssumption
<1>2. Len(LocalTypes) \in Nat \ {0} /\ DOMAIN LocalTypes = 1 .. Len(LocalTypes)
  BY <1>1, EmptySeq, LenProperties
<1>3. \A l \in DOMAIN LocalTypes : LocalTypes[l] \in ValType
  BY <1>1, <1>2, ElementOfSeq
<1> QED
  BY <1>1, <1>2, <1>3, SlotsAssumption

\* Of the values only the objects are followed.
LEMMA Scalars == Null \notin Obj /\ I31 \notin Obj /\ Fn \notin Obj /\ Num \notin Obj
BY SlotsAssumption

LEMMA ObjIsValue == Obj \subseteq Value
BY DEF Value

\* The type of a non-null reference is not the bottom type.
LEMMA NoneIsNullable ==
  ASSUME NEW a \in ValType, a.ht = "none"
  PROVE  a.null
<1>1. CASE a = Numeric("num") \/ a = Numeric("v128")
  BY <1>1 DEF Numeric
<1>2. CASE a \in [ht : HeapType, null : BOOLEAN] /\ a # RefNonNull("none")
  <2>1. SUFFICES ASSUME a.null = FALSE PROVE FALSE
    BY <1>2
  <2>2. a = [ht |-> "none", null |-> FALSE]
    BY <1>2, <2>1
  <2> QED
    BY <1>2, <2>2 DEF RefNonNull
<1> QED
  BY <1>1, <1>2 DEF ValType

\* What an operand may be used as it may be treated as.
LEMMA Subsumption ==
  ASSUME NEW v, NEW t, NEW a \in ValType, NEW b, Honest(v, t, a), SubType(a, b)
  PROVE  Honest(v, t, b)
<1>1. ASSUME v \in Obj PROVE t = "T_GCREF" /\ FieldIsRef(b)
  BY <1>1, SlotsAssumption DEF Honest, SubType, SubHeapType, FieldIsRef, Aggregate
<1>2. ASSUME b.ht \in Aggregate \cup {"exn"}, ~b.null PROVE t = "T_GCREF"
  <2>1. a.ht # "none"
    BY <1>2, NoneIsNullable DEF SubType
  <2>2. a.ht = b.ht
    BY <1>2, <2>1, SlotsAssumption DEF SubType, SubHeapType, Aggregate
  <2> QED
    BY <1>2, <2>2 DEF Honest, SubType
<1> QED
  BY <1>1, <1>2 DEF Honest

LEMMA ScalarHonest ==
  ASSUME NEW v \in {Null, I31, Fn, Num}, NEW t, NEW vt, ~(vt.ht \in Aggregate \cup {"exn"} /\ ~vt.null)
  PROVE  Honest(v, t, vt)
BY Scalars DEF Honest

\* A default is never an object.
LEMMA DefaultHonest ==
  ASSUME NEW vt \in ValType, Defaultable(vt), NEW t
  PROVE  DefaultValue(vt) \in {Null, Num} /\ Honest(DefaultValue(vt), t, vt)
BY Scalars, SlotsAssumption DEF DefaultValue, Honest, Defaultable, Aggregate

-----------------------------------------------------------------------------
(* The operand stack                                                       *)

LEMMA SlotFacts ==
  ASSUME NEW s \in HonestSlot
  PROVE  s.v \in Value /\ s.t \in ValueTag /\ s.st \in ValType /\ Honest(s.v, s.t, s.st)
BY DEF HonestSlot

LEMMA SlotIsHonest ==
  ASSUME NEW v \in Value, NEW t \in ValueTag, NEW st \in ValType, Honest(v, t, st)
  PROVE  Slot(v, t, st) \in HonestSlot
BY DEF Slot, HonestSlot

\* A used reference type.
LEMMA RefTypes ==
  ASSUME NEW ht \in HeapType
  PROVE  /\ RefNull(ht) \in ValType /\ RefNull(ht).ht = ht /\ RefNull(ht).null = TRUE
         /\ ht # "none" => RefNonNull(ht) \in ValType
         /\ RefNonNull(ht).ht = ht /\ RefNonNull(ht).null = FALSE
BY DEF RefNull, RefNonNull, ValType

\* A new object's slot.
LEMMA ObjectSlotHonest ==
  ASSUME NEW o \in Value, NEW ht \in Aggregate \cup {"exn"}
  PROVE  Slot(o, "T_GCREF", RefNonNull(ht)) \in HonestSlot
<1>1. ht \in HeapType /\ ht # "none"
  BY SlotsAssumption DEF HeapType, Aggregate
<1>2. Honest(o, "T_GCREF", RefNonNull(ht))
  BY <1>1, RefTypes DEF Honest, FieldIsRef
<1> QED
  BY <1>1, <1>2, RefTypes, SlotIsHonest DEF ValueTag

LEMMA SubStack ==
  ASSUME NEW S, NEW q \in Seq(S), NEW n \in Int, n <= Len(q)
  PROVE  SubSeq(q, 1, n) \in Seq(S)
<1>1. \A i \in 1 .. n : q[i] \in S
  BY ElementOfSeq, LenProperties
<1> QED
  BY <1>1, SubSeqProperties

\* What is popped leaves honest slots, what is pushed must be.
LEMMA PopPushHonest ==
  ASSUME stack \in Seq(HonestSlot), NEW n \in Nat, NEW slots \in Seq(HonestSlot), PopPush(n, slots)
  PROVE  stack' \in Seq(HonestSlot)
<1>1. Below(n) \in Seq(HonestSlot)
  BY SubStack, LenProperties DEF Below
<1> QED
  BY <1>1, ConcatProperties DEF PopPush

LEMMA OneSlot ==
  ASSUME NEW S, NEW x \in S
  PROVE  <<x>> \in Seq(S) /\ Len(<<x>>) = 1 /\ << >> \in Seq(S)
OBVIOUS

LEMMA CurrentHonest ==
  ASSUME frames \in Seq(HonestFrame), Running
  PROVE  /\ Current \in HonestFrame /\ Len(frames) \in 1 .. Len(frames) /\ Len(frames) \in Nat
         /\ Current.inst \in Inst /\ Current.base \in Nat
         /\ Current.locals \in [DOMAIN LocalTypes -> LocalSlot]
         /\ \A l \in DOMAIN LocalTypes : Honest(Current.locals[l].v, Current.locals[l].t, LocalTypes[l])
<1>1. Len(frames) \in Nat \ {0}
  BY EmptySeq DEF Running
<1>2. Current \in HonestFrame
  BY <1>1, ElementOfSeq DEF Current, Last
<1> QED
  BY <1>1, <1>2 DEF HonestFrame

\* The operands an instruction takes are what their types say.
LEMMA OperandFacts ==
  ASSUME stack \in Seq(HonestSlot), frames \in Seq(HonestFrame), NEW ts, Len(ts) \in Nat,
         DOMAIN ts = 1 .. Len(ts), Operands(ts), NEW k \in DOMAIN ts
  PROVE  LET s == Operand(Len(ts) - k + 1) IN
         /\ s \in HonestSlot /\ s.v \in Value /\ s.t \in ValueTag /\ s.st \in ValType
         /\ Honest(s.v, s.t, s.st) /\ SubType(s.st, ts[k])
         /\ Honest(s.v, s.t, ts[k])
<1> DEFINE s == Operand(Len(ts) - k + 1)
<1>0. Len(stack) \in Nat /\ Current.base \in Nat /\ Len(stack) - Current.base >= Len(ts)
  BY CurrentHonest, LenProperties DEF Operands
<1>1. s = stack[Len(stack) - Len(ts) + k]
  BY <1>0 DEF Operand
<1>2. Len(stack) - Len(ts) + k \in 1 .. Len(stack)
  BY <1>0
<1>3. s \in HonestSlot
  BY <1>1, <1>2, ElementOfSeq
<1>4. SubType(s.st, ts[k])
  BY <1>1 DEF Operands
<1> HIDE DEF s
<1>5. s.v \in Value /\ s.t \in ValueTag /\ s.st \in ValType /\ Honest(s.v, s.t, s.st)
  BY <1>3, SlotFacts
<1>6. Honest(s.v, s.t, ts[k])
  BY <1>4, <1>5, Subsumption
<1> QED
  BY <1>3, <1>4, <1>5, <1>6 DEF s

\* The operand of an instruction that takes one, and the two of one that takes two.
LEMMA TopOperand ==
  ASSUME stack \in Seq(HonestSlot), frames \in Seq(HonestFrame), NEW st, Operands(<<st>>)
  PROVE  /\ Operand(1) \in HonestSlot /\ Operand(1).v \in Value /\ Operand(1).t \in ValueTag
         /\ Operand(1).st \in ValType /\ Honest(Operand(1).v, Operand(1).t, Operand(1).st)
         /\ SubType(Operand(1).st, st) /\ Honest(Operand(1).v, Operand(1).t, st)
<1> DEFINE ts == <<st>>
<1>1. Len(ts) = 1 /\ DOMAIN ts = 1 .. 1 /\ ts[1] = st
  OBVIOUS
<1> HIDE DEF ts
<1>2. Operands(ts)
  BY DEF ts
<1>3. Len(ts) - 1 + 1 = 1
  BY <1>1
<1>4. 1 \in DOMAIN ts /\ Len(ts) \in Nat /\ DOMAIN ts = 1 .. Len(ts)
  BY <1>1
<1> QED
  BY <1>1, <1>2, <1>3, <1>4, OperandFacts

LEMMA TwoOperands ==
  ASSUME stack \in Seq(HonestSlot), frames \in Seq(HonestFrame), NEW s1, NEW s2, Operands(<<s1, s2>>)
  PROVE  /\ Operand(1) \in HonestSlot /\ Operand(1).v \in Value /\ SubType(Operand(1).st, s2)
         /\ Honest(Operand(1).v, Operand(1).t, s2)
         /\ Operand(2) \in HonestSlot /\ Operand(2).v \in Value /\ SubType(Operand(2).st, s1)
         /\ Honest(Operand(2).v, Operand(2).t, s1)
<1> DEFINE ts == <<s1, s2>>
<1>1. Len(ts) = 2 /\ DOMAIN ts = 1 .. 2 /\ ts[1] = s1 /\ ts[2] = s2
  OBVIOUS
<1> HIDE DEF ts
<1>2. Operands(ts)
  BY DEF ts
<1>3. Len(ts) - 1 + 1 = 2 /\ Len(ts) - 2 + 1 = 1
  BY <1>1
<1>4. 1 \in DOMAIN ts /\ 2 \in DOMAIN ts /\ Len(ts) \in Nat /\ DOMAIN ts = 1 .. Len(ts)
  BY <1>1
<1>5. /\ Operand(2) \in HonestSlot /\ Operand(2).v \in Value /\ SubType(Operand(2).st, s1)
      /\ Honest(Operand(2).v, Operand(2).t, s1)
  BY <1>1, <1>2, <1>3, <1>4, OperandFacts
<1>6. /\ Operand(1) \in HonestSlot /\ Operand(1).v \in Value /\ SubType(Operand(1).st, s2)
      /\ Honest(Operand(1).v, Operand(1).t, s2)
  BY <1>1, <1>2, <1>3, <1>4, OperandFacts
<1> QED
  BY <1>5, <1>6

-----------------------------------------------------------------------------
(* Objects                                                                 *)

LEMMA KindsApart ==
  /\ \A s \in StructType : s \notin ArrayType /\ s \notin Tag /\ s \in Aggregate
  /\ \A a \in ArrayType : a \notin StructType /\ a \notin Tag /\ a \in Aggregate
  /\ \A x \in Tag : x \notin StructType /\ x \notin ArrayType /\ x \notin Aggregate
BY SlotsAssumption DEF Aggregate

LEMMA StructSeq ==
  ASSUME NEW s \in StructType
  PROVE  /\ Fields[s] \in Seq(ValType) /\ Len(Fields[s]) \in Nat /\ DOMAIN Fields[s] = 1 .. Len(Fields[s])
         /\ StructSize(s) \in Nat /\ \A f \in DOMAIN Fields[s] : Fields[s][f] \in ValType
BY FieldsAreSeq, LayoutFacts

\* Only the cell of a reference field may hold an object, and its owner is found there.
LEMMA StructHonest ==
  ASSUME NEW s \in StructType, NEW rtts, NEW cells \in Seq(Value), DOMAIN cells = 1 .. StructSize(s),
         \A c \in DOMAIN cells : cells[c] \in Obj => c \in RefOffsets(s)
  PROVE  HonestObject([type |-> s, cells |-> cells, tags |-> << >>], rtts)
BY KindsApart DEF HonestObject, Traced

LEMMA StructCellsHonest ==
  ASSUME NEW s \in StructType, NEW rtts, NEW vs, DOMAIN vs = DOMAIN Fields[s],
         \A f \in DOMAIN vs : vs[f] \in Value /\ (vs[f] \in Obj => FieldIsRef(Fields[s][f]))
  PROVE  HonestObject([type |-> s, cells |-> StructCells(s, vs), tags |-> << >>], rtts)
<1> DEFINE cells == StructCells(s, vs)
           At(c) == \E f \in DOMAIN vs : Offset(s, f) = c
           Which(c) == CHOOSE f \in DOMAIN vs : Offset(s, f) = c
<1>1. \A c \in 1 .. StructSize(s) : At(c) => Which(c) \in DOMAIN vs /\ Offset(s, Which(c)) = c
  OBVIOUS
<1>2. /\ DOMAIN cells = 1 .. StructSize(s)
      /\ \A c \in 1 .. StructSize(s) : cells[c] = IF At(c) THEN vs[Which(c)] ELSE Num
  BY DEF StructCells
<1> HIDE DEF At, Which
<1>3. \A c \in 1 .. StructSize(s) : cells[c] \in Value /\ (cells[c] \in Obj => c \in RefOffsets(s))
  <2> TAKE c \in 1 .. StructSize(s)
  <2>1. CASE At(c)
    <3>1. cells[c] = vs[Which(c)] /\ Which(c) \in DOMAIN vs /\ Offset(s, Which(c)) = c
      BY <1>1, <1>2, <2>1
    <3> QED
      BY <3>1 DEF RefOffsets
  <2>2. CASE ~At(c)
    BY <1>2, <2>2, Scalars DEF Value
  <2> QED
    BY <2>1, <2>2
<1>4. cells \in Seq(Value)
  <2>1. cells = [c \in 1 .. StructSize(s) |-> cells[c]]
    BY DEF StructCells
  <2> HIDE DEF cells
  <2> QED
    BY <1>3, <2>1, StructSeq
<1> HIDE DEF cells
<1> QED
  BY <1>2, <1>3, <1>4, StructHonest DEF cells

LEMMA ArrayHonest ==
  ASSUME NEW a \in ArrayType, NEW rtts, NEW cells \in Seq(Value),
         \A c \in DOMAIN cells : cells[c] \in Obj => FieldIsRef(Elem[a])
  PROVE  HonestObject([type |-> a, cells |-> cells, tags |-> << >>], rtts)
BY KindsApart DEF HonestObject, Traced

\* The objects a collection leaves are as they were.
LEMMA AllocatedHonest ==
  ASSUME NEW rtts, HonestHeap(heap, rtts), NEW stk, NEW o, NEW ty, NEW cells, NEW tags,
         HonestObject([type |-> ty, cells |-> cells, tags |-> tags], rtts)
  PROVE  HonestHeap(Allocated(stk, o, ty, cells, tags), rtts)
<1>1. Marked(stk) \subseteq DOMAIN heap
  BY DEF Marked
<1> QED
  BY <1>1 DEF HonestHeap, Allocated

\* An object an instruction points at, by its kind.
LEMMA StructFacts ==
  ASSUME HonestHeap(heap, exn_rtts), NEW s \in StructType, NEW k, PointsAt(k, s), NEW f \in DOMAIN Fields[s]
  PROVE  /\ heap[Operand(k).v].cells \in Seq(Value)
         /\ DOMAIN heap[Operand(k).v].cells = 1 .. StructSize(s) /\ Offset(s, f) \in 1 .. StructSize(s)
         /\ heap[Operand(k).v].cells[Offset(s, f)] \in Value
         /\ heap[Operand(k).v].cells[Offset(s, f)] \in Obj => FieldIsRef(Fields[s][f])
<1> DEFINE ob == heap[Operand(k).v]
<1>1. HonestObject(ob, exn_rtts) /\ ob.type = s
  BY DEF PointsAt, HonestHeap
<1> HIDE DEF ob
<1>2. ob.cells \in Seq(Value) /\ DOMAIN ob.cells = 1 .. StructSize(s)
  BY <1>1 DEF HonestObject
<1>3. Offset(s, f) \in 1 .. StructSize(s)
  BY LayoutFacts
<1>4. ob.cells[Offset(s, f)] \in Value
  BY <1>2, <1>3, ElementOfSeq, LenProperties
<1>5. ob.cells[Offset(s, f)] \in Obj => Offset(s, f) \in RefOffsets(s)
  BY <1>1, <1>2, <1>3 DEF HonestObject, Traced
<1>6. Offset(s, f) \in RefOffsets(s) => FieldIsRef(Fields[s][f])
  BY LayoutFacts DEF RefOffsets
<1> QED
  BY <1>2, <1>3, <1>4, <1>5, <1>6 DEF ob

LEMMA ArrayFacts ==
  ASSUME HonestHeap(heap, exn_rtts), NEW a \in ArrayType, NEW k, PointsAt(k, a)
  PROVE  LET cells == heap[Operand(k).v].cells IN
         /\ cells \in Seq(Value) /\ Len(cells) \in Nat /\ DOMAIN cells = 1 .. Len(cells)
         /\ \A c \in DOMAIN cells : cells[c] \in Value /\ (cells[c] \in Obj => FieldIsRef(Elem[a]))
<1> DEFINE ob == heap[Operand(k).v]
<1>1. HonestObject(ob, exn_rtts) /\ ob.type = a
  BY DEF PointsAt, HonestHeap
<1> HIDE DEF ob
<1>2. ob.cells \in Seq(Value)
  BY <1>1 DEF HonestObject
<1>3. Len(ob.cells) \in Nat /\ DOMAIN ob.cells = 1 .. Len(ob.cells)
  BY <1>2, LenProperties
<1>4. \A c \in DOMAIN ob.cells : ob.cells[c] \in Value
  BY <1>2, <1>3, ElementOfSeq
<1>5. \A c \in DOMAIN ob.cells : ob.cells[c] \in Obj => FieldIsRef(Elem[a])
  BY <1>1, KindsApart DEF HonestObject, Traced
<1> QED
  BY <1>2, <1>3, <1>4, <1>5 DEF ob

\* Writing cells of an object changes nothing else of the heap.
LEMMA WrittenHonest ==
  ASSUME HonestHeap(heap, exn_rtts), NEW p \in DOMAIN heap, NEW cells \in Seq(Value),
         DOMAIN cells = DOMAIN heap[p].cells, heap[p].type \in Aggregate,
         \A c \in DOMAIN cells : cells[c] \in Obj => c \in Traced(heap[p], exn_rtts),
         heap' = [heap EXCEPT ![p].cells = cells]
  PROVE  HonestHeap(heap', exn_rtts)
<1> SUFFICES ASSUME NEW o \in DOMAIN heap PROVE HonestObject(heap'[o], exn_rtts)
  BY DEF HonestHeap
<1>1. CASE o # p
  BY <1>1 DEF HonestHeap
<1>2. CASE o = p
  <2>1. HonestObject(heap[p], exn_rtts)
    BY DEF HonestHeap
  <2> DEFINE ob == heap[p]
             new == [type |-> ob.type, cells |-> cells, tags |-> ob.tags]
  <2>2. ob \in [type : Aggregate \cup Tag, cells : Seq(Value), tags : Seq(ValueTag)]
    BY <2>1 DEF HonestObject
  <2>3. heap'[p] = new
    <3>1. heap'[p] = [ob EXCEPT !.cells = cells]
      BY Zenon
    <3> HIDE DEF ob
    <3> QED
      BY <2>2, <3>1
  <2>4. new.type = ob.type /\ new.cells = cells /\ new.tags = ob.tags
    OBVIOUS
  <2>5. /\ ob.type \in Aggregate /\ DOMAIN cells = DOMAIN ob.cells /\ HonestObject(ob, exn_rtts)
        /\ \A c \in DOMAIN cells : cells[c] \in Obj => c \in Traced(ob, exn_rtts)
    BY <2>1
  <2>6. new \in [type : Aggregate \cup Tag, cells : Seq(Value), tags : Seq(ValueTag)]
    BY <2>2
  <2> HIDE DEF new, ob
  <2>7. Traced(new, exn_rtts) = Traced(ob, exn_rtts)
    BY <2>4, <2>5, KindsApart DEF Traced
  <2>8. HonestObject(new, exn_rtts)
    BY <2>4, <2>5, <2>6, <2>7, KindsApart DEF HonestObject
  <2> QED
    BY <1>2, <2>3, <2>8
<1> QED
  BY <1>1, <1>2

-----------------------------------------------------------------------------
(* Steps on the stack, the locals and the globals                          *)

LEMMA StackStep ==
  ASSUME SlotsInv, OnStackOnly, stack' \in Seq(HonestSlot)
  PROVE  SlotsInv'
BY DEF SlotsInv, OnStackOnly, HonestGlobals

LEMMA TrapKeepsInv ==
  ASSUME SlotsInv, Trap
  PROVE  SlotsInv'
BY EmptySeq DEF SlotsInv, Trap, HonestGlobals

\* An instruction that pops n slots and pushes one.
LEMMA PushOneKeepsInv ==
  ASSUME SlotsInv, NEW n \in Nat, NEW s \in HonestSlot, PopPush(n, <<s>>), OnStackOnly
  PROVE  SlotsInv'
<1>1. <<s>> \in Seq(HonestSlot) /\ stack \in Seq(HonestSlot)
  BY OneSlot DEF SlotsInv
<1>2. stack' \in Seq(HonestSlot)
  BY <1>1, PopPushHonest
<1> QED
  BY <1>2, StackStep

LEMMA ConstKeepsInv ==
  ASSUME SlotsInv, Const
  PROVE  SlotsInv'
<1> DEFINE Pushed == {Slot(Null, "T_REF", RefNull("none")), Slot(I31, "T_REF", RefNonNull("i31")),
                      Slot(Fn, "T_REF", RefNonNull("func")), Slot(Num, "T_V128", Numeric("v128")),
                      Slot(Num, "T_INT", Numeric("num"))}
<1>1. PICK s \in Pushed : PopPush(0, <<s>>)
  BY DEF Const
<1>2. OnStackOnly
  BY DEF Const
<1>3. {"T_REF", "T_V128", "T_INT"} \subseteq ValueTag /\ {Null, I31, Fn, Num} \subseteq Value
  BY DEF ValueTag, Value
<1>4. {"none", "i31", "func"} \subseteq HeapType
      /\ {"none", "i31", "func", "num", "v128"} \cap (Aggregate \cup {"exn"}) = {}
  BY SlotsAssumption DEF HeapType
<1>5. Numeric("num") \in ValType /\ Numeric("num").ht = "num"
      /\ Numeric("v128") \in ValType /\ Numeric("v128").ht = "v128"
  BY DEF ValType, Numeric
<1>6. Slot(Null, "T_REF", RefNull("none")) \in HonestSlot
  BY <1>3, <1>4, RefTypes, ScalarHonest, SlotIsHonest
<1>7. Slot(I31, "T_REF", RefNonNull("i31")) \in HonestSlot
  BY <1>3, <1>4, RefTypes, ScalarHonest, SlotIsHonest
<1>8. Slot(Fn, "T_REF", RefNonNull("func")) \in HonestSlot
  BY <1>3, <1>4, RefTypes, ScalarHonest, SlotIsHonest
<1>9. Slot(Num, "T_V128", Numeric("v128")) \in HonestSlot /\ Slot(Num, "T_INT", Numeric("num")) \in HonestSlot
  BY <1>3, <1>4, <1>5, ScalarHonest, SlotIsHonest
<1>10. s \in HonestSlot
  BY <1>6, <1>7, <1>8, <1>9
<1> QED
  BY <1>1, <1>2, <1>10, PushOneKeepsInv

LEMMA DropKeepsInv ==
  ASSUME SlotsInv, Drop
  PROVE  SlotsInv'
<1>1. << >> \in Seq(HonestSlot) /\ stack \in Seq(HonestSlot)
  BY EmptySeq DEF SlotsInv
<1>2. PopPush(1, << >>)
  BY DEF Drop
<1>3. stack' \in Seq(HonestSlot)
  BY <1>1, <1>2, PopPushHonest
<1> QED
  BY <1>3, StackStep DEF Drop

LEMMA SelectKeepsInv ==
  ASSUME SlotsInv, NEW st \in ValType, Select(st)
  PROVE  SlotsInv'
<1>1. PICK k \in {1, 2} : PopPush(2, <<[Operand(k) EXCEPT !.st = st]>>)
  BY DEF Select
<1>2. Operand(k) \in HonestSlot /\ Honest(Operand(k).v, Operand(k).t, st)
  BY TwoOperands DEF Select, SlotsInv
<1>3. [Operand(k) EXCEPT !.st = st] \in HonestSlot
  <2> DEFINE s == Operand(k)
             x == [v |-> s.v, t |-> s.t, st |-> st]
  <2>1. s \in [v : Value, t : ValueTag, st : ValType] /\ Honest(s.v, s.t, st)
    BY <1>2 DEF HonestSlot
  <2> HIDE DEF s
  <2>2. x \in HonestSlot
    BY <2>1 DEF HonestSlot
  <2>3. [s EXCEPT !.st = st] = x
    BY <2>1
  <2> QED
    BY <2>2, <2>3 DEF s
<1> QED
  BY <1>1, <1>3, PushOneKeepsInv DEF Select

LEMMA LocalGetKeepsInv ==
  ASSUME SlotsInv, NEW l \in DOMAIN LocalTypes, LocalGet(l)
  PROVE  SlotsInv'
<1> DEFINE s == Slot(Current.locals[l].v, Current.locals[l].t, LocalTypes[l])
<1>1. PopPush(0, <<s>>) /\ OnStackOnly
  BY DEF LocalGet
<1>2. /\ Current.locals \in [DOMAIN LocalTypes -> LocalSlot]
      /\ Honest(Current.locals[l].v, Current.locals[l].t, LocalTypes[l])
  BY CurrentHonest DEF LocalGet, SlotsInv
<1>3. Current.locals[l].v \in Value /\ Current.locals[l].t \in ValueTag
  BY <1>2 DEF LocalSlot
<1>4. s \in HonestSlot
  BY <1>2, <1>3, TypesOfThings, SlotIsHonest
<1> QED
  BY <1>1, <1>4, PushOneKeepsInv

\* One popped operand.
LEMMA PopOne ==
  ASSUME SlotsInv, NEW n \in Nat, PopPush(n, << >>)
  PROVE  stack' \in Seq(HonestSlot)
BY EmptySeq, PopPushHonest DEF SlotsInv

LEMMA LocalSetKeepsInv ==
  ASSUME SlotsInv, NEW l \in DOMAIN LocalTypes, LocalSet(l)
  PROVE  SlotsInv'
<1> DEFINE x == [v |-> Operand(1).v, t |-> Operand(1).t]
           n == Len(frames)
           fr == frames[n]
           new == [inst |-> fr.inst, base |-> fr.base, locals |-> [fr.locals EXCEPT ![l] = x]]
<1>1. /\ Operands(<<LocalTypes[l]>>) /\ PopPush(1, << >>)
      /\ frames' = [frames EXCEPT ![n].locals[l] = x]
      /\ UNCHANGED <<heap, gval, gtag, exn_rtts>>
  BY DEF LocalSet
<1>2. stack' \in Seq(HonestSlot)
  BY <1>1, PopOne
<1>3. /\ Operand(1).v \in Value /\ Operand(1).t \in ValueTag
      /\ Honest(Operand(1).v, Operand(1).t, LocalTypes[l])
  BY <1>1, TopOperand DEF SlotsInv
<1>4. x \in LocalSlot /\ Honest(x.v, x.t, LocalTypes[l])
  BY <1>3 DEF LocalSlot
<1>5. Running /\ frames \in Seq(HonestFrame)
  BY <1>1 DEF Operands, SlotsInv
<1>6. fr \in HonestFrame /\ n \in 1 .. Len(frames)
  BY <1>5, CurrentHonest DEF Current, Last
<1> HIDE DEF x, fr
<1>7. /\ fr \in [inst : Inst, base : Nat, locals : [DOMAIN LocalTypes -> LocalSlot]]
      /\ \A m \in DOMAIN LocalTypes : Honest(fr.locals[m].v, fr.locals[m].t, LocalTypes[m])
  BY <1>6 DEF HonestFrame
<1>8. new \in HonestFrame
  <2>1. [fr.locals EXCEPT ![l] = x] \in [DOMAIN LocalTypes -> LocalSlot]
    BY <1>4, <1>7
  <2>2. \A m \in DOMAIN LocalTypes :
          Honest([fr.locals EXCEPT ![l] = x][m].v, [fr.locals EXCEPT ![l] = x][m].t, LocalTypes[m])
    BY <1>4, <1>7
  <2> QED
    BY <1>7, <2>1, <2>2 DEF HonestFrame
<1>9. frames' = [frames EXCEPT ![n] = new]
  <2>1. frames' = [frames EXCEPT ![n] = [frames[n] EXCEPT !.locals[l] = x]]
    BY <1>1, Zenon
  <2>2. [fr EXCEPT !.locals[l] = x] = new
    BY <1>7
  <2> QED
    BY <2>1, <2>2 DEF fr
<1> HIDE DEF new, n
<1>10. frames' \in Seq(HonestFrame)
  BY <1>5, <1>6, <1>8, <1>9, ExceptSeq
<1> QED
  BY <1>1, <1>2, <1>10 DEF SlotsInv, HonestGlobals

LEMMA GlobalGetKeepsInv ==
  ASSUME SlotsInv, NEW g \in Global, GlobalGet(g)
  PROVE  SlotsInv'
<1> DEFINE i == Current.inst
           s == Slot(gval[g], gtag[i][g], GlobalType[g])
<1>1. PopPush(0, <<s>>) /\ OnStackOnly /\ i \in Sees[g]
  BY DEF GlobalGet
<1>2. gval[g] \in Value /\ gtag[i][g] \in ValueTag /\ Honest(gval[g], gtag[i][g], GlobalType[g])
  BY <1>1, TypesOfThings DEF SlotsInv, HonestGlobals
<1>3. s \in HonestSlot
  BY <1>2, TypesOfThings, SlotIsHonest
<1> QED
  BY <1>1, <1>3, PushOneKeepsInv

\* The one instance that sees the global has its tag.
LEMMA GlobalSetKeepsInv ==
  ASSUME SlotsInv, GlobalsPrivate, NEW g \in Global, GlobalSet(g)
  PROVE  SlotsInv'
<1> DEFINE v == Operand(1).v
           t == Operand(1).t
           i == Current.inst
<1>1. /\ Operands(<<GlobalType[g]>>) /\ i \in Sees[g] /\ PopPush(1, << >>)
      /\ gval' = [gval EXCEPT ![g] = v] /\ gtag' = [gtag EXCEPT ![i][g] = t]
      /\ UNCHANGED <<heap, frames, exn_rtts>>
  BY DEF GlobalSet
<1>2. stack' \in Seq(HonestSlot)
  BY <1>1, PopOne
<1>3. v \in Value /\ t \in ValueTag /\ Honest(v, t, GlobalType[g])
  BY <1>1, TopOperand DEF SlotsInv
<1>4. i \in Inst
  BY <1>1, TypesOfThings
<1> HIDE DEF v, t, i
<1>5. gval' \in [Global -> Value] /\ gtag' \in [Inst -> [Global -> ValueTag]]
  BY <1>1, <1>3, <1>4 DEF SlotsInv, HonestGlobals
<1>6. \A x \in Global : \A j \in Sees[x] : Honest(gval'[x], gtag'[j][x], GlobalType[x])
  <2> TAKE x \in Global
  <2> TAKE j \in Sees[x]
  <2>1. j \in Inst
    BY TypesOfThings
  <2>2. CASE x = g
    <3>1. j = i
      BY <1>1, <2>2 DEF GlobalsPrivate
    <3>2. gval'[g] = v /\ gtag'[i][g] = t
      BY <1>1, <1>4 DEF SlotsInv, HonestGlobals
    <3> QED
      BY <1>3, <2>2, <3>1, <3>2
  <2>3. CASE x # g
    <3>1. gval'[x] = gval[x] /\ gtag'[j][x] = gtag[j][x]
      BY <1>1, <1>4, <2>1, <2>3 DEF SlotsInv, HonestGlobals
    <3> QED
      BY <3>1 DEF SlotsInv, HonestGlobals
  <2> QED
    BY <2>2, <2>3
<1> QED
  BY <1>1, <1>2, <1>5, <1>6 DEF SlotsInv, HonestGlobals

-----------------------------------------------------------------------------
(* References                                                              *)

LEMMA RefAsNonNullKeepsInv ==
  ASSUME SlotsInv, AsNonNullOnHandles, RefAsNonNull
  PROVE  SlotsInv'
<1> DEFINE ht == Operand(1).st.ht
<1>1. Running /\ Len(stack) > Current.base /\ ht \in {"func", "i31"}
  BY DEF RefAsNonNull, AsNonNullOnHandles
<1>2. Operand(1) \in HonestSlot
  <2>1. Len(stack) \in Nat /\ Current.base \in Nat
    BY <1>1, CurrentHonest, LenProperties DEF SlotsInv
  <2>2. Len(stack) - 1 + 1 \in 1 .. Len(stack)
    BY <1>1, <2>1
  <2> QED
    BY <2>2, ElementOfSeq DEF Operand, SlotsInv
<1>3. CASE Operand(1).v = Null
  BY <1>3, TrapKeepsInv DEF RefAsNonNull
<1>4. CASE Operand(1).v # Null
  <2>1. PopPush(1, <<Slot(Operand(1).v, "T_REF", RefNonNull(ht))>>) /\ OnStackOnly
    BY <1>4 DEF RefAsNonNull
  <2>2. ht \in HeapType /\ ht # "none" /\ ht \notin Aggregate \cup {"any", "exn"}
    BY <1>1, SlotsAssumption DEF HeapType
  <2>3. Operand(1).v \in Value /\ Operand(1).v \notin Obj
    BY <1>2, <2>2, SlotFacts DEF Honest, FieldIsRef
  <2>4. Honest(Operand(1).v, "T_REF", RefNonNull(ht))
    BY <2>2, <2>3, RefTypes DEF Honest
  <2>5. Slot(Operand(1).v, "T_REF", RefNonNull(ht)) \in HonestSlot
    BY <2>2, <2>3, <2>4, RefTypes, SlotIsHonest DEF ValueTag
  <2> QED
    BY <2>1, <2>5, PushOneKeepsInv
<1> QED
  BY <1>3, <1>4

\* A cast that succeeds says of the operand no more than its tag and RTT show.
LEMMA RefCastKeepsInv ==
  ASSUME SlotsInv, NEW ht \in CastTarget, RefCast(ht)
  PROVE  SlotsInv'
<1> DEFINE v == Operand(1).v
           t == Operand(1).t
<1>1. Operands(<<AnyRef>>) /\ (v \in Obj => v \in DOMAIN heap)
  BY DEF RefCast
<1>2. v \in Value /\ t \in ValueTag /\ Honest(v, t, AnyRef)
  BY <1>1, TopOperand DEF SlotsInv
<1>3. CASE ~RefMatches(v, t, ht)
  BY <1>3, TrapKeepsInv DEF RefCast
<1>4. CASE RefMatches(v, t, ht)
  <2>1. PopPush(1, <<Slot(v, t, RefNonNull(ht))>>) /\ OnStackOnly
    BY <1>4 DEF RefCast
  <2> HIDE DEF v, t
  <2>2. ht \in HeapType /\ ht # "none" /\ ht # "any" /\ (ht \in Aggregate \/ ht = "i31") /\ "i31" \notin Aggregate
    BY SlotsAssumption DEF CastTarget, HeapType
  <2>3. SubHeapType(ValueHeapType(v, t), ht)
    BY <1>4 DEF RefMatches
  <2>4. ht \in Aggregate => t = "T_GCREF"
    BY <2>2, <2>3 DEF ValueHeapType, SubHeapType
  <2>5. v \in Obj => t = "T_GCREF" /\ ht \in Aggregate
    <3> SUFFICES ASSUME v \in Obj PROVE t = "T_GCREF" /\ ht \in Aggregate
      OBVIOUS
    <3>1. t = "T_GCREF"
      BY <1>2 DEF Honest
    <3>2. v # I31 /\ v \in DOMAIN heap
      BY <1>1, Scalars
    <3>3. HonestObject(heap[v], exn_rtts)
      BY <3>2 DEF SlotsInv, HonestHeap
    <3>4. heap[v].type \in Aggregate \cup Tag
      BY <3>3 DEF HonestObject
    <3>5. SubHeapType(heap[v].type, ht)
      BY <2>3, <3>1, <3>2 DEF ValueHeapType, ObjectType
    <3>6. heap[v].type \notin {"i31", "none"}
      BY <3>4, SlotsAssumption
    <3> QED
      BY <2>2, <3>1, <3>5, <3>6 DEF SubHeapType
  <2>6. Honest(v, t, RefNonNull(ht))
    BY <2>2, <2>4, <2>5, RefTypes DEF Honest, FieldIsRef
  <2>7. Slot(v, t, RefNonNull(ht)) \in HonestSlot
    BY <1>2, <2>2, <2>6, RefTypes, SlotIsHonest
  <2> QED
    BY <2>1, <2>7, PushOneKeepsInv
<1> QED
  BY <1>3, <1>4

-----------------------------------------------------------------------------
(* Allocation and access                                                   *)

\* An instruction that allocates an honest object and pushes it in place of n slots.
LEMMA NewKeepsInv ==
  ASSUME SlotsInv, NEW o \in Obj, NEW ty \in Aggregate, NEW cells, NEW stk, NEW n \in Nat,
         HonestObject([type |-> ty, cells |-> cells, tags |-> << >>], exn_rtts),
         heap' = Allocated(stk, o, ty, cells, << >>),
         PopPush(n, <<Slot(o, "T_GCREF", RefNonNull(ty))>>),
         UNCHANGED <<frames, gval, gtag, exn_rtts>>
  PROVE  SlotsInv'
<1>1. HonestHeap(heap', exn_rtts)
  BY AllocatedHonest DEF SlotsInv
<1>2. Slot(o, "T_GCREF", RefNonNull(ty)) \in HonestSlot
  BY ObjIsValue, ObjectSlotHonest
<1>3. stack' \in Seq(HonestSlot)
  BY <1>2, OneSlot, PopPushHonest DEF SlotsInv
<1> QED
  BY <1>1, <1>3 DEF SlotsInv, HonestGlobals

LEMMA StructNewKeepsInv ==
  ASSUME SlotsInv, NEW s \in StructType, StructNew(s)
  PROVE  SlotsInv'
<1> DEFINE n == Len(Fields[s])
           vs == [f \in 1 .. n |-> Operand(n - f + 1).v]
<1>1. PICK o \in Obj : /\ heap' = Allocated(stack, o, s, StructCells(s, vs), << >>)
                       /\ PopPush(n, <<Slot(o, "T_GCREF", RefNonNull(s))>>)
  BY DEF StructNew
<1>2. Operands(Fields[s]) /\ UNCHANGED <<frames, gval, gtag, exn_rtts>>
  BY DEF StructNew
<1>3. DOMAIN vs = DOMAIN Fields[s] /\ n \in Nat /\ DOMAIN Fields[s] = 1 .. n
  BY StructSeq
<1>4. ASSUME NEW f \in DOMAIN vs PROVE vs[f] \in Value /\ (vs[f] \in Obj => FieldIsRef(Fields[s][f]))
  BY <1>2, <1>3, OperandFacts DEF SlotsInv, Honest
<1>5. HonestObject([type |-> s, cells |-> StructCells(s, vs), tags |-> << >>], exn_rtts)
  BY <1>3, <1>4, StructCellsHonest
<1> HIDE DEF vs
<1> QED
  BY <1>1, <1>2, <1>3, <1>5, KindsApart, NewKeepsInv

LEMMA StructNewDefaultKeepsInv ==
  ASSUME SlotsInv, NEW s \in StructType, StructNewDefault(s)
  PROVE  SlotsInv'
<1> DEFINE vs == [f \in DOMAIN Fields[s] |-> DefaultValue(Fields[s][f])]
<1>1. PICK o \in Obj : /\ heap' = Allocated(stack, o, s, StructCells(s, vs), << >>)
                       /\ PopPush(0, <<Slot(o, "T_GCREF", RefNonNull(s))>>)
  BY DEF StructNewDefault
<1>2. UNCHANGED <<frames, gval, gtag, exn_rtts>>
  BY DEF StructNewDefault
<1>3. \A f \in DOMAIN vs : vs[f] \in Value /\ (vs[f] \in Obj => FieldIsRef(Fields[s][f]))
  BY Scalars DEF DefaultValue, Value
<1>4. HonestObject([type |-> s, cells |-> StructCells(s, vs), tags |-> << >>], exn_rtts)
  BY <1>3, StructCellsHonest
<1> HIDE DEF vs
<1> QED
  BY <1>1, <1>2, <1>4, KindsApart, NewKeepsInv

\* What is read from a cell has the tag its layout gives it.
LEMMA StructGetKeepsInv ==
  ASSUME SlotsInv, LayoutAgrees, NEW s \in StructType, NEW f \in DOMAIN Fields[s], StructGet(s, f)
  PROVE  SlotsInv'
<1> DEFINE v == heap[Operand(1).v].cells[Offset(s, f)]
<1>1. CASE Operand(1).v = Null
  BY <1>1, TrapKeepsInv DEF StructGet
<1>2. CASE Operand(1).v # Null
  <2>1. PointsAt(1, s) /\ PopPush(1, <<Slot(v, FieldTag(s, f), Fields[s][f])>>) /\ OnStackOnly
    BY <1>2 DEF StructGet
  <2>2. v \in Value /\ (v \in Obj => FieldIsRef(Fields[s][f]))
    BY <2>1, StructFacts DEF SlotsInv
  <2> HIDE DEF v
  <2>3. FieldIsRef(Fields[s][f]) => FieldTag(s, f) = "T_GCREF"
    BY SlotsAssumption DEF LayoutAgrees, FieldTag, FieldIsRef, Wide
  <2>4. Honest(v, FieldTag(s, f), Fields[s][f])
    BY <2>2, <2>3 DEF Honest, FieldIsRef
  <2>5. FieldTag(s, f) \in ValueTag /\ Fields[s][f] \in ValType
    BY StructSeq DEF FieldTag, ValueTag
  <2>6. Slot(v, FieldTag(s, f), Fields[s][f]) \in HonestSlot
    BY <2>2, <2>4, <2>5, SlotIsHonest
  <2> QED
    BY <2>1, <2>6, PushOneKeepsInv
<1> QED
  BY <1>1, <1>2

\* An instruction that writes cells of an array or a struct and pops n slots.
LEMMA WriteKeepsInv ==
  ASSUME SlotsInv, NEW p \in DOMAIN heap, NEW cells \in Seq(Value), NEW n \in Nat,
         DOMAIN cells = DOMAIN heap[p].cells, heap[p].type \in Aggregate,
         \A c \in DOMAIN cells : cells[c] \in Obj => c \in Traced(heap[p], exn_rtts),
         heap' = [heap EXCEPT ![p].cells = cells], PopPush(n, << >>),
         UNCHANGED <<frames, gval, gtag, exn_rtts>>
  PROVE  SlotsInv'
<1>1. HonestHeap(heap', exn_rtts)
  BY WrittenHonest DEF SlotsInv
<1>2. stack' \in Seq(HonestSlot)
  BY PopOne
<1> QED
  BY <1>1, <1>2 DEF SlotsInv, HonestGlobals

LEMMA StructSetKeepsInv ==
  ASSUME SlotsInv, NEW s \in StructType, NEW f \in DOMAIN Fields[s], StructSet(s, f)
  PROVE  SlotsInv'
<1> DEFINE p == Operand(2).v
           v == Operand(1).v
           old == heap[p].cells
           c == Offset(s, f)
           new == [old EXCEPT ![c] = v]
<1>1. CASE p = Null
  BY <1>1, TrapKeepsInv DEF StructSet
<1>2. CASE p # Null
  <2>1. /\ PointsAt(2, s) /\ heap' = [heap EXCEPT ![p].cells[c] = v] /\ PopPush(2, << >>)
        /\ UNCHANGED <<frames, gval, gtag, exn_rtts>>
    BY <1>2 DEF StructSet
  <2>2. p \in DOMAIN heap /\ heap[p].type = s
    BY <2>1 DEF PointsAt
  <2>3. old \in Seq(Value) /\ DOMAIN old = 1 .. StructSize(s) /\ c \in 1 .. StructSize(s)
    BY <2>1, StructFacts DEF SlotsInv
  <2>4. v \in Value /\ (v \in Obj => FieldIsRef(Fields[s][f]))
    BY TwoOperands DEF StructSet, SlotsInv, Honest
  <2>5. v \in Obj => c \in RefOffsets(s)
    BY <2>4 DEF RefOffsets
  <2>6. \A k \in DOMAIN old : old[k] \in Obj => k \in Traced(heap[p], exn_rtts)
    BY <2>2 DEF SlotsInv, HonestHeap, HonestObject
  <2>7. Traced(heap[p], exn_rtts) = RefOffsets(s) /\ heap[p].type \in Aggregate
    BY <2>2, KindsApart DEF Traced
  <2>8. heap' = [heap EXCEPT ![p].cells = new]
    BY <2>1, <2>2, Zenon
  <2> HIDE DEF v, c, old
  <2>9. new \in Seq(Value) /\ DOMAIN new = DOMAIN old
    <3>1. Len(old) \in Nat /\ DOMAIN old = 1 .. Len(old)
      BY <2>3, LenProperties
    <3> QED
      BY <2>3, <2>4, <3>1, ExceptSeq
  <2>10. \A k \in DOMAIN new : new[k] \in Obj => k \in Traced(heap[p], exn_rtts)
    BY <2>3, <2>5, <2>6, <2>7
  <2> HIDE DEF new
  <2> QED
    BY <2>1, <2>2, <2>7, <2>8, <2>9, <2>10, WriteKeepsInv DEF old
<1> QED
  BY <1>1, <1>2

-----------------------------------------------------------------------------
(* Arrays                                                                  *)

\* An array all of whose cells are of its element type.
LEMMA ArrayOfHonest ==
  ASSUME NEW a \in ArrayType, NEW n \in Nat, NEW vs, DOMAIN vs = 1 .. n, vs = [k \in 1 .. n |-> vs[k]],
         \A k \in 1 .. n : vs[k] \in Value /\ (vs[k] \in Obj => FieldIsRef(Elem[a]))
  PROVE  HonestObject([type |-> a, cells |-> vs, tags |-> << >>], exn_rtts)
<1>1. vs \in Seq(Value)
  OBVIOUS
<1> QED
  BY <1>1, ArrayHonest

LEMMA ArrayNewKeepsInv ==
  ASSUME SlotsInv, NEW a \in ArrayType, ArrayNew(a)
  PROVE  SlotsInv'
<1> DEFINE v == Operand(1).v
<1>1. PICK o \in Obj, n \in 0 .. MaxLen :
        /\ heap' = Allocated(Below(1), o, a, [k \in 1 .. n |-> v], << >>)
        /\ PopPush(1, <<Slot(o, "T_GCREF", RefNonNull(a))>>)
  BY DEF ArrayNew
<1>2. Operands(<<Elem[a]>>) /\ UNCHANGED <<frames, gval, gtag, exn_rtts>>
  BY DEF ArrayNew
<1>3. v \in Value /\ (v \in Obj => FieldIsRef(Elem[a]))
  BY <1>2, TopOperand DEF SlotsInv, Honest
<1> HIDE DEF v
<1> DEFINE vs == [k \in 1 .. n |-> v]
<1>4. n \in Nat /\ DOMAIN vs = 1 .. n /\ \A k \in 1 .. n : vs[k] = v
  BY SlotsAssumption
<1>5. vs = [k \in 1 .. n |-> vs[k]]
  OBVIOUS
<1> HIDE DEF vs
<1>6. HonestObject([type |-> a, cells |-> vs, tags |-> << >>], exn_rtts)
  BY <1>3, <1>4, <1>5, ArrayOfHonest
<1> QED
  BY <1>1, <1>2, <1>6, KindsApart, NewKeepsInv DEF vs

LEMMA ArrayNewFixedKeepsInv ==
  ASSUME SlotsInv, NEW a \in ArrayType, NEW n \in 0 .. MaxLen, ArrayNewFixed(a, n)
  PROVE  SlotsInv'
<1> DEFINE vs == [k \in 1 .. n |-> Operand(n - k + 1).v]
           ts == [k \in 1 .. n |-> Elem[a]]
<1>1. PICK o \in Obj : /\ heap' = Allocated(stack, o, a, vs, << >>)
                       /\ PopPush(n, <<Slot(o, "T_GCREF", RefNonNull(a))>>)
  BY DEF ArrayNewFixed
<1>2. Operands(ts) /\ UNCHANGED <<frames, gval, gtag, exn_rtts>>
  BY DEF ArrayNewFixed
<1>3. n \in Nat /\ DOMAIN vs = 1 .. n /\ vs = [k \in 1 .. n |-> vs[k]]
  BY SlotsAssumption
<1>4. Len(ts) = n /\ DOMAIN ts = 1 .. n /\ \A k \in 1 .. n : ts[k] = Elem[a]
  <2>1. ts \in Seq({Elem[a]})
    BY <1>3
  <2> QED
    BY <1>3, <2>1, LenProperties
<1> HIDE DEF ts
<1>5. ASSUME NEW k \in 1 .. n PROVE vs[k] \in Value /\ (vs[k] \in Obj => FieldIsRef(Elem[a]))
  <2>1. vs[k] = Operand(n - k + 1).v
    OBVIOUS
  <2>2. Operand(n - k + 1).v \in Value /\ Honest(Operand(n - k + 1).v, Operand(n - k + 1).t, ts[k])
    BY <1>2, <1>3, <1>4, OperandFacts DEF SlotsInv
  <2> QED
    BY <1>4, <2>1, <2>2 DEF Honest
<1> HIDE DEF vs
<1>6. HonestObject([type |-> a, cells |-> vs, tags |-> << >>], exn_rtts)
  BY <1>3, <1>5, ArrayOfHonest
<1> QED
  BY <1>1, <1>2, <1>3, <1>6, KindsApart, NewKeepsInv

LEMMA ArrayNewDefaultKeepsInv ==
  ASSUME SlotsInv, NEW a \in ArrayType, ArrayNewDefault(a)
  PROVE  SlotsInv'
<1> DEFINE v == DefaultValue(Elem[a])
<1>1. PICK o \in Obj, n \in 0 .. MaxLen :
        /\ heap' = Allocated(stack, o, a, [k \in 1 .. n |-> v], << >>)
        /\ PopPush(0, <<Slot(o, "T_GCREF", RefNonNull(a))>>)
  BY DEF ArrayNewDefault
<1>2. UNCHANGED <<frames, gval, gtag, exn_rtts>>
  BY DEF ArrayNewDefault
<1>3. v \in Value /\ (v \in Obj => FieldIsRef(Elem[a]))
  BY Scalars DEF DefaultValue, Value
<1> HIDE DEF v
<1> DEFINE vs == [k \in 1 .. n |-> v]
<1>4. n \in Nat /\ DOMAIN vs = 1 .. n /\ \A k \in 1 .. n : vs[k] = v
  BY SlotsAssumption
<1>5. vs = [k \in 1 .. n |-> vs[k]]
  OBVIOUS
<1> HIDE DEF vs
<1>6. HonestObject([type |-> a, cells |-> vs, tags |-> << >>], exn_rtts)
  BY <1>3, <1>4, <1>5, ArrayOfHonest
<1> QED
  BY <1>1, <1>2, <1>6, KindsApart, NewKeepsInv DEF vs

LEMMA ArrayGetKeepsInv ==
  ASSUME SlotsInv, NEW a \in ArrayType, NEW i \in 1 .. MaxLen + 1, ArrayGet(a, i)
  PROVE  SlotsInv'
<1> DEFINE cells == heap[Operand(1).v].cells
<1>1. CASE Operand(1).v = Null \/ i > Len(cells)
  BY <1>1, TrapKeepsInv DEF ArrayGet
<1>2. CASE Operand(1).v # Null /\ ~(i > Len(cells))
  <2>1. PointsAt(1, a) /\ PopPush(1, <<Slot(cells[i], ElemTag(a), Elem[a])>>) /\ OnStackOnly
    BY <1>2 DEF ArrayGet
  <2>2. Len(cells) \in Nat /\ DOMAIN cells = 1 .. Len(cells) /\ \A c \in DOMAIN cells :
          cells[c] \in Value /\ (cells[c] \in Obj => FieldIsRef(Elem[a]))
    BY <2>1, ArrayFacts DEF SlotsInv
  <2> HIDE DEF cells
  <2>3. i \in DOMAIN cells
    BY <1>2, <2>2, SlotsAssumption
  <2>4. FieldIsRef(Elem[a]) => ElemTag(a) = "T_GCREF"
    BY SlotsAssumption DEF ElemTag, FieldIsRef, Wide
  <2>5. Honest(cells[i], ElemTag(a), Elem[a])
    BY <2>2, <2>3, <2>4 DEF Honest, FieldIsRef
  <2>6. Slot(cells[i], ElemTag(a), Elem[a]) \in HonestSlot
    BY <2>2, <2>3, <2>5, TypesOfThings, SlotIsHonest DEF ElemTag, ValueTag
  <2> QED
    BY <2>1, <2>6, PushOneKeepsInv
<1> QED
  BY <1>1, <1>2

LEMMA FunctionIsSeq ==
  ASSUME NEW S, NEW n \in Nat, NEW f, \A c \in 1 .. n : f[c] \in S, f = [c \in 1 .. n |-> f[c]]
  PROVE  f \in Seq(S) /\ DOMAIN f = 1 .. n
<1>1. [c \in 1 .. n |-> f[c]] \in Seq(S)
  OBVIOUS
<1>2. DOMAIN [c \in 1 .. n |-> f[c]] = 1 .. n
  OBVIOUS
<1> QED
  BY <1>1, <1>2, Zenon

\* The three instructions that write elements of an array p.
LEMMA ElementsWritten ==
  ASSUME SlotsInv, NEW a \in ArrayType, NEW k, PointsAt(k, a), NEW new,
         new = [c \in DOMAIN heap[Operand(k).v].cells |-> new[c]],
         \A c \in DOMAIN heap[Operand(k).v].cells :
           \/ new[c] = heap[Operand(k).v].cells[c]
           \/ new[c] \in Value /\ (new[c] \in Obj => FieldIsRef(Elem[a])),
         heap' = [heap EXCEPT ![Operand(k).v].cells = new], PopPush(2, << >>),
         UNCHANGED <<frames, gval, gtag, exn_rtts>>
  PROVE  SlotsInv'
<1> DEFINE p == Operand(k).v
           old == heap[p].cells
<1>1. p \in DOMAIN heap /\ heap[p].type = a
  BY DEF PointsAt
<1>2. /\ old \in Seq(Value) /\ Len(old) \in Nat /\ DOMAIN old = 1 .. Len(old)
      /\ \A c \in DOMAIN old : old[c] \in Value /\ (old[c] \in Obj => FieldIsRef(Elem[a]))
  BY ArrayFacts DEF SlotsInv
<1> DEFINE n == Len(old)
<1>3. new = [c \in 1 .. n |-> new[c]]
  BY <1>2
<1>4. \A c \in 1 .. n : new[c] \in Value /\ (new[c] \in Obj => FieldIsRef(Elem[a]))
  BY <1>2
<1> HIDE DEF n
<1>5. new \in Seq(Value) /\ DOMAIN new = 1 .. n
  <2>1. n \in Nat
    BY <1>2 DEF n
  <2> QED
    BY <1>3, <1>4, <2>1, FunctionIsSeq
<1>6. DOMAIN new = DOMAIN old
  BY <1>2, <1>5 DEF n
<1>7. HonestObject(heap[p], exn_rtts)
  BY <1>1 DEF SlotsInv, HonestHeap
<1>8. \A c \in DOMAIN new : new[c] \in Obj => c \in Traced(heap[p], exn_rtts)
  BY <1>1, <1>4, <1>5, <1>6, KindsApart DEF Traced
<1>9. heap[p].type \in Aggregate
  BY <1>1, KindsApart
<1> QED
  BY <1>1, <1>5, <1>6, <1>8, <1>9, WriteKeepsInv

LEMMA ArraySetKeepsInv ==
  ASSUME SlotsInv, NEW a \in ArrayType, NEW i \in 1 .. MaxLen + 1, ArraySet(a, i)
  PROVE  SlotsInv'
<1> DEFINE p == Operand(2).v
           v == Operand(1).v
           old == heap[p].cells
           new == [c \in DOMAIN old |-> IF c = i THEN v ELSE old[c]]
<1>1. CASE p = Null \/ i > Len(old)
  BY <1>1, TrapKeepsInv DEF ArraySet
<1>2. CASE p # Null /\ ~(i > Len(old))
  <2>1. /\ PointsAt(2, a) /\ heap' = [heap EXCEPT ![p].cells[i] = v] /\ PopPush(2, << >>)
        /\ UNCHANGED <<frames, gval, gtag, exn_rtts>>
    BY <1>2 DEF ArraySet
  <2>2. v \in Value /\ (v \in Obj => FieldIsRef(Elem[a]))
    BY TwoOperands DEF ArraySet, SlotsInv, Honest
  <2>3. old \in Seq(Value)
    BY <2>1, ArrayFacts DEF SlotsInv
  <2>4. [old EXCEPT ![i] = v] = new
    BY <2>3
  <2>5. heap' = [heap EXCEPT ![p].cells = new]
    <3>1. heap' = [heap EXCEPT ![p].cells = [old EXCEPT ![i] = v]]
      BY <2>1, Zenon
    <3> QED
      BY <2>4, <3>1
  <2>6. /\ new = [c \in DOMAIN old |-> new[c]]
        /\ \A c \in DOMAIN old : new[c] = old[c] \/ (new[c] \in Value /\ (new[c] \in Obj => FieldIsRef(Elem[a])))
    BY <2>2
  <2> HIDE DEF new
  <2> QED
    BY <2>1, <2>5, <2>6, ElementsWritten
<1> QED
  BY <1>1, <1>2

LEMMA ArrayFillKeepsInv ==
  ASSUME SlotsInv, NEW a \in ArrayType, NEW i \in 1 .. MaxLen + 1, NEW n \in 0 .. MaxLen, ArrayFill(a, i, n)
  PROVE  SlotsInv'
<1> DEFINE p == Operand(2).v
           v == Operand(1).v
           old == heap[p].cells
           new == [c \in DOMAIN old |-> IF c \in i .. (i + n - 1) THEN v ELSE old[c]]
<1>1. CASE p = Null \/ i - 1 + n > Len(old)
  BY <1>1, TrapKeepsInv DEF ArrayFill
<1>2. CASE p # Null /\ ~(i - 1 + n > Len(old))
  <2>1. /\ PointsAt(2, a) /\ heap' = [heap EXCEPT ![p].cells = new] /\ PopPush(2, << >>)
        /\ UNCHANGED <<frames, gval, gtag, exn_rtts>>
    BY <1>2 DEF ArrayFill
  <2>2. v \in Value /\ (v \in Obj => FieldIsRef(Elem[a]))
    BY TwoOperands DEF ArrayFill, SlotsInv, Honest
  <2>3. /\ new = [c \in DOMAIN old |-> new[c]]
        /\ \A c \in DOMAIN old : new[c] = old[c] \/ (new[c] \in Value /\ (new[c] \in Obj => FieldIsRef(Elem[a])))
    BY <2>2
  <2> HIDE DEF new
  <2> QED
    BY <2>1, <2>3, ElementsWritten
<1> QED
  BY <1>1, <1>2

\* What the source's elements may be, the target's may be.
LEMMA ArrayCopyKeepsInv ==
  ASSUME SlotsInv, NEW a \in ArrayType, NEW b \in ArrayType, NEW d \in 1 .. MaxLen + 1,
         NEW s \in 1 .. MaxLen + 1, NEW n \in 0 .. MaxLen, ArrayCopy(a, d, b, s, n)
  PROVE  SlotsInv'
<1> DEFINE p == Operand(2).v
           from == heap[Operand(1).v].cells
           old == heap[p].cells
           new == [c \in DOMAIN old |-> IF c \in d .. (d + n - 1) THEN from[s + c - d] ELSE old[c]]
           Outside == d - 1 + n > Len(old) \/ s - 1 + n > Len(from)
<1>1. CASE Null \in {Operand(1).v, p} \/ Outside
  BY <1>1, TrapKeepsInv DEF ArrayCopy
<1>2. CASE Null \notin {Operand(1).v, p} /\ ~Outside
  <2>1. /\ PointsAt(2, a) /\ PointsAt(1, b) /\ heap' = [heap EXCEPT ![p].cells = new] /\ PopPush(2, << >>)
        /\ UNCHANGED <<frames, gval, gtag, exn_rtts>>
    BY <1>2 DEF ArrayCopy
  <2>2. /\ Len(from) \in Nat /\ DOMAIN from = 1 .. Len(from)
        /\ \A c \in DOMAIN from : from[c] \in Value /\ (from[c] \in Obj => FieldIsRef(Elem[b]))
    BY <2>1, ArrayFacts DEF SlotsInv
  <2>3. FieldIsRef(Elem[b]) => FieldIsRef(Elem[a])
    BY SlotsAssumption DEF ArrayCopy, SubType, SubHeapType, FieldIsRef
  <2>4. s - 1 + n <= Len(from) /\ d \in Nat /\ s \in Nat \ {0} /\ n \in Nat
    BY <1>2, <2>2, SlotsAssumption
  <2> HIDE DEF from
  <2>5. \A c \in d .. (d + n - 1) : s + c - d \in DOMAIN from
    BY <2>2, <2>4
  <2>6. /\ new = [c \in DOMAIN old |-> new[c]]
        /\ \A c \in DOMAIN old : new[c] = old[c] \/ (new[c] \in Value /\ (new[c] \in Obj => FieldIsRef(Elem[a])))
    BY <2>2, <2>3, <2>5
  <2> HIDE DEF new
  <2> QED
    BY <2>1, <2>6, ElementsWritten
<1> QED
  BY <1>1, <1>2

-----------------------------------------------------------------------------
(* Exceptions                                                              *)

LEMMA ParamsSeq ==
  ASSUME NEW x \in Tag
  PROVE  /\ Params[x] \in Seq(ValType) /\ Len(Params[x]) \in Nat /\ DOMAIN Params[x] = 1 .. Len(Params[x])
         /\ \A k \in DOMAIN Params[x] : Params[x][k] \in ValType
<1>1. Params[x] \in Seq(ValType)
  BY TypesOfThings
<1>2. Len(Params[x]) \in Nat /\ DOMAIN Params[x] = 1 .. Len(Params[x])
  BY <1>1, LenProperties
<1> QED
  BY <1>1, <1>2, ElementOfSeq

\* A layout made from the tags of one throw suits the exceptions of every other, because
\* the types alone decide.
LEMMA RttsWithHonest ==
  ASSUME HonestRtts(exn_rtts), ParamsStatic, NEW tag \in Tag, NEW ts, DOMAIN ts = DOMAIN Params[tag],
         NEW vs, \A k \in DOMAIN Params[tag] : Honest(vs[k], ts[k], Params[tag][k])
  PROVE  /\ HonestRtts(RttsWith(tag, ts)) /\ tag \in DOMAIN RttsWith(tag, ts)
         /\ \A x \in DOMAIN exn_rtts : x \in DOMAIN RttsWith(tag, ts) /\ RttsWith(tag, ts)[x] = exn_rtts[x]
<1>1. CASE tag \in DOMAIN exn_rtts
  BY <1>1 DEF RttsWith
<1>2. CASE tag \notin DOMAIN exn_rtts
  <2> DEFINE new == RttsWith(tag, ts)
             followed == {k \in DOMAIN ts : ts[k] = "T_GCREF"}
  <2>1. new = [x \in DOMAIN exn_rtts \cup {tag} |-> IF x = tag THEN followed ELSE exn_rtts[x]]
    BY <1>2 DEF RttsWith
  <2>2. ASSUME NEW k \in DOMAIN Params[tag], FieldIsRef(Params[tag][k]) PROVE k \in followed
    BY <2>2 DEF ParamsStatic, FieldIsRef, Honest
  <2> HIDE DEF new, followed
  <2>3. /\ DOMAIN new = DOMAIN exn_rtts \cup {tag} /\ new[tag] = followed
        /\ \A x \in DOMAIN exn_rtts : new[x] = exn_rtts[x]
    BY <1>2, <2>1
  <2>4. HonestRtts(new)
    BY <2>2, <2>3 DEF HonestRtts
  <2> QED
    BY <2>3, <2>4 DEF new
<1> QED
  BY <1>1, <1>2

\* An object is traced as before when layouts are only added.
LEMMA MoreRttsHonest ==
  ASSUME HonestHeap(heap, exn_rtts), NEW rtts,
         \A x \in DOMAIN exn_rtts : x \in DOMAIN rtts /\ rtts[x] = exn_rtts[x]
  PROVE  HonestHeap(heap, rtts)
<1> SUFFICES ASSUME NEW o \in DOMAIN heap PROVE HonestObject(heap[o], rtts)
  BY DEF HonestHeap
<1> DEFINE ob == heap[o]
<1>1. HonestObject(ob, exn_rtts)
  BY DEF HonestHeap
<1> HIDE DEF ob
<1>2. Traced(ob, rtts) = Traced(ob, exn_rtts)
  BY <1>1 DEF HonestObject, Traced
<1> QED
  BY <1>1, <1>2 DEF HonestObject, ob

LEMMA ExceptionHonest ==
  ASSUME NEW tag \in Tag, NEW rtts, HonestRtts(rtts), tag \in DOMAIN rtts,
         NEW cells \in Seq(Value), NEW tags \in Seq(ValueTag),
         DOMAIN cells = DOMAIN Params[tag], DOMAIN tags = DOMAIN Params[tag],
         \A k \in DOMAIN Params[tag] : Honest(cells[k], tags[k], Params[tag][k])
  PROVE  HonestObject([type |-> tag, cells |-> cells, tags |-> tags], rtts)
<1>1. \A c \in DOMAIN cells : cells[c] \in Obj => c \in rtts[tag]
  BY DEF Honest, HonestRtts
<1> QED
  BY <1>1, KindsApart DEF HonestObject, Traced

\* What a handler finds on its stack is what was thrown.
LEMMA UnwindHonest ==
  ASSUME SlotsInv, NEW o \in Value, NEW exn, NEW rtts, HonestObject(exn, rtts), exn.type \in Tag,
         Unwind(o, exn)
  PROVE  stack' \in Seq(HonestSlot) /\ frames' \in Seq(HonestFrame)
<1>1. CASE stack' = << >> /\ frames' = << >>
  BY <1>1, EmptySeq
<1>2. ASSUME NEW d \in DOMAIN frames, NEW sp \in 0 .. Len(stack), NEW fields \in BOOLEAN, NEW ref \in BOOLEAN,
             Caught(o, exn, d, sp, fields, ref)
      PROVE  stack' \in Seq(HonestSlot) /\ frames' \in Seq(HonestFrame)
  <2> DEFINE ps == Params[exn.type]
             n == IF fields THEN Len(ps) ELSE 0
             S(k) == Slot(exn.cells[k], exn.tags[k], ps[k])
             vs == [k \in 1 .. n |-> S(k)]
             es == IF ref THEN <<Slot(o, "T_GCREF", RefNonNull("exn"))>> ELSE << >>
  <2>1. stack' = SubSeq(stack, 1, sp) \o (vs \o es) /\ frames' = SubSeq(frames, 1, d)
    BY <1>2 DEF Caught
  <2>2. /\ ps \in Seq(ValType) /\ Len(ps) \in Nat /\ DOMAIN ps = 1 .. Len(ps)
        /\ \A k \in DOMAIN ps : ps[k] \in ValType
    BY ParamsSeq
  <2>3. /\ exn.cells \in Seq(Value) /\ exn.tags \in Seq(ValueTag)
        /\ DOMAIN exn.cells = DOMAIN ps /\ DOMAIN exn.tags = DOMAIN ps
        /\ \A k \in DOMAIN ps : Honest(exn.cells[k], exn.tags[k], ps[k])
    BY DEF HonestObject
  <2>4. \A k \in DOMAIN ps : exn.cells[k] \in Value /\ exn.tags[k] \in ValueTag
    BY <2>3, ElementOfSeq, LenProperties
  <2> HIDE DEF ps
  <2>5. ASSUME NEW k \in DOMAIN ps PROVE S(k) \in HonestSlot
    BY <2>2, <2>3, <2>4, SlotIsHonest
  <2>6. n \in Nat /\ 1 .. n \subseteq DOMAIN ps
    BY <2>2
  <2> HIDE DEF S, n
  <2>7. vs = [k \in 1 .. n |-> vs[k]] /\ \A k \in 1 .. n : vs[k] \in HonestSlot
    BY <2>5, <2>6
  <2> HIDE DEF vs
  <2>8. vs \in Seq(HonestSlot)
    BY <2>6, <2>7, FunctionIsSeq
  <2>9. es \in Seq(HonestSlot)
    BY ObjectSlotHonest, OneSlot
  <2> HIDE DEF es
  <2>10. SubSeq(stack, 1, sp) \in Seq(HonestSlot)
    BY SubStack DEF SlotsInv
  <2>11. SubSeq(frames, 1, d) \in Seq(HonestFrame)
    <3>1. d \in Int /\ d <= Len(frames)
      BY LenProperties DEF SlotsInv
    <3> QED
      BY <3>1, SubStack DEF SlotsInv
  <2>12. vs \o es \in Seq(HonestSlot)
    BY <2>8, <2>9, ConcatProperties
  <2> QED
    BY <2>1, <2>10, <2>11, <2>12, ConcatProperties
<1> QED
  BY <1>1, <1>2 DEF Unwind

LEMMA ThrowKeepsInv ==
  ASSUME SlotsInv, ParamsStatic, NEW tag \in Tag, Throw(tag)
  PROVE  SlotsInv'
<1> DEFINE n == Len(Params[tag])
           ts == [k \in 1 .. n |-> Operand(n - k + 1).t]
           vs == [k \in 1 .. n |-> Operand(n - k + 1).v]
           exn == [type |-> tag, cells |-> vs, tags |-> ts]
           rtts == RttsWith(tag, ts)
<1>1. /\ Operands(Params[tag]) /\ exn_rtts' = rtts /\ UNCHANGED <<gval, gtag>>
      /\ \E o \in Obj \ Marked(stack) : heap' = Allocated(stack, o, tag, exn.cells, exn.tags) /\ Unwind(o, exn)
  BY DEF Throw
<1>2. PICK o \in Obj : heap' = Allocated(stack, o, tag, vs, ts) /\ Unwind(o, exn)
  BY <1>1
<1>3. n \in Nat /\ DOMAIN Params[tag] = 1 .. n
  BY ParamsSeq
<1>4. ASSUME NEW k \in 1 .. n
      PROVE  vs[k] \in Value /\ ts[k] \in ValueTag /\ Honest(vs[k], ts[k], Params[tag][k])
  BY <1>1, <1>3, OperandFacts DEF SlotsInv
<1>5. vs = [k \in 1 .. n |-> vs[k]] /\ ts = [k \in 1 .. n |-> ts[k]]
  OBVIOUS
<1> HIDE DEF vs, ts, n
<1>6. vs \in Seq(Value) /\ ts \in Seq(ValueTag) /\ DOMAIN vs = 1 .. n /\ DOMAIN ts = 1 .. n
  BY <1>3, <1>4, <1>5, FunctionIsSeq
<1>7. /\ HonestRtts(rtts) /\ tag \in DOMAIN rtts
      /\ \A x \in DOMAIN exn_rtts : x \in DOMAIN rtts /\ rtts[x] = exn_rtts[x]
  <2>1. \A k \in DOMAIN Params[tag] : Honest(vs[k], ts[k], Params[tag][k])
    BY <1>3, <1>4
  <2> QED
    BY <1>3, <1>6, <2>1, RttsWithHonest DEF SlotsInv
<1> HIDE DEF rtts
<1>8. HonestObject(exn, rtts) /\ exn.type = tag
  BY <1>3, <1>4, <1>6, <1>7, ExceptionHonest
<1>9. HonestHeap(heap', rtts)
  <2>1. HonestHeap(heap, rtts)
    BY <1>7, MoreRttsHonest DEF SlotsInv
  <2> QED
    BY <1>2, <1>8, <2>1, AllocatedHonest
<1> HIDE DEF exn
<1>10. stack' \in Seq(HonestSlot) /\ frames' \in Seq(HonestFrame)
  BY <1>2, <1>8, ObjIsValue, UnwindHonest
<1> QED
  BY <1>1, <1>7, <1>9, <1>10 DEF SlotsInv, HonestGlobals

LEMMA ThrowRefKeepsInv ==
  ASSUME SlotsInv, ThrowRef
  PROVE  SlotsInv'
<1> DEFINE o == Operand(1).v
<1>1. CASE o = Null
  BY <1>1, TrapKeepsInv DEF ThrowRef
<1>2. CASE o # Null
  <2>1. /\ Operands(<<RefNull("exn")>>) /\ Unwind(o, heap[o])
        /\ UNCHANGED <<heap, gval, gtag, exn_rtts>>
    BY <1>2 DEF ThrowRef
  <2>2. PICK tag \in Tag : o \in DOMAIN heap /\ heap[o].type = tag
    BY <1>2 DEF ThrowRef, PointsAt
  <2>3. o \in Value
    BY <2>1, TopOperand DEF SlotsInv
  <2>4. HonestObject(heap[o], exn_rtts)
    BY <2>2 DEF SlotsInv, HonestHeap
  <2> HIDE DEF o
  <2>5. stack' \in Seq(HonestSlot) /\ frames' \in Seq(HonestFrame)
    BY <2>1, <2>2, <2>3, <2>4, UnwindHonest
  <2> QED
    BY <2>1, <2>5 DEF SlotsInv, HonestGlobals
<1> QED
  BY <1>1, <1>2

-----------------------------------------------------------------------------
(* Calls                                                                   *)

LEMMA FrameHonest ==
  ASSUME NEW i \in Inst, NEW base \in Nat, NEW arg \in LocalSlot, Honest(arg.v, arg.t, LocalTypes[1])
  PROVE  Frame(i, base, arg) \in HonestFrame
<1> DEFINE fr == Frame(i, base, arg)
           Zero(l) == [v |-> DefaultValue(LocalTypes[l]), t |-> "T_VOID"]
           ls == [l \in DOMAIN LocalTypes |-> IF l = 1 THEN arg ELSE Zero(l)]
<1>1. fr = [inst |-> i, base |-> base, locals |-> ls]
  BY DEF Frame
<1>2. ASSUME NEW l \in DOMAIN LocalTypes
      PROVE  Zero(l) \in LocalSlot /\ Honest(Zero(l).v, Zero(l).t, LocalTypes[l])
  <2>1. LocalTypes[l] \in ValType /\ Defaultable(LocalTypes[l])
    BY TypesOfThings, SlotsAssumption
  <2>2. DefaultValue(LocalTypes[l]) \in Value /\ Honest(DefaultValue(LocalTypes[l]), "T_VOID", LocalTypes[l])
    BY <2>1, DefaultHonest DEF Value
  <2> QED
    BY <2>2 DEF LocalSlot, ValueTag
<1> HIDE DEF Zero
<1>3. ls \in [DOMAIN LocalTypes -> LocalSlot]
  BY <1>2
<1>4. \A l \in DOMAIN LocalTypes : Honest(ls[l].v, ls[l].t, LocalTypes[l])
  BY <1>2
<1> HIDE DEF ls
<1> QED
  BY <1>1, <1>3, <1>4 DEF HonestFrame

LEMMA HostCallKeepsInv ==
  ASSUME SlotsInv, NEW i \in Inst, HostCall(i)
  PROVE  SlotsInv'
<1> DEFINE arg == [v |-> Null, t |-> "T_REF"]
           fr == Frame(i, 0, arg)
<1>1. frames' = <<fr>> /\ UNCHANGED <<heap, stack, gval, gtag, exn_rtts>>
  BY DEF HostCall
<1>2. arg \in LocalSlot /\ arg.v \notin Obj /\ LocalTypes[1].null
  BY Scalars, SlotsAssumption DEF LocalSlot, Value, ValueTag
<1>3. fr \in HonestFrame
  BY <1>2, FrameHonest DEF Honest
<1> HIDE DEF fr
<1>4. frames' \in Seq(HonestFrame)
  BY <1>1, <1>3, OneSlot
<1> QED
  BY <1>1, <1>4 DEF SlotsInv, HonestGlobals

LEMMA CallKeepsInv ==
  ASSUME SlotsInv, NEW i \in Inst, Call(i)
  PROVE  SlotsInv'
<1> DEFINE arg == [v |-> Operand(1).v, t |-> Operand(1).t]
           fr == Frame(i, Len(stack) - 1, arg)
<1>1. /\ Operands(<<LocalTypes[1]>>) /\ PopPush(1, << >>) /\ frames' = Append(frames, fr)
      /\ UNCHANGED <<heap, gval, gtag, exn_rtts>>
  BY DEF Call
<1>2. stack' \in Seq(HonestSlot)
  BY <1>1, PopOne
<1>3. Len(stack) - 1 \in Nat
  <2>1. Len(stack) \in Nat /\ Current.base \in Nat
    BY <1>1, CurrentHonest, LenProperties DEF SlotsInv, Operands
  <2>2. Len(stack) - Current.base >= 1
    BY <1>1 DEF Operands
  <2> QED
    BY <2>1, <2>2
<1>4. arg \in LocalSlot /\ Honest(arg.v, arg.t, LocalTypes[1])
  BY <1>1, TopOperand DEF SlotsInv, LocalSlot
<1> HIDE DEF arg
<1>5. fr \in HonestFrame
  BY <1>3, <1>4, FrameHonest
<1> HIDE DEF fr
<1>6. frames' \in Seq(HonestFrame)
  BY <1>1, <1>5, AppendProperties DEF SlotsInv
<1> QED
  BY <1>1, <1>2, <1>6 DEF SlotsInv, HonestGlobals

LEMMA ReturnKeepsInv ==
  ASSUME SlotsInv, Return
  PROVE  SlotsInv'
<1> DEFINE st == LocalTypes[1]
           s == Operand(1)
           base == Current.base
           out == IF Len(frames) = 1 THEN << >> ELSE <<[s EXCEPT !.st = st]>>
<1>1. /\ Operands(<<st>>) /\ frames' = Front(frames) /\ stack' = SubSeq(stack, 1, base) \o out
      /\ UNCHANGED <<heap, gval, gtag, exn_rtts>>
  BY DEF Return
<1>2. s \in HonestSlot /\ Honest(s.v, s.t, st) /\ st \in ValType
  BY <1>1, TopOperand, TypesOfThings DEF SlotsInv
<1>3. base \in Nat /\ base <= Len(stack) /\ Len(frames) \in Nat
  <2>1. base \in Nat /\ Len(stack) \in Nat /\ Len(frames) \in Nat
    BY <1>1, CurrentHonest, LenProperties DEF SlotsInv, Operands
  <2>2. Len(stack) - base >= 1
    BY <1>1 DEF Operands
  <2> QED
    BY <2>1, <2>2
<1> HIDE DEF s, base, st
<1>4. [s EXCEPT !.st = st] \in HonestSlot
  <2> DEFINE x == [v |-> s.v, t |-> s.t, st |-> st]
  <2>1. s \in [v : Value, t : ValueTag, st : ValType]
    BY <1>2 DEF HonestSlot
  <2>2. x \in HonestSlot
    BY <1>2, <2>1 DEF HonestSlot
  <2>3. [s EXCEPT !.st = st] = x
    BY <2>1
  <2> QED
    BY <2>2, <2>3
<1>5. out \in Seq(HonestSlot)
  BY <1>4, OneSlot
<1> HIDE DEF out
<1>6. stack' \in Seq(HonestSlot)
  <2>1. SubSeq(stack, 1, base) \in Seq(HonestSlot)
    BY <1>3, SubStack DEF SlotsInv
  <2> QED
    BY <1>1, <1>5, <2>1, ConcatProperties
<1>7. frames' \in Seq(HonestFrame)
  <2>1. frames' = SubSeq(frames, 1, Len(frames) - 1)
    BY <1>1 DEF Front
  <2> QED
    BY <1>3, <2>1, SubStack DEF SlotsInv
<1> QED
  BY <1>1, <1>6, <1>7 DEF SlotsInv, HonestGlobals

-----------------------------------------------------------------------------
\* What the collector finds in an object.
Found(o) == {heap[o].cells[c] : c \in Traced(heap[o], exn_rtts)}

\* gc_collect's closure, one round after the other.
LEMMA MarkedUnfolds ==
  ASSUME IsFiniteSet(Obj), NEW stk
  PROVE  \E reach :
           /\ reach[0] = Roots(stk)
           /\ \A k \in 1 .. Cardinality(Obj) :
                reach[k] = reach[k - 1] \cup UNION {Found(o) : o \in reach[k - 1] \cap DOMAIN heap}
           /\ Marked(stk) = reach[Cardinality(Obj)] \cap DOMAIN heap
<1> DEFINE last == Cardinality(Obj)
           More(R) == R \cup UNION {{heap[o].cells[c] : c \in Traced(heap[o], exn_rtts)} : o \in R \cap DOMAIN heap}
           Step(f, k) == IF k = 0 THEN Roots(stk) ELSE More(f[k - 1])
           Holds(f, n) == f = [k \in 0 .. n |-> Step(f, k)]
           bad == {n \in 0 .. last : ~ \E f : Holds(f, n)}
<1>1. last \in Nat
  BY FS_CardinalityType
<1> HIDE DEF last, More
<1>2. ASSUME NEW m \in bad, \A k \in bad : m <= k
      PROVE  FALSE
  <2>1. m \in 0 .. last /\ m \in Nat
    BY <1>1
  <2>2. m # 0
    <3>1. SUFFICES ASSUME m = 0 PROVE \E f : Holds(f, m)
      OBVIOUS
    <3>2. \A k \in 0 .. m : k = 0
      BY <3>1
    <3>3. Holds([k \in 0 .. m |-> Roots(stk)], m)
      BY <3>2
    <3> QED
      BY <3>3
  <2>3. m - 1 \in 0 .. last /\ m - 1 \in Nat
    BY <1>1, <2>1, <2>2
  <2>4. m - 1 \notin bad
    <3> HIDE DEF bad
    <3> QED
      BY <1>2, <2>1
  <2>5. PICK f : Holds(f, m - 1)
    BY <2>3, <2>4
  <2> DEFINE g == [k \in 0 .. m |-> IF k = m THEN Step(f, m) ELSE f[k]]
  <2>6. \A k \in 0 .. m - 1 : g[k] = f[k]
    BY <2>1
  <2>7. ASSUME NEW k \in 0 .. m
        PROVE  Step(g, k) = Step(f, k) /\ g[k] = Step(f, k)
    <3>1. k # 0 => k - 1 \in 0 .. m - 1
      BY <2>1
    <3>2. Step(g, k) = Step(f, k)
      <4> HIDE DEF g
      <4> QED
        BY <2>6, <3>1
    <3>3. k # m => f[k] = Step(f, k)
      <4>1. k # m => k \in 0 .. m - 1
        BY <2>1
      <4> QED
        BY <2>5, <4>1
    <3>4. g[k] = Step(f, k)
      <4> HIDE DEF Step
      <4> QED
        BY <3>3
    <3> QED
      BY <3>2, <3>4
  <2>8. Holds(g, m)
    <3>1. g = [k \in 0 .. m |-> g[k]]
      OBVIOUS
    <3> HIDE DEF g, Step
    <3> QED
      BY <2>7, <3>1
  <2> QED
    BY <2>8
<1>3. bad = {}
  <2>1. bad \in SUBSET Nat
    BY <1>1
  <2> HIDE DEF bad
  <2> QED
    BY <1>2, <2>1, LeastNumber
<1>4. \E f : f = [k \in 0 .. Cardinality(Obj) |->
                   IF k = 0 THEN Roots(stk)
                   ELSE f[k - 1] \cup UNION {{heap[o].cells[c] : c \in Traced(heap[o], exn_rtts)} :
                                               o \in f[k - 1] \cap DOMAIN heap}]
  <2>1. last \in 0 .. last
    BY <1>1
  <2>2. \E f : Holds(f, last)
    BY <1>3, <2>1
  <2> QED
    BY <2>2 DEF last, More
<1> HIDE DEF bad, Holds, Step
<1> DEFINE reach == CHOOSE f : f = [k \in 0 .. Cardinality(Obj) |->
                   IF k = 0 THEN Roots(stk)
                   ELSE f[k - 1] \cup UNION {{heap[o].cells[c] : c \in Traced(heap[o], exn_rtts)} :
                                               o \in f[k - 1] \cap DOMAIN heap}]
<1>5. reach = [k \in 0 .. Cardinality(Obj) |->
                 IF k = 0 THEN Roots(stk)
                 ELSE reach[k - 1] \cup UNION {{heap[o].cells[c] : c \in Traced(heap[o], exn_rtts)} :
                                                 o \in reach[k - 1] \cap DOMAIN heap}]
  BY <1>4, Zenon
<1>6. Marked(stk) = reach[Cardinality(Obj)] \cap DOMAIN heap
  BY DEF Marked
<1> HIDE DEF reach
<1>7. \A k \in 0 .. last : reach[k] = IF k = 0 THEN Roots(stk) ELSE More(reach[k - 1])
  BY <1>5 DEF last, More
<1>8. reach[0] = Roots(stk)
  BY <1>1, <1>7
<1>9. \A k \in 1 .. last : reach[k] = reach[k - 1] \cup UNION {Found(o) : o \in reach[k - 1] \cap DOMAIN heap}
  <2>1. \A R : More(R) = R \cup UNION {Found(o) : o \in R \cap DOMAIN heap}
    BY DEF More, Found
  <2>2. \A k \in 1 .. last : k \in 0 .. last /\ k # 0
    BY <1>1
  <2> HIDE DEF More, Found
  <2>3. \A k \in 1 .. last : reach[k] = More(reach[k - 1])
    BY <1>7, <2>2
  <2> QED
    BY <2>1, <2>3
<1> QED
  BY <1>6, <1>8, <1>9 DEF last

\* The closure is reached: each round but the last finds a new object, and there are no more
\* rounds than objects.
LEMMA MarkedIsClosed ==
  ASSUME DOMAIN heap \subseteq Obj, NEW stk
  PROVE  /\ Marked(stk) \subseteq DOMAIN heap /\ Roots(stk) \cap DOMAIN heap \subseteq Marked(stk)
         /\ \A o \in Marked(stk) : Found(o) \cap DOMAIN heap \subseteq Marked(stk)
<1> DEFINE last == Cardinality(Obj)
<1>1. IsFiniteSet(Obj) /\ last \in Nat
  BY SlotsAssumption, FS_CardinalityType
<1>2. PICK reach :
        /\ reach[0] = Roots(stk)
        /\ \A k \in 1 .. last :
             reach[k] = reach[k - 1] \cup UNION {Found(o) : o \in reach[k - 1] \cap DOMAIN heap}
        /\ Marked(stk) = reach[last] \cap DOMAIN heap
  BY <1>1, MarkedUnfolds
<1> DEFINE L(k) == reach[k] \cap DOMAIN heap
           Closed(k) == \A o \in L(k) : Found(o) \cap DOMAIN heap \subseteq L(k)
           Right(k) == /\ Roots(stk) \cap DOMAIN heap \subseteq L(k)
                       /\ Closed(k) \/ Cardinality(L(k)) >= k
           bad == {k \in 0 .. last : ~ Right(k)}
<1> HIDE DEF last, Found
<1>3. \A k : L(k) \subseteq Obj /\ IsFiniteSet(L(k)) /\ Cardinality(L(k)) \in Nat
  <2> TAKE k
  <2>1. L(k) \subseteq Obj
    OBVIOUS
  <2> HIDE DEF L
  <2>2. IsFiniteSet(L(k))
    BY <1>1, <2>1, FS_Subset
  <2> QED
    BY <2>1, <2>2, FS_CardinalityType
<1>4. ASSUME NEW m \in bad, \A k \in bad : m <= k
      PROVE  FALSE
  <2>1. m \in 0 .. last /\ m \in Nat /\ ~ Right(m)
    BY <1>1
  <2>2. m # 0
    <3>1. Right(0)
      <4>1. Cardinality(L(0)) >= 0
        <5> HIDE DEF L
        <5> QED
          BY <1>3
      <4>2. Roots(stk) \cap DOMAIN heap \subseteq L(0)
        BY <1>2
      <4> QED
        BY <4>1, <4>2
    <3> HIDE DEF Right
    <3> QED
      BY <2>1, <3>1
  <2> DEFINE n == m - 1
  <2>3. n \in 0 .. last /\ n \in Nat /\ m \in 1 .. last /\ n + 1 = m
    BY <1>1, <2>1, <2>2
  <2>4. Right(n)
    <3>1. n \notin bad
      <4>1. ~ (m <= n)
        BY <2>1
      <4> HIDE DEF bad, n
      <4> QED
        BY <1>4, <4>1
    <3> HIDE DEF Right, n
    <3> QED
      BY <2>3, <3>1
  <2>5. L(m) = L(n) \cup (UNION {Found(o) : o \in L(n)} \cap DOMAIN heap)
    BY <1>2, <2>3
  <2>6. Roots(stk) \cap DOMAIN heap \subseteq L(m)
    BY <2>4, <2>5
  <2>7. CASE Closed(n)
    <3>1. L(m) = L(n)
      BY <2>5, <2>7
    <3> HIDE DEF L
    <3>2. Closed(m)
      BY <2>7, <3>1
    <3> QED
      BY <2>1, <2>6, <3>2
  <2>8. CASE ~ Closed(n)
    <3>1. PICK x : x \in L(m) /\ x \notin L(n)
      BY <2>5, <2>8
    <3>2. L(n) \cup {x} \subseteq L(m)
      BY <2>5, <3>1
    <3>3. Cardinality(L(n)) >= n
      BY <2>4, <2>8
    <3> HIDE DEF L
    <3>4. Cardinality(L(n) \cup {x}) = Cardinality(L(n)) + 1
      BY <1>3, <3>1, FS_AddElement
    <3>5. Cardinality(L(n) \cup {x}) <= Cardinality(L(m))
      BY <1>3, <3>2, FS_Subset
    <3>6. Cardinality(L(m)) >= m
      BY <1>3, <2>3, <3>3, <3>4, <3>5
    <3> QED
      BY <2>1, <2>6, <3>6
  <2> QED
    BY <2>7, <2>8
<1>5. bad = {}
  <2>1. bad \in SUBSET Nat
    BY <1>1
  <2> HIDE DEF bad
  <2> QED
    BY <1>4, <2>1, LeastNumber
<1>6. Right(last)
  <2>1. last \in 0 .. last
    BY <1>1
  <2> HIDE DEF Right
  <2> QED
    BY <1>5, <2>1
<1>7. Closed(last)
  <2>1. SUFFICES ASSUME Cardinality(L(last)) >= last PROVE Closed(last)
    BY <1>6
  <2>2. L(last) = Obj
    <3> HIDE DEF L
    <3>1. Cardinality(L(last)) <= Cardinality(Obj) /\ (Cardinality(Obj) = Cardinality(L(last)) => Obj = L(last))
      BY <1>1, <1>3, FS_Subset
    <3> QED
      BY <1>1, <1>3, <2>1, <3>1 DEF last
  <2> QED
    BY <2>2
<1> QED
  BY <1>2, <1>6, <1>7

-----------------------------------------------------------------------------
(* What values are                                                         *)

\* HasType in a heap h.
Fits(h, v, st) ==
  \/ v = Null /\ st.null
  \/ v = I31 /\ st.ht \in {"i31", "any"}
  \/ v = Fn /\ st.ht = "func"
  \/ v = Num /\ st.ht \in {"num", "v128"}
  \/ /\ v \in DOMAIN h
     /\ \/ h[v].type = st.ht
        \/ h[v].type \in Aggregate /\ st.ht = "any"
        \/ h[v].type \in Tag /\ st.ht = "exn"

\* The types whose values the collector may follow.
Followable(vt) == vt.ht \in Aggregate \cup {"any", "exn", "i31"}

\* A value v with tag t is of the validated type vt, and followed only if that type says so.
Kept(h, v, t, vt) == Fits(h, v, vt) /\ (t = "T_GCREF" => Followable(vt))

KeptSlots(h, q) == \A k \in DOMAIN q : Kept(h, q[k].v, q[k].t, q[k].st)
KeptLocals(h, ls) == \A l \in DOMAIN LocalTypes : Kept(h, ls[l].v, ls[l].t, LocalTypes[l])
KeptFrames(h, q) == \A d \in DOMAIN q : KeptLocals(h, q[d].locals)

KeptGlobals(h, gv, gt) ==
  \A g \in Global :
    /\ Fits(h, gv[g], GlobalType[g]) /\ (gv[g] \in Obj => Sees[g] # {})
    /\ \A i \in Sees[g] : gt[i][g] = "T_GCREF" => Followable(GlobalType[g])

\* The fields, elements or parameters of an object are of their types.
KeptObject(h, ob) ==
  /\ ob.type \in StructType =>
       \A f \in DOMAIN Fields[ob.type] : Fits(h, ob.cells[Offset(ob.type, f)], Fields[ob.type][f])
  /\ ob.type \in ArrayType => \A c \in DOMAIN ob.cells : Fits(h, ob.cells[c], Elem[ob.type])
  /\ ob.type \in Tag =>
       \A k \in DOMAIN Params[ob.type] : Kept(h, ob.cells[k], ob.tags[k], Params[ob.type][k])

KeptHeap(h) == DOMAIN h \subseteq Obj /\ \A o \in DOMAIN h : KeptObject(h, h[o])
KeptRtts(rtts) ==
  \A x \in DOMAIN rtts : \A k \in rtts[x] : k \in DOMAIN Params[x] /\ Followable(Params[x][k])

TypedInv ==
  /\ KeptSlots(heap, stack) /\ KeptFrames(heap, frames)
  /\ KeptGlobals(heap, gval, gtag) /\ KeptHeap(heap) /\ KeptRtts(exn_rtts)

\* The objects of a heap are of known types.
KnownTypes(h) == \A o \in DOMAIN h : h[o].type \in Aggregate \cup Tag

LEMMA FitsIsHasType ==
  ASSUME NEW v, NEW st
  PROVE  HasType(v, st) <=> Fits(heap, v, st)
BY DEF HasType, Fits

LEMMA HeapTypesKnown ==
  ASSUME SlotsInv
  PROVE  KnownTypes(heap)
BY DEF SlotsInv, HonestHeap, HonestObject, KnownTypes

LEMMA HeapTypesStayKnown ==
  ASSUME SlotsInv'
  PROVE  KnownTypes(heap')
<1>1. HonestHeap(heap', exn_rtts')
  BY DEF SlotsInv
<1> QED
  BY <1>1 DEF HonestHeap, HonestObject, KnownTypes

\* A value of a type is one of each type above it.
LEMMA FitsSubtype ==
  ASSUME NEW h, KnownTypes(h), NEW v, NEW a \in ValType, NEW b, SubType(a, b), Fits(h, v, a)
  PROVE  Fits(h, v, b)
<1>1. CASE a.ht = b.ht
  BY <1>1 DEF Fits, SubType
<1>2. CASE a.ht = "none" /\ b.ht \in HeapType
  <2>1. v = Null \/ (v \in DOMAIN h /\ h[v].type = "none")
    BY <1>2 DEF Fits
  <2>2. v = Null
    BY <2>1, SlotsAssumption DEF KnownTypes, Aggregate
  <2>3. a.null
    BY <1>2, NoneIsNullable
  <2> QED
    BY <2>2, <2>3 DEF Fits, SubType
<1>3. CASE a.ht \in Aggregate \cup {"i31"} /\ b.ht = "any"
  <2>1. v \in DOMAIN h => h[v].type # "i31"
    BY SlotsAssumption DEF KnownTypes, Aggregate
  <2>2. a.ht \notin {"func", "num", "v128", "any", "exn"}
    BY <1>3, SlotsAssumption
  <2> QED
    BY <1>3, <2>1, <2>2 DEF Fits, SubType
<1> QED
  BY <1>1, <1>2, <1>3 DEF SubType, SubHeapType

LEMMA KeptSubtype ==
  ASSUME NEW h, KnownTypes(h), NEW v, NEW t, NEW a \in ValType, NEW b, SubType(a, b), Kept(h, v, t, a)
  PROVE  Kept(h, v, t, b)
<1>1. Followable(a) => Followable(b)
  BY SlotsAssumption DEF Followable, SubType, SubHeapType
<1> QED
  BY <1>1, FitsSubtype DEF Kept

\* A value is of its type as long as the object it points at is there.
LEMMA FitsStays ==
  ASSUME NEW h, NEW g, NEW v, NEW st, Fits(h, v, st),
         v \in DOMAIN h => v \in DOMAIN g /\ g[v].type = h[v].type
  PROVE  Fits(g, v, st)
BY DEF Fits

\* A null and a number are of the types of which they are defaults.
LEMMA DefaultFits ==
  ASSUME NEW h, NEW vt \in ValType, Defaultable(vt)
  PROVE  Fits(h, DefaultValue(vt), vt)
BY DEF Fits, Defaultable, DefaultValue

-----------------------------------------------------------------------------
(* Typed operands                                                          *)

\* The operands of an instruction are of the types it takes.
LEMMA OperandKept ==
  ASSUME SlotsInv, NEW h, KnownTypes(h), KeptSlots(h, stack), NEW ts, Len(ts) \in Nat,
         DOMAIN ts = 1 .. Len(ts), Operands(ts), NEW k \in DOMAIN ts
  PROVE  Kept(h, Operand(Len(ts) - k + 1).v, Operand(Len(ts) - k + 1).t, ts[k])
<1> DEFINE s == Operand(Len(ts) - k + 1)
<1>1. s.st \in ValType /\ SubType(s.st, ts[k])
  BY OperandFacts DEF SlotsInv
<1>2. Len(stack) \in Nat /\ Current.base \in Nat /\ Len(stack) - Current.base >= Len(ts)
      /\ DOMAIN stack = 1 .. Len(stack)
  BY CurrentHonest, LenProperties DEF Operands, SlotsInv
<1>3. Len(stack) - (Len(ts) - k + 1) + 1 \in DOMAIN stack
  BY <1>2
<1>4. Kept(h, s.v, s.t, s.st)
  BY <1>3 DEF KeptSlots, Operand
<1> HIDE DEF s
<1>5. Kept(h, s.v, s.t, ts[k])
  BY <1>1, <1>4, KeptSubtype
<1> QED
  BY <1>5 DEF s

LEMMA TopKept ==
  ASSUME SlotsInv, NEW h, KnownTypes(h), KeptSlots(h, stack), NEW st, Operands(<<st>>)
  PROVE  Kept(h, Operand(1).v, Operand(1).t, st)
<1> DEFINE ts == <<st>>
<1>1. Len(ts) = 1 /\ DOMAIN ts = 1 .. 1 /\ ts[1] = st
  OBVIOUS
<1> HIDE DEF ts
<1>2. Operands(ts)
  BY DEF ts
<1>3. Len(ts) - 1 + 1 = 1 /\ 1 \in DOMAIN ts /\ Len(ts) \in Nat /\ DOMAIN ts = 1 .. Len(ts)
  BY <1>1
<1> QED
  BY <1>1, <1>2, <1>3, OperandKept

LEMMA TwoKept ==
  ASSUME SlotsInv, NEW h, KnownTypes(h), KeptSlots(h, stack), NEW s1, NEW s2, Operands(<<s1, s2>>)
  PROVE  Kept(h, Operand(1).v, Operand(1).t, s2) /\ Kept(h, Operand(2).v, Operand(2).t, s1)
<1> DEFINE ts == <<s1, s2>>
<1>1. Len(ts) = 2 /\ DOMAIN ts = 1 .. 2 /\ ts[1] = s1 /\ ts[2] = s2
  OBVIOUS
<1> HIDE DEF ts
<1>2. Operands(ts)
  BY DEF ts
<1>3. /\ Len(ts) - 1 + 1 = 2 /\ Len(ts) - 2 + 1 = 1 /\ 1 \in DOMAIN ts /\ 2 \in DOMAIN ts
      /\ Len(ts) \in Nat /\ DOMAIN ts = 1 .. Len(ts)
  BY <1>1
<1>4. Kept(h, Operand(2).v, Operand(2).t, s1)
  BY <1>1, <1>2, <1>3, OperandKept
<1>5. Kept(h, Operand(1).v, Operand(1).t, s2)
  BY <1>1, <1>2, <1>3, OperandKept
<1> QED
  BY <1>4, <1>5

\* What is left of the stack and what is pushed on it.
LEMMA SplicedKept ==
  ASSUME NEW h, NEW S, NEW q \in Seq(S), NEW m \in 0 .. Len(q), NEW T, NEW p \in Seq(T),
         \A k \in 1 .. m : Kept(h, q[k].v, q[k].t, q[k].st), KeptSlots(h, p)
  PROVE  KeptSlots(h, SubSeq(q, 1, m) \o p) /\ Len(SubSeq(q, 1, m) \o p) = m + Len(p)
<1> DEFINE a == SubSeq(q, 1, m)
<1>1. m \in Nat /\ Len(q) \in Nat /\ m <= Len(q)
  BY LenProperties
<1>2. a \in Seq(S) /\ Len(a) = m /\ \A k \in 1 .. m : a[k] = q[k]
  BY <1>1
<1> HIDE DEF a
<1>3. Len(p) \in Nat /\ DOMAIN p = 1 .. Len(p)
  BY LenProperties
<1>4. /\ Len(a \o p) = m + Len(p) /\ DOMAIN (a \o p) = 1 .. m + Len(p)
      /\ \A k \in 1 .. m + Len(p) : (a \o p)[k] = IF k <= m THEN a[k] ELSE p[k - m]
  <2> DEFINE U == S \cup T
  <2>1. a \in Seq(U) /\ p \in Seq(U)
    BY <1>2, SeqMonotonic
  <2> HIDE DEF U
  <2> QED
    BY <1>2, <2>1
<1>5. ASSUME NEW k \in DOMAIN (a \o p)
      PROVE  Kept(h, (a \o p)[k].v, (a \o p)[k].t, (a \o p)[k].st)
  <2>1. k \in 1 .. m + Len(p) /\ (a \o p)[k] = IF k <= m THEN a[k] ELSE p[k - m]
    BY <1>4
  <2>2. CASE k <= m
    BY <1>1, <1>2, <2>1, <2>2
  <2>3. CASE ~ (k <= m)
    <3>1. k - m \in DOMAIN p
      BY <1>1, <1>3, <2>1, <2>3
    <3> QED
      BY <2>1, <2>3, <3>1 DEF KeptSlots
  <2> QED
    BY <2>2, <2>3
<1> QED
  BY <1>4, <1>5 DEF KeptSlots, a

LEMMA OneKept ==
  ASSUME NEW h, NEW s, Kept(h, s.v, s.t, s.st)
  PROVE  <<s>> \in Seq({s}) /\ Len(<<s>>) = 1 /\ KeptSlots(h, <<s>>)
BY DEF KeptSlots

LEMMA NothingKept ==
  ASSUME NEW h
  PROVE  << >> \in Seq({}) /\ Len(<< >>) = 0 /\ KeptSlots(h, << >>)
BY DEF KeptSlots

LEMMA SlotParts ==
  ASSUME NEW v, NEW t, NEW st
  PROVE  Slot(v, t, st).v = v /\ Slot(v, t, st).t = t /\ Slot(v, t, st).st = st
BY DEF Slot

\* n slots are popped and a value of its type is pushed.
LEMMA PushKept ==
  ASSUME SlotsInv, NEW h, NEW n \in Nat, n <= Len(stack),
         \A k \in 1 .. Len(stack) - n : Kept(h, stack[k].v, stack[k].t, stack[k].st),
         NEW v, NEW t, NEW st, PopPush(n, <<Slot(v, t, st)>>), Kept(h, v, t, st)
  PROVE  KeptSlots(h, stack')
<1> DEFINE s == Slot(v, t, st)
<1>1. Kept(h, s.v, s.t, s.st)
  BY SlotParts
<1>2. Len(stack) - n \in 0 .. Len(stack) /\ stack \in Seq(HonestSlot)
  BY LenProperties DEF SlotsInv
<1>3. stack' = SubSeq(stack, 1, Len(stack) - n) \o <<s>>
  BY DEF PopPush, Below
<1> HIDE DEF s
<1> QED
  BY <1>1, <1>2, <1>3, OneKept, SplicedKept

LEMMA PopKept ==
  ASSUME SlotsInv, NEW h, NEW n \in Nat, n <= Len(stack), KeptSlots(h, stack), PopPush(n, << >>)
  PROVE  KeptSlots(h, stack')
<1>1. Len(stack) - n \in 0 .. Len(stack) /\ stack \in Seq(HonestSlot) /\ DOMAIN stack = 1 .. Len(stack)
  BY LenProperties DEF SlotsInv
<1>2. stack' = SubSeq(stack, 1, Len(stack) - n) \o << >>
  BY DEF PopPush, Below
<1>3. \A k \in 1 .. Len(stack) - n : Kept(h, stack[k].v, stack[k].t, stack[k].st)
  BY <1>1 DEF KeptSlots
<1> QED
  BY <1>1, <1>2, <1>3, NothingKept, SplicedKept

\* There are as many slots as an instruction takes.
LEMMA EnoughSlots ==
  ASSUME SlotsInv, Running
  PROVE  /\ Len(stack) \in Nat /\ Current.base \in Nat
         /\ \A n \in Nat : Len(stack) - Current.base >= n => n <= Len(stack)
<1>1. Len(stack) \in Nat /\ Current.base \in Nat
  BY CurrentHonest, LenProperties DEF SlotsInv
<1> QED
  BY <1>1

LEMMA EnoughOperands ==
  ASSUME SlotsInv, NEW ts, Len(ts) \in Nat, Operands(ts)
  PROVE  Running /\ Len(ts) <= Len(stack)
BY EnoughSlots DEF Operands

LEMMA OneOrTwo ==
  ASSUME NEW a, NEW b
  PROVE  Len(<<a>>) = 1 /\ Len(<<a, b>>) = 2
OBVIOUS

-----------------------------------------------------------------------------
(* Typed steps on the stack, the locals and the globals                    *)

LEMMA TypedStackStep ==
  ASSUME TypedInv, OnStackOnly, KeptSlots(heap, stack')
  PROVE  TypedInv'
BY DEF TypedInv, OnStackOnly

LEMMA TrapKeepsTyped ==
  ASSUME TypedInv, Trap
  PROVE  TypedInv'
BY DEF TypedInv, Trap, KeptSlots, KeptFrames

LEMMA PushKeepsTyped ==
  ASSUME SlotsInv, TypedInv, NEW n \in Nat, n <= Len(stack), OnStackOnly,
         NEW v, NEW t, NEW st, PopPush(n, <<Slot(v, t, st)>>), Kept(heap, v, t, st)
  PROVE  TypedInv'
<1>1. DOMAIN stack = 1 .. Len(stack) /\ Len(stack) \in Nat
  BY LenProperties DEF SlotsInv
<1>2. \A k \in 1 .. Len(stack) - n : Kept(heap, stack[k].v, stack[k].t, stack[k].st)
  BY <1>1 DEF TypedInv, KeptSlots
<1>3. KeptSlots(heap, stack')
  BY <1>2, PushKept
<1> QED
  BY <1>3, TypedStackStep

LEMMA ConstKeepsTyped ==
  ASSUME SlotsInv, TypedInv, Const
  PROVE  TypedInv'
<1>1. PICK s \in {Slot(Null, "T_REF", RefNull("none")), Slot(I31, "T_REF", RefNonNull("i31")),
                  Slot(Fn, "T_REF", RefNonNull("func")), Slot(Num, "T_V128", Numeric("v128")),
                  Slot(Num, "T_INT", Numeric("num"))} : PopPush(0, <<s>>)
  BY DEF Const
<1>2. OnStackOnly /\ 0 \in Nat /\ 0 <= Len(stack)
  BY LenProperties DEF Const, SlotsInv
<1>3. /\ Kept(heap, Null, "T_REF", RefNull("none")) /\ Kept(heap, I31, "T_REF", RefNonNull("i31"))
      /\ Kept(heap, Fn, "T_REF", RefNonNull("func")) /\ Kept(heap, Num, "T_V128", Numeric("v128"))
      /\ Kept(heap, Num, "T_INT", Numeric("num"))
  BY DEF Kept, Fits, RefNull, RefNonNull, Numeric
<1>4. CASE s = Slot(Null, "T_REF", RefNull("none"))
  BY <1>1, <1>2, <1>3, <1>4, PushKeepsTyped
<1>5. CASE s = Slot(I31, "T_REF", RefNonNull("i31"))
  BY <1>1, <1>2, <1>3, <1>5, PushKeepsTyped
<1>6. CASE s = Slot(Fn, "T_REF", RefNonNull("func"))
  BY <1>1, <1>2, <1>3, <1>6, PushKeepsTyped
<1>7. CASE s = Slot(Num, "T_V128", Numeric("v128"))
  BY <1>1, <1>2, <1>3, <1>7, PushKeepsTyped
<1>8. CASE s = Slot(Num, "T_INT", Numeric("num"))
  BY <1>1, <1>2, <1>3, <1>8, PushKeepsTyped
<1> QED
  BY <1>4, <1>5, <1>6, <1>7, <1>8

LEMMA DropKeepsTyped ==
  ASSUME SlotsInv, TypedInv, Drop
  PROVE  TypedInv'
<1>1. Running /\ Len(stack) > Current.base /\ PopPush(1, << >>) /\ OnStackOnly
  BY DEF Drop
<1>2. 1 <= Len(stack)
  BY <1>1, EnoughSlots
<1>3. KeptSlots(heap, stack')
  BY <1>1, <1>2, PopKept DEF TypedInv
<1> QED
  BY <1>1, <1>3, TypedStackStep

LEMMA SelectKeepsTyped ==
  ASSUME SlotsInv, TypedInv, NEW st, Select(st)
  PROVE  TypedInv'
<1>1. PICK k \in {1, 2} : PopPush(2, <<[Operand(k) EXCEPT !.st = st]>>)
  BY DEF Select
<1>2. Operands(<<st, st>>) /\ OnStackOnly
  BY DEF Select
<1>3. Operand(k) \in HonestSlot
  BY <1>2, TwoOperands DEF SlotsInv
<1>4. Kept(heap, Operand(k).v, Operand(k).t, st)
  BY <1>2, HeapTypesKnown, TwoKept DEF TypedInv
<1>5. [Operand(k) EXCEPT !.st = st] = Slot(Operand(k).v, Operand(k).t, st)
  <2> DEFINE s == Operand(k)
  <2>1. s \in [v : Value, t : ValueTag, st : ValType]
    BY <1>3 DEF HonestSlot
  <2> HIDE DEF s
  <2>2. [s EXCEPT !.st = st] = Slot(s.v, s.t, st)
    BY <2>1 DEF Slot
  <2> QED
    BY <2>2 DEF s
<1>6. 2 <= Len(stack)
  <2>1. Len(<<st, st>>) = 2
    BY OneOrTwo
  <2> QED
    BY <1>2, <2>1, EnoughOperands
<1> QED
  BY <1>1, <1>2, <1>4, <1>5, <1>6, PushKeepsTyped

LEMMA CurrentKept ==
  ASSUME SlotsInv, TypedInv, Running, NEW l \in DOMAIN LocalTypes
  PROVE  Kept(heap, Current.locals[l].v, Current.locals[l].t, LocalTypes[l])
<1>1. Len(frames) \in DOMAIN frames
  BY CurrentHonest, LenProperties DEF SlotsInv
<1> QED
  BY <1>1 DEF TypedInv, KeptFrames, KeptLocals, Current, Last

LEMMA LocalGetKeepsTyped ==
  ASSUME SlotsInv, TypedInv, NEW l \in DOMAIN LocalTypes, LocalGet(l)
  PROVE  TypedInv'
<1>1. /\ Running /\ PopPush(0, <<Slot(Current.locals[l].v, Current.locals[l].t, LocalTypes[l])>>)
      /\ OnStackOnly
  BY DEF LocalGet
<1>2. Kept(heap, Current.locals[l].v, Current.locals[l].t, LocalTypes[l])
  BY <1>1, CurrentKept
<1>3. 0 \in Nat /\ 0 <= Len(stack)
  BY LenProperties DEF SlotsInv
<1> QED
  BY <1>1, <1>2, <1>3, PushKeepsTyped

\* One operand is taken off the stack.
LEMMA PopOneKept ==
  ASSUME SlotsInv, TypedInv, NEW st, Operands(<<st>>), PopPush(1, << >>)
  PROVE  KeptSlots(heap, stack') /\ Kept(heap, Operand(1).v, Operand(1).t, st)
<1>1. Len(<<st>>) = 1
  BY OneOrTwo
<1>2. 1 <= Len(stack)
  BY <1>1, EnoughOperands
<1> QED
  BY <1>2, HeapTypesKnown, PopKept, TopKept DEF TypedInv

LEMMA LocalSetKeepsTyped ==
  ASSUME SlotsInv, TypedInv, NEW l \in DOMAIN LocalTypes, LocalSet(l)
  PROVE  TypedInv'
<1> DEFINE x == [v |-> Operand(1).v, t |-> Operand(1).t]
           n == Len(frames)
<1>1. /\ Operands(<<LocalTypes[l]>>) /\ PopPush(1, << >>)
      /\ frames' = [frames EXCEPT ![n].locals[l] = x]
      /\ UNCHANGED <<heap, gval, gtag, exn_rtts>>
  BY DEF LocalSet
<1>2. KeptSlots(heap, stack') /\ Kept(heap, x.v, x.t, LocalTypes[l])
  BY <1>1, PopOneKept
<1> HIDE DEF x
<1>3. Running /\ n \in DOMAIN frames
  BY <1>1, CurrentHonest, LenProperties DEF Operands, SlotsInv
<1>4. ASSUME NEW d \in DOMAIN frames'
      PROVE  KeptLocals(heap, frames'[d].locals)
  <2>1. d \in DOMAIN frames /\ frames[d] \in HonestFrame
    BY <1>1, ElementOfSeq, LenProperties DEF SlotsInv
  <2>2. KeptLocals(heap, frames[d].locals)
    BY <2>1 DEF TypedInv, KeptFrames
  <2>3. CASE d # n
    BY <1>1, <2>1, <2>2, <2>3
  <2>4. CASE d = n
    <3> DEFINE fr == frames[d]
               ls == [fr.locals EXCEPT ![l] = x]
    <3>1. frames'[d] = [fr EXCEPT !.locals = ls]
      BY <1>1, <2>1, <2>4, Zenon
    <3>2. /\ fr \in [inst : Inst, base : Nat, locals : [DOMAIN LocalTypes -> LocalSlot]]
          /\ KeptLocals(heap, fr.locals)
      BY <2>1, <2>2 DEF HonestFrame
    <3> HIDE DEF fr
    <3>3. frames'[d].locals = ls
      BY <3>1, <3>2
    <3>4. \A m \in DOMAIN LocalTypes : ls[m] = IF m = l THEN x ELSE fr.locals[m]
      BY <3>2
    <3> HIDE DEF ls
    <3>5. KeptLocals(heap, ls)
      BY <1>2, <3>2, <3>4 DEF KeptLocals
    <3> QED
      BY <3>3, <3>5
  <2> QED
    BY <2>3, <2>4
<1> QED
  BY <1>1, <1>2, <1>4 DEF TypedInv, KeptFrames

LEMMA GlobalGetKeepsTyped ==
  ASSUME SlotsInv, TypedInv, NEW g \in Global, GlobalGet(g)
  PROVE  TypedInv'
<1> DEFINE i == Current.inst
<1>1. PopPush(0, <<Slot(gval[g], gtag[i][g], GlobalType[g])>>) /\ OnStackOnly /\ i \in Sees[g]
  BY DEF GlobalGet
<1>2. Kept(heap, gval[g], gtag[i][g], GlobalType[g])
  BY <1>1 DEF TypedInv, KeptGlobals, Kept
<1>3. 0 \in Nat /\ 0 <= Len(stack)
  BY LenProperties DEF SlotsInv
<1> QED
  BY <1>1, <1>2, <1>3, PushKeepsTyped

LEMMA GlobalSetKeepsTyped ==
  ASSUME SlotsInv, TypedInv, NEW g \in Global, GlobalSet(g)
  PROVE  TypedInv'
<1> DEFINE v == Operand(1).v
           t == Operand(1).t
           i == Current.inst
<1>1. /\ Operands(<<GlobalType[g]>>) /\ i \in Sees[g] /\ PopPush(1, << >>)
      /\ gval' = [gval EXCEPT ![g] = v] /\ gtag' = [gtag EXCEPT ![i][g] = t]
      /\ UNCHANGED <<heap, frames, exn_rtts>>
  BY DEF GlobalSet
<1>2. KeptSlots(heap, stack') /\ Kept(heap, v, t, GlobalType[g])
  BY <1>1, PopOneKept
<1> HIDE DEF v, t, i
<1>3. gval \in [Global -> Value] /\ gtag \in [Inst -> [Global -> ValueTag]]
  BY DEF SlotsInv, HonestGlobals
<1>4. ASSUME NEW x \in Global
      PROVE  /\ Fits(heap, gval'[x], GlobalType[x]) /\ (gval'[x] \in Obj => Sees[x] # {})
             /\ \A j \in Sees[x] : gtag'[j][x] = "T_GCREF" => Followable(GlobalType[x])
  <2>1. /\ Fits(heap, gval[x], GlobalType[x]) /\ (gval[x] \in Obj => Sees[x] # {})
        /\ \A j \in Sees[x] : gtag[j][x] = "T_GCREF" => Followable(GlobalType[x])
    BY DEF TypedInv, KeptGlobals
  <2>2. gval'[x] = IF x = g THEN v ELSE gval[x]
    BY <1>1, <1>3
  <2>3. \A j \in Sees[x] : gtag'[j][x] = IF x = g /\ j = i THEN t ELSE gtag[j][x]
    <3> TAKE j \in Sees[x]
    <3>1. j \in Inst
      BY TypesOfThings
    <3> QED
      BY <1>1, <1>3, <3>1
  <2> QED
    BY <1>1, <1>2, <2>1, <2>2, <2>3 DEF Kept
<1>5. KeptGlobals(heap, gval', gtag')
  BY <1>4 DEF KeptGlobals
<1> QED
  BY <1>1, <1>2, <1>5 DEF TypedInv

LEMMA RefAsNonNullKeepsTyped ==
  ASSUME SlotsInv, TypedInv, RefAsNonNull
  PROVE  TypedInv'
<1> DEFINE s == Operand(1)
           st == RefNonNull(s.st.ht)
<1>1. Running /\ Len(stack) > Current.base
  BY DEF RefAsNonNull
<1>2. 1 \in Nat /\ 1 <= Len(stack) /\ Len(stack) \in Nat /\ DOMAIN stack = 1 .. Len(stack)
  BY <1>1, EnoughSlots, LenProperties DEF SlotsInv
<1>3. Len(stack) - 1 + 1 \in DOMAIN stack
  BY <1>2
<1>4. Kept(heap, s.v, s.t, s.st)
  BY <1>3 DEF TypedInv, KeptSlots, Operand
<1>5. CASE s.v = Null
  BY <1>5, TrapKeepsTyped DEF RefAsNonNull
<1>6. CASE s.v # Null
  <2>1. PopPush(1, <<Slot(s.v, "T_REF", st)>>) /\ OnStackOnly
    BY <1>6 DEF RefAsNonNull
  <2>2. Kept(heap, s.v, "T_REF", st)
    BY <1>4, <1>6 DEF Kept, Fits, RefNonNull
  <2> HIDE DEF s, st
  <2> QED
    BY <1>2, <2>1, <2>2, PushKeepsTyped
<1> QED
  BY <1>5, <1>6

\* jav_ref_matches is right about a value of the internal hierarchy that it need not read
\* through for.
LEMMA CastIsExact ==
  ASSUME SlotsInv, TypedInv, NEW v, NEW t, NEW st \in ValType, Honest(v, t, st), Fits(heap, v, st),
         SubType(st, AnyRef), NEW ht \in CastTarget
  PROVE  \/ v = I31 /\ ReadsThrough(t, ht)
         \/ RefMatches(v, t, ht) <=> Fits(heap, v, RefNonNull(ht))
<1>1. /\ ht \in Aggregate \cup {"i31"} /\ ht \notin {"any", "exn", "func", "none", "num", "v128"}
      /\ ht \in Aggregate => ht # "i31"
  BY SlotsAssumption DEF CastTarget
<1>2. Null # I31 /\ Null \notin DOMAIN heap /\ I31 \notin DOMAIN heap
  BY Scalars, SlotsAssumption DEF TypedInv, KeptHeap
<1>3. Fits(heap, v, AnyRef)
  BY FitsSubtype, HeapTypesKnown
<1>4. AnyRef.ht = "any" /\ RefNonNull(ht).ht = ht /\ ~ RefNonNull(ht).null
  BY DEF AnyRef, RefNull, RefNonNull
<1>5. v = Null \/ v = I31 \/ v \in DOMAIN heap
  BY <1>3, <1>4 DEF Fits
<1>6. CASE v = Null
  <2>1. ~ RefMatches(v, t, ht)
    BY <1>6 DEF RefMatches
  <2>2. ~ Fits(heap, v, RefNonNull(ht))
    BY <1>1, <1>2, <1>4, <1>6 DEF Fits
  <2> QED
    BY <2>1, <2>2
<1>7. CASE v = I31
  <2>1. ValueHeapType(v, t) = "i31"
    BY <1>7 DEF ValueHeapType
  <2>2. RefMatches(v, t, ht) <=> ht = "i31"
    BY <1>1, <1>2, <1>7, <2>1 DEF RefMatches, SubHeapType
  <2>3. Fits(heap, v, RefNonNull(ht)) <=> ht = "i31"
    BY <1>1, <1>2, <1>4, <1>7 DEF Fits
  <2> QED
    BY <2>2, <2>3
<1>8. CASE v \in DOMAIN heap
  <2>1. v \in Obj /\ v \notin {Null, I31, Fn, Num}
    BY <1>8, Scalars DEF TypedInv, KeptHeap
  <2>2. t = "T_GCREF"
    BY <2>1 DEF Honest
  <2>3. ValueHeapType(v, t) = heap[v].type
    BY <1>8, <2>1, <2>2 DEF ValueHeapType, ObjectType
  <2>4. heap[v].type # "none"
    BY <1>8, HeapTypesKnown, SlotsAssumption DEF KnownTypes
  <2>5. RefMatches(v, t, ht) <=> heap[v].type = ht
    BY <1>1, <2>1, <2>3, <2>4 DEF RefMatches, SubHeapType
  <2>6. Fits(heap, v, RefNonNull(ht)) <=> heap[v].type = ht
    BY <1>1, <1>4, <1>8, <2>1 DEF Fits
  <2> QED
    BY <2>5, <2>6
<1> QED
  BY <1>5, <1>6, <1>7, <1>8

LEMMA RefCastKeepsTyped ==
  ASSUME SlotsInv, TypedInv, NEW ht \in CastTarget, RefCast(ht)
  PROVE  TypedInv'
<1> DEFINE v == Operand(1).v
           t == Operand(1).t
           st == Operand(1).st
<1>1. Operands(<<AnyRef>>) /\ (ReadsThrough(t, ht) => v # I31)
  BY DEF RefCast
<1>2. Honest(v, t, st) /\ st \in ValType /\ SubType(st, AnyRef)
  BY <1>1, TopOperand DEF SlotsInv
<1>3. 1 \in Nat /\ 1 <= Len(stack) /\ Len(stack) \in Nat /\ DOMAIN stack = 1 .. Len(stack)
  <2>1. Len(<<AnyRef>>) = 1
    BY OneOrTwo
  <2> QED
    BY <1>1, <2>1, EnoughOperands, LenProperties DEF SlotsInv
<1>4. Len(stack) - 1 + 1 \in DOMAIN stack
  BY <1>3
<1>5. Kept(heap, v, t, st)
  BY <1>4 DEF TypedInv, KeptSlots, Operand
<1>6. CASE ~RefMatches(v, t, ht)
  BY <1>6, TrapKeepsTyped DEF RefCast
<1>7. CASE RefMatches(v, t, ht)
  <2>1. PopPush(1, <<Slot(v, t, RefNonNull(ht))>>) /\ OnStackOnly
    BY <1>7 DEF RefCast
  <2> HIDE DEF v, t, st
  <2>2. Fits(heap, v, RefNonNull(ht))
    BY <1>1, <1>2, <1>5, <1>7, CastIsExact DEF Kept
  <2>3. Kept(heap, v, t, RefNonNull(ht))
    BY <2>2 DEF Kept, Followable, CastTarget, RefNonNull
  <2> QED
    BY <1>3, <2>1, <2>3, PushKeepsTyped
<1> QED
  BY <1>6, <1>7

-----------------------------------------------------------------------------
(* A collection keeps what the program can reach                           *)

LEMMA SlotsAreRoots ==
  ASSUME NEW stk, NEW s \in ToSet(stk) \cup LiveLocals, s.t = "T_GCREF"
  PROVE  s.v \in Roots(stk)
BY DEF Roots

\* A slot the collector starts from keeps its value.
LEMMA RootKept ==
  ASSUME SlotsInv, TypedInv, NEW stk, NEW h, \A x \in Marked(stk) : x \in DOMAIN h /\ h[x] = heap[x],
         NEW v, NEW t, NEW vt, Honest(v, t, vt), t = "T_GCREF" => v \in Roots(stk), NEW st, Fits(heap, v, st)
  PROVE  Fits(h, v, st)
<1>1. DOMAIN heap \subseteq Obj
  BY DEF TypedInv, KeptHeap
<1>2. v \in DOMAIN heap => v \in Marked(stk)
  BY <1>1, MarkedIsClosed DEF Honest
<1> QED
  BY <1>2, FitsStays

LEMMA StackKept ==
  ASSUME SlotsInv, TypedInv, NEW stk, NEW h, \A x \in Marked(stk) : x \in DOMAIN h /\ h[x] = heap[x],
         NEW k \in DOMAIN stack, stack[k] \in ToSet(stk)
  PROVE  Kept(h, stack[k].v, stack[k].t, stack[k].st)
<1> DEFINE s == stack[k]
<1>1. s \in HonestSlot /\ Kept(heap, s.v, s.t, s.st)
  BY ElementOfSeq, LenProperties DEF SlotsInv, TypedInv, KeptSlots
<1> HIDE DEF s
<1>2. Honest(s.v, s.t, s.st)
  BY <1>1, SlotFacts
<1>3. s.t = "T_GCREF" => s.v \in Roots(stk)
  BY SlotsAreRoots DEF s
<1>4. Fits(h, s.v, s.st)
  BY <1>1, <1>2, <1>3, RootKept DEF Kept
<1>5. Kept(h, s.v, s.t, s.st)
  BY <1>1, <1>4 DEF Kept
<1> QED
  BY <1>5 DEF s

LEMMA FramesKept ==
  ASSUME SlotsInv, TypedInv, NEW stk, NEW h, \A x \in Marked(stk) : x \in DOMAIN h /\ h[x] = heap[x]
  PROVE  KeptFrames(h, frames)
<1> SUFFICES ASSUME NEW d \in DOMAIN frames, NEW l \in DOMAIN LocalTypes
             PROVE  Kept(h, frames[d].locals[l].v, frames[d].locals[l].t, LocalTypes[l])
  BY DEF KeptFrames, KeptLocals
<1> DEFINE fr == frames[d]
           x == fr.locals[l]
<1>1. fr \in HonestFrame /\ fr \in ToSet(frames) /\ Kept(heap, x.v, x.t, LocalTypes[l])
  BY ElementOfSeq, LenProperties DEF SlotsInv, TypedInv, KeptFrames, KeptLocals, ToSet
<1> HIDE DEF fr
<1>2. /\ fr.locals \in [DOMAIN LocalTypes -> LocalSlot]
      /\ Honest(x.v, x.t, LocalTypes[l])
  BY <1>1 DEF HonestFrame
<1>3. x \in ToSet(fr.locals)
  BY <1>2 DEF ToSet
<1>4. x \in LiveLocals
  BY <1>1, <1>3 DEF LiveLocals
<1> HIDE DEF x
<1>5. x.t = "T_GCREF" => x.v \in Roots(stk)
  BY <1>4, SlotsAreRoots
<1>6. Fits(h, x.v, LocalTypes[l])
  BY <1>1, <1>2, <1>5, RootKept DEF Kept
<1>7. Kept(h, x.v, x.t, LocalTypes[l])
  BY <1>1, <1>6 DEF Kept
<1> QED
  BY <1>7 DEF x, fr

LEMMA GlobalsKept ==
  ASSUME SlotsInv, TypedInv, NEW stk, NEW h, \A x \in Marked(stk) : x \in DOMAIN h /\ h[x] = heap[x]
  PROVE  KeptGlobals(h, gval, gtag)
<1> SUFFICES ASSUME NEW g \in Global PROVE Fits(h, gval[g], GlobalType[g])
  BY DEF KeptGlobals, TypedInv
<1>1. Fits(heap, gval[g], GlobalType[g]) /\ (gval[g] \in Obj => Sees[g] # {})
  BY DEF TypedInv, KeptGlobals
<1>2. \A i \in Sees[g] : Honest(gval[g], gtag[i][g], GlobalType[g])
  BY DEF SlotsInv, HonestGlobals
<1>3. DOMAIN heap \subseteq Obj
  BY DEF TypedInv, KeptHeap
<1>4. gval[g] \in DOMAIN heap => gval[g] \in Roots(stk)
  BY <1>1, <1>2, <1>3 DEF Roots, Honest
<1>5. gval[g] \in DOMAIN heap => gval[g] \in Marked(stk)
  BY <1>3, <1>4, MarkedIsClosed
<1> QED
  BY <1>1, <1>5, FitsStays

\* An object that stays has its cells: the collector followed them.
LEMMA MarkedKept ==
  ASSUME SlotsInv, TypedInv, NEW stk, NEW h, \A x \in Marked(stk) : x \in DOMAIN h /\ h[x] = heap[x],
         NEW o \in Marked(stk)
  PROVE  KeptObject(h, h[o])
<1> DEFINE ob == heap[o]
<1>1. DOMAIN heap \subseteq Obj /\ Marked(stk) \subseteq DOMAIN heap /\ Found(o) \cap DOMAIN heap \subseteq Marked(stk)
  BY MarkedIsClosed DEF TypedInv, KeptHeap
<1>2. HonestObject(ob, exn_rtts) /\ KeptObject(heap, ob) /\ h[o] = ob
  BY <1>1 DEF SlotsInv, HonestHeap, TypedInv, KeptHeap
<1>3. Found(o) = {ob.cells[c] : c \in Traced(ob, exn_rtts)}
  BY DEF Found
<1> HIDE DEF ob
<1>4. ASSUME NEW c \in DOMAIN ob.cells, NEW st, Fits(heap, ob.cells[c], st)
      PROVE  Fits(h, ob.cells[c], st)
  <2>1. ob.cells[c] \in DOMAIN heap => ob.cells[c] \in Marked(stk)
    BY <1>1, <1>2, <1>3 DEF HonestObject
  <2> QED
    BY <1>4, <2>1, FitsStays
<1>5. ASSUME ob.type \in StructType, NEW f \in DOMAIN Fields[ob.type]
      PROVE  Fits(h, ob.cells[Offset(ob.type, f)], Fields[ob.type][f])
  <2>1. Offset(ob.type, f) \in DOMAIN ob.cells
    BY <1>2, <1>5, LayoutFacts DEF HonestObject
  <2> QED
    BY <1>2, <1>4, <1>5, <2>1 DEF KeptObject
<1>6. ASSUME ob.type \in ArrayType, NEW c \in DOMAIN ob.cells
      PROVE  Fits(h, ob.cells[c], Elem[ob.type])
  BY <1>2, <1>4, <1>6 DEF KeptObject
<1>7. ASSUME ob.type \in Tag, NEW k \in DOMAIN Params[ob.type]
      PROVE  Kept(h, ob.cells[k], ob.tags[k], Params[ob.type][k])
  <2>1. k \in DOMAIN ob.cells
    BY <1>2, <1>7 DEF HonestObject
  <2>2. Kept(heap, ob.cells[k], ob.tags[k], Params[ob.type][k])
    BY <1>2, <1>7 DEF KeptObject
  <2> QED
    BY <1>4, <2>1, <2>2 DEF Kept
<1> QED
  BY <1>2, <1>5, <1>6, <1>7 DEF KeptObject

\* The heap after an allocation, if the new object is of its type.
LEMMA AllocatedKept ==
  ASSUME SlotsInv, TypedInv, NEW stk, NEW o \in Obj \ Marked(stk), NEW ty, NEW cells, NEW tags, NEW h,
         h = Allocated(stk, o, ty, cells, tags), KeptObject(h, [type |-> ty, cells |-> cells, tags |-> tags])
  PROVE  KeptHeap(h)
<1>1. /\ DOMAIN h = Marked(stk) \cup {o} /\ h[o] = [type |-> ty, cells |-> cells, tags |-> tags]
      /\ \A x \in Marked(stk) : x \in DOMAIN h /\ h[x] = heap[x]
  BY DEF Allocated
<1>2. Marked(stk) \subseteq Obj
  BY MarkedIsClosed DEF TypedInv, KeptHeap
<1>3. \A x \in Marked(stk) : KeptObject(h, h[x])
  BY <1>1, MarkedKept
<1> QED
  BY <1>1, <1>2, <1>3 DEF KeptHeap

-----------------------------------------------------------------------------
(* Typed allocation and access                                             *)

LEMMA NewObjectFits ==
  ASSUME NEW h, NEW o \in DOMAIN h, NEW ty \in Aggregate, h[o].type = ty
  PROVE  Kept(h, o, "T_GCREF", RefNonNull(ty))
BY DEF Kept, Fits, Followable, RefNonNull

\* An instruction that allocates with the slots stk as roots, the operands below n among
\* them, and pushes the object.
LEMMA NewKeepsTyped ==
  ASSUME SlotsInv, TypedInv, NEW stk, NEW o \in Obj \ Marked(stk), NEW ty \in Aggregate, NEW cells,
         heap' = Allocated(stk, o, ty, cells, << >>),
         KeptObject(heap', [type |-> ty, cells |-> cells, tags |-> << >>]),
         NEW n \in Nat, n <= Len(stack), \A k \in 1 .. Len(stack) - n : stack[k] \in ToSet(stk),
         PopPush(n, <<Slot(o, "T_GCREF", RefNonNull(ty))>>),
         UNCHANGED <<frames, gval, gtag, exn_rtts>>
  PROVE  TypedInv'
<1>1. /\ o \in DOMAIN heap' /\ heap'[o].type = ty
      /\ \A x \in Marked(stk) : x \in DOMAIN heap' /\ heap'[x] = heap[x]
  BY DEF Allocated
<1>2. KeptHeap(heap')
  BY AllocatedKept
<1>3. KeptFrames(heap', frames) /\ KeptGlobals(heap', gval, gtag)
  BY <1>1, FramesKept, GlobalsKept
<1>4. DOMAIN stack = 1 .. Len(stack) /\ Len(stack) \in Nat
  BY LenProperties DEF SlotsInv
<1>5. \A k \in 1 .. Len(stack) - n : Kept(heap', stack[k].v, stack[k].t, stack[k].st)
  BY <1>1, <1>4, StackKept
<1>6. Kept(heap', o, "T_GCREF", RefNonNull(ty))
  BY <1>1, NewObjectFits
<1>7. KeptSlots(heap', stack')
  BY <1>5, <1>6, PushKept
<1> QED
  BY <1>2, <1>3, <1>7 DEF TypedInv

\* An allocation with the whole stack as roots: the operands are still of their types.
LEMMA StackSurvives ==
  ASSUME SlotsInv, TypedInv, NEW o \in Obj \ Marked(stack), NEW ty, NEW cells, NEW tags,
         heap' = Allocated(stack, o, ty, cells, tags)
  PROVE  KeptSlots(heap', stack) /\ \A k \in DOMAIN stack : stack[k] \in ToSet(stack)
<1>1. \A x \in Marked(stack) : x \in DOMAIN heap' /\ heap'[x] = heap[x]
  BY DEF Allocated
<1>2. \A k \in DOMAIN stack : stack[k] \in ToSet(stack)
  BY DEF ToSet
<1>3. \A k \in DOMAIN stack : Kept(heap', stack[k].v, stack[k].t, stack[k].st)
  BY <1>1, <1>2, StackKept
<1> QED
  BY <1>2, <1>3 DEF KeptSlots

LEMMA NewFromStack ==
  ASSUME SlotsInv, TypedInv, NEW o \in Obj \ Marked(stack), NEW ty \in Aggregate, NEW cells,
         heap' = Allocated(stack, o, ty, cells, << >>),
         KeptObject(heap', [type |-> ty, cells |-> cells, tags |-> << >>]),
         NEW n \in Nat, n <= Len(stack), PopPush(n, <<Slot(o, "T_GCREF", RefNonNull(ty))>>),
         UNCHANGED <<frames, gval, gtag, exn_rtts>>
  PROVE  TypedInv'
<1>1. DOMAIN stack = 1 .. Len(stack) /\ Len(stack) \in Nat
  BY LenProperties DEF SlotsInv
<1>2. \A k \in 1 .. Len(stack) - n : stack[k] \in ToSet(stack)
  BY <1>1, StackSurvives
<1> QED
  BY <1>2, NewKeepsTyped

\* The cells of a struct hold its fields.
LEMMA StructCellsKept ==
  ASSUME NEW h, NEW s \in StructType, NEW vs, DOMAIN vs = DOMAIN Fields[s],
         \A f \in DOMAIN vs : Fits(h, vs[f], Fields[s][f])
  PROVE  KeptObject(h, [type |-> s, cells |-> StructCells(s, vs), tags |-> << >>])
<1> DEFINE ob == [type |-> s, cells |-> StructCells(s, vs), tags |-> << >>]
<1>1. ASSUME NEW f \in DOMAIN Fields[s]
      PROVE  StructCells(s, vs)[Offset(s, f)] = vs[f]
  <2> DEFINE c == Offset(s, f)
             At == \E g \in DOMAIN vs : Offset(s, g) = c
             g == CHOOSE g \in DOMAIN vs : Offset(s, g) = c
  <2>1. c \in 1 .. StructSize(s) /\ At
    BY LayoutFacts
  <2>2. g \in DOMAIN vs /\ Offset(s, g) = c
    BY <2>1
  <2>3. StructCells(s, vs)[c] = vs[g]
    BY <2>1 DEF StructCells
  <2> HIDE DEF g
  <2>4. g = f
    BY <2>2, LayoutFacts
  <2> QED
    BY <2>3, <2>4
<1>2. ob.type = s /\ ob.cells = StructCells(s, vs)
  OBVIOUS
<1> HIDE DEF ob
<1>3. KeptObject(h, ob)
  BY <1>1, <1>2, KindsApart DEF KeptObject
<1> QED
  BY <1>3 DEF ob

LEMMA ArrayKept ==
  ASSUME NEW h, NEW a \in ArrayType, NEW cells, \A c \in DOMAIN cells : Fits(h, cells[c], Elem[a])
  PROVE  KeptObject(h, [type |-> a, cells |-> cells, tags |-> << >>])
BY KindsApart DEF KeptObject

LEMMA StructNewKeepsTyped ==
  ASSUME SlotsInv, TypedInv, NEW s \in StructType, StructNew(s)
  PROVE  TypedInv'
<1> DEFINE n == Len(Fields[s])
           vs == [f \in 1 .. n |-> Operand(n - f + 1).v]
<1>1. PICK o \in Obj \ Marked(stack) : /\ heap' = Allocated(stack, o, s, StructCells(s, vs), << >>)
                                       /\ PopPush(n, <<Slot(o, "T_GCREF", RefNonNull(s))>>)
  BY DEF StructNew
<1>2. Operands(Fields[s]) /\ UNCHANGED <<frames, gval, gtag, exn_rtts>>
  BY DEF StructNew
<1>3. DOMAIN vs = DOMAIN Fields[s] /\ n \in Nat /\ DOMAIN Fields[s] = 1 .. n
  BY StructSeq
<1>4. n <= Len(stack)
  BY <1>2, <1>3, EnoughOperands
<1>5. SlotsInv'
  BY StructNewKeepsInv
<1>6. KnownTypes(heap') /\ KeptSlots(heap', stack)
  BY <1>1, <1>5, HeapTypesStayKnown, StackSurvives
<1>7. ASSUME NEW f \in DOMAIN vs PROVE Fits(heap', vs[f], Fields[s][f])
  BY <1>2, <1>3, <1>6, OperandKept DEF Kept
<1> HIDE DEF vs, n
<1>8. KeptObject(heap', [type |-> s, cells |-> StructCells(s, vs), tags |-> << >>])
  BY <1>3, <1>7, StructCellsKept
<1> QED
  BY <1>1, <1>2, <1>3, <1>4, <1>8, KindsApart, NewFromStack

LEMMA StructNewDefaultKeepsTyped ==
  ASSUME SlotsInv, TypedInv, NEW s \in StructType, StructNewDefault(s)
  PROVE  TypedInv'
<1> DEFINE vs == [f \in DOMAIN Fields[s] |-> DefaultValue(Fields[s][f])]
<1>1. PICK o \in Obj \ Marked(stack) : /\ heap' = Allocated(stack, o, s, StructCells(s, vs), << >>)
                                       /\ PopPush(0, <<Slot(o, "T_GCREF", RefNonNull(s))>>)
  BY DEF StructNewDefault
<1>2. /\ UNCHANGED <<frames, gval, gtag, exn_rtts>> /\ Running
      /\ \A f \in DOMAIN Fields[s] : Defaultable(Fields[s][f])
  BY DEF StructNewDefault
<1>3. \A f \in DOMAIN vs : Fits(heap', vs[f], Fields[s][f])
  BY <1>2, StructSeq, DefaultFits
<1>4. KeptObject(heap', [type |-> s, cells |-> StructCells(s, vs), tags |-> << >>])
  BY <1>3, StructCellsKept
<1>5. 0 \in Nat /\ 0 <= Len(stack)
  BY LenProperties DEF SlotsInv
<1> HIDE DEF vs
<1> QED
  BY <1>1, <1>2, <1>4, <1>5, KindsApart, NewFromStack

\* A pointer an instruction may use is of the type it has.
LEMMA StructGetKeepsTyped ==
  ASSUME SlotsInv, TypedInv, LayoutAgrees, NEW s \in StructType, NEW f \in DOMAIN Fields[s], StructGet(s, f)
  PROVE  TypedInv'
<1> DEFINE p == Operand(1).v
           v == heap[p].cells[Offset(s, f)]
           t == FieldTag(s, f)
           st == Fields[s][f]
<1>1. CASE p = Null
  BY <1>1, TrapKeepsTyped DEF StructGet
<1>2. CASE p # Null
  <2>1. PointsAt(1, s) /\ PopPush(1, <<Slot(v, t, st)>>) /\ OnStackOnly /\ Operands(<<RefNull(s)>>)
    BY <1>2 DEF StructGet
  <2>2. p \in DOMAIN heap /\ heap[p].type = s
    BY <2>1 DEF PointsAt
  <2>3. Fits(heap, v, st)
    BY <2>2 DEF TypedInv, KeptHeap, KeptObject
  <2>4. t = "T_GCREF" => Followable(st)
    BY DEF FieldTag, LayoutAgrees, FieldIsRef, Followable
  <2>5. 1 <= Len(stack)
    <3>1. Len(<<RefNull(s)>>) = 1
      BY OneOrTwo
    <3> QED
      BY <2>1, <3>1, EnoughOperands
  <2> HIDE DEF v, t, st
  <2> QED
    BY <2>1, <2>3, <2>4, <2>5, PushKeepsTyped DEF Kept
<1> QED
  BY <1>1, <1>2

\* Writing cells changes the type of no object.
LEMMA WriteKeepsTyped ==
  ASSUME SlotsInv, TypedInv, NEW p \in DOMAIN heap, NEW cells, heap' = [heap EXCEPT ![p].cells = cells],
         KeptObject(heap, [type |-> heap[p].type, cells |-> cells, tags |-> heap[p].tags]),
         NEW n \in Nat, n <= Len(stack), PopPush(n, << >>), UNCHANGED <<frames, gval, gtag, exn_rtts>>
  PROVE  TypedInv'
<1> DEFINE ob == heap[p]
           new == [type |-> ob.type, cells |-> cells, tags |-> ob.tags]
<1>1. ob \in [type : Aggregate \cup Tag, cells : Seq(Value), tags : Seq(ValueTag)]
  BY DEF SlotsInv, HonestHeap, HonestObject
<1>2. heap' = [heap EXCEPT ![p] = [ob EXCEPT !.cells = cells]]
  BY Zenon
<1> HIDE DEF ob
<1>3. [ob EXCEPT !.cells = cells] = new
  BY <1>1
<1>4. DOMAIN heap' = DOMAIN heap /\ \A x \in DOMAIN heap : heap'[x] = IF x = p THEN new ELSE heap[x]
  BY <1>2, <1>3
<1>5. new.type = ob.type
  OBVIOUS
<1>6. KeptObject(heap, new)
  BY DEF ob
<1> HIDE DEF new
<1>7. \A x \in DOMAIN heap : heap'[x].type = heap[x].type
  BY <1>4, <1>5 DEF ob
<1>8. \A v, st : Fits(heap, v, st) <=> Fits(heap', v, st)
  BY <1>4, <1>7, FitsStays
<1>9. \A x \in DOMAIN heap : KeptObject(heap, heap'[x])
  BY <1>4, <1>6 DEF TypedInv, KeptHeap
<1>10. KeptHeap(heap')
  <2>1. DOMAIN heap' \subseteq Obj
    BY <1>4 DEF TypedInv, KeptHeap
  <2>2. ASSUME NEW x \in DOMAIN heap' PROVE KeptObject(heap', heap'[x])
    <3> PICK y : y = heap'[x]
      OBVIOUS
    <3>1. KeptObject(heap, y)
      BY <1>4, <1>9
    <3>2. KeptObject(heap', y)
      BY <1>8, <3>1 DEF KeptObject, Kept
    <3> QED
      BY <3>2
  <2> QED
    BY <2>1, <2>2 DEF KeptHeap
<1>11. KeptSlots(heap, stack')
  BY PopKept DEF TypedInv
<1>12. KeptSlots(heap', stack')
  BY <1>8, <1>11 DEF KeptSlots, Kept
<1>13. KeptFrames(heap', frames) /\ KeptGlobals(heap', gval, gtag)
  BY <1>8 DEF TypedInv, KeptFrames, KeptLocals, KeptGlobals, Kept
<1> QED
  BY <1>10, <1>12, <1>13 DEF TypedInv

\* Two operands are taken off the stack.
LEMMA PopTwoKept ==
  ASSUME SlotsInv, TypedInv, NEW s1, NEW s2, Operands(<<s1, s2>>)
  PROVE  /\ 2 \in Nat /\ 2 <= Len(stack)
         /\ Fits(heap, Operand(1).v, s2) /\ Fits(heap, Operand(2).v, s1)
<1>1. Len(<<s1, s2>>) = 2
  BY OneOrTwo
<1>2. 2 <= Len(stack)
  BY <1>1, EnoughOperands
<1> QED
  BY <1>2, HeapTypesKnown, TwoKept DEF TypedInv, Kept

LEMMA StructSetKeepsTyped ==
  ASSUME SlotsInv, TypedInv, NEW s \in StructType, NEW f \in DOMAIN Fields[s], StructSet(s, f)
  PROVE  TypedInv'
<1> DEFINE p == Operand(2).v
           v == Operand(1).v
           old == heap[p].cells
           c == Offset(s, f)
           new == [old EXCEPT ![c] = v]
<1>1. CASE p = Null
  BY <1>1, TrapKeepsTyped DEF StructSet
<1>2. CASE p # Null
  <2>1. /\ PointsAt(2, s) /\ heap' = [heap EXCEPT ![p].cells[c] = v] /\ PopPush(2, << >>)
        /\ UNCHANGED <<frames, gval, gtag, exn_rtts>> /\ Operands(<<RefNull(s), Fields[s][f]>>)
    BY <1>2 DEF StructSet
  <2>2. p \in DOMAIN heap /\ heap[p].type = s
    BY <2>1 DEF PointsAt
  <2>3. DOMAIN old = 1 .. StructSize(s)
    BY <2>1, StructFacts DEF SlotsInv
  <2>4. Fits(heap, v, Fields[s][f]) /\ 2 \in Nat /\ 2 <= Len(stack)
    BY <2>1, PopTwoKept
  <2>5. heap' = [heap EXCEPT ![p].cells = new]
    BY <2>1, <2>2, Zenon
  <2>6. \A g \in DOMAIN Fields[s] : Fits(heap, old[Offset(s, g)], Fields[s][g])
    BY <2>2 DEF TypedInv, KeptHeap, KeptObject
  <2> DEFINE ob == [type |-> heap[p].type, cells |-> new, tags |-> heap[p].tags]
  <2>7. ob.type = s /\ ob.cells = new
    BY <2>2
  <2> HIDE DEF v, old
  <2>8. ASSUME NEW g \in DOMAIN Fields[s] PROVE Fits(heap, new[Offset(s, g)], Fields[s][g])
    <3>1. Offset(s, g) \in DOMAIN old /\ (Offset(s, g) = c => g = f)
      BY <2>3, LayoutFacts
    <3>2. new[Offset(s, g)] = IF Offset(s, g) = c THEN v ELSE old[Offset(s, g)]
      BY <3>1
    <3> HIDE DEF new, c
    <3> QED
      BY <2>4, <2>6, <3>1, <3>2
  <2> HIDE DEF ob, new
  <2>9. KeptObject(heap, ob)
    BY <2>7, <2>8, KindsApart DEF KeptObject
  <2> QED
    BY <2>1, <2>2, <2>4, <2>5, <2>9, WriteKeepsTyped DEF ob
<1> QED
  BY <1>1, <1>2

-----------------------------------------------------------------------------
(* Typed arrays                                                            *)

LEMMA ArrayNewKeepsTyped ==
  ASSUME SlotsInv, TypedInv, ArrayNewOnScalars, NEW a \in ArrayType, ArrayNew(a)
  PROVE  TypedInv'
<1> DEFINE v == Operand(1).v
           stk == Below(1)
<1>1. PICK o \in Obj \ Marked(stk), n \in 0 .. MaxLen :
        /\ heap' = Allocated(stk, o, a, [k \in 1 .. n |-> v], << >>)
        /\ PopPush(1, <<Slot(o, "T_GCREF", RefNonNull(a))>>)
  BY DEF ArrayNew
<1>2. a \in ArrayNewAt /\ Operands(<<Elem[a]>>) /\ UNCHANGED <<frames, gval, gtag, exn_rtts>>
  BY DEF ArrayNew
<1>3. v \notin DOMAIN heap
  <2>1. v \in Obj => FieldIsRef(Elem[a])
    BY <1>2, TopOperand DEF SlotsInv, Honest
  <2> QED
    BY <1>2, <2>1 DEF ArrayNewOnScalars, TypedInv, KeptHeap
<1>4. Fits(heap, v, Elem[a])
  BY <1>2, HeapTypesKnown, TopKept DEF TypedInv, Kept
<1>5. Fits(heap', v, Elem[a])
  BY <1>3, <1>4, FitsStays
<1>6. 1 \in Nat /\ 1 <= Len(stack) /\ Len(stack) \in Nat /\ stack \in Seq(HonestSlot)
  <2>1. Len(<<Elem[a]>>) = 1
    BY OneOrTwo
  <2> QED
    BY <1>2, <2>1, EnoughOperands, LenProperties DEF SlotsInv
<1>7. \A k \in 1 .. Len(stack) - 1 : stack[k] \in ToSet(stk)
  <2> DEFINE m == Len(stack) - 1
  <2>1. m \in Nat /\ m <= Len(stack) /\ stk = SubSeq(stack, 1, m)
    BY <1>6 DEF Below
  <2> HIDE DEF m, stk
  <2>2. DOMAIN stk = 1 .. m /\ \A k \in 1 .. m : stk[k] = stack[k]
    BY <1>6, <2>1
  <2> QED
    BY <2>2 DEF ToSet, m
<1> HIDE DEF v, stk
<1> DEFINE cells == [k \in 1 .. n |-> v]
<1>8. \A c \in DOMAIN cells : Fits(heap', cells[c], Elem[a])
  BY <1>5
<1> HIDE DEF cells
<1>9. KeptObject(heap', [type |-> a, cells |-> cells, tags |-> << >>])
  BY <1>8, ArrayKept
<1> QED
  BY <1>1, <1>2, <1>6, <1>7, <1>9, KindsApart, NewKeepsTyped DEF cells

LEMMA ArrayNewFixedKeepsTyped ==
  ASSUME SlotsInv, TypedInv, NEW a \in ArrayType, NEW n \in 0 .. MaxLen, ArrayNewFixed(a, n)
  PROVE  TypedInv'
<1> DEFINE vs == [k \in 1 .. n |-> Operand(n - k + 1).v]
           ts == [k \in 1 .. n |-> Elem[a]]
<1>1. PICK o \in Obj \ Marked(stack) : /\ heap' = Allocated(stack, o, a, vs, << >>)
                                       /\ PopPush(n, <<Slot(o, "T_GCREF", RefNonNull(a))>>)
  BY DEF ArrayNewFixed
<1>2. Operands(ts) /\ UNCHANGED <<frames, gval, gtag, exn_rtts>>
  BY DEF ArrayNewFixed
<1>3. n \in Nat
  BY SlotsAssumption
<1>4. Len(ts) = n /\ DOMAIN ts = 1 .. n /\ \A k \in 1 .. n : ts[k] = Elem[a]
  <2>1. ts \in Seq({Elem[a]})
    BY <1>3
  <2> QED
    BY <1>3, <2>1, LenProperties
<1> HIDE DEF ts
<1>5. n <= Len(stack)
  BY <1>2, <1>3, <1>4, EnoughOperands
<1>6. SlotsInv'
  BY ArrayNewFixedKeepsInv
<1>7. KnownTypes(heap') /\ KeptSlots(heap', stack)
  BY <1>1, <1>6, HeapTypesStayKnown, StackSurvives
<1>8. ASSUME NEW k \in 1 .. n PROVE Fits(heap', vs[k], Elem[a])
  <2>1. Kept(heap', Operand(n - k + 1).v, Operand(n - k + 1).t, ts[k])
    BY <1>2, <1>3, <1>4, <1>7, OperandKept
  <2> QED
    BY <1>4, <2>1 DEF Kept
<1>9. DOMAIN vs = 1 .. n
  OBVIOUS
<1> HIDE DEF vs
<1>10. KeptObject(heap', [type |-> a, cells |-> vs, tags |-> << >>])
  BY <1>8, <1>9, ArrayKept
<1> QED
  BY <1>1, <1>2, <1>3, <1>5, <1>10, KindsApart, NewFromStack

LEMMA ArrayNewDefaultKeepsTyped ==
  ASSUME SlotsInv, TypedInv, NEW a \in ArrayType, ArrayNewDefault(a)
  PROVE  TypedInv'
<1> DEFINE v == DefaultValue(Elem[a])
<1>1. PICK o \in Obj \ Marked(stack), n \in 0 .. MaxLen :
        /\ heap' = Allocated(stack, o, a, [k \in 1 .. n |-> v], << >>)
        /\ PopPush(0, <<Slot(o, "T_GCREF", RefNonNull(a))>>)
  BY DEF ArrayNewDefault
<1>2. UNCHANGED <<frames, gval, gtag, exn_rtts>> /\ Defaultable(Elem[a])
  BY DEF ArrayNewDefault
<1>3. Fits(heap', v, Elem[a])
  BY <1>2, TypesOfThings, DefaultFits
<1>4. 0 \in Nat /\ 0 <= Len(stack)
  BY LenProperties DEF SlotsInv
<1> HIDE DEF v
<1> DEFINE cells == [k \in 1 .. n |-> v]
<1>5. \A c \in DOMAIN cells : Fits(heap', cells[c], Elem[a])
  BY <1>3
<1> HIDE DEF cells
<1>6. KeptObject(heap', [type |-> a, cells |-> cells, tags |-> << >>])
  BY <1>5, ArrayKept
<1> QED
  BY <1>1, <1>2, <1>4, <1>6, KindsApart, NewFromStack DEF cells

\* The elements of an array are of its element type.
LEMMA ElementsFit ==
  ASSUME SlotsInv, TypedInv, NEW a \in ArrayType, NEW k, PointsAt(k, a)
  PROVE  LET cells == heap[Operand(k).v].cells IN
         /\ Len(cells) \in Nat /\ DOMAIN cells = 1 .. Len(cells)
         /\ \A c \in DOMAIN cells : Fits(heap, cells[c], Elem[a])
<1>1. Operand(k).v \in DOMAIN heap /\ heap[Operand(k).v].type = a
  BY DEF PointsAt
<1>2. KeptObject(heap, heap[Operand(k).v])
  BY <1>1 DEF TypedInv, KeptHeap
<1> QED
  BY <1>1, <1>2, ArrayFacts DEF KeptObject, SlotsInv

LEMMA ArrayGetKeepsTyped ==
  ASSUME SlotsInv, TypedInv, NEW a \in ArrayType, NEW i \in 1 .. MaxLen + 1, ArrayGet(a, i)
  PROVE  TypedInv'
<1> DEFINE cells == heap[Operand(1).v].cells
           t == ElemTag(a)
           st == Elem[a]
<1>1. CASE Operand(1).v = Null \/ i > Len(cells)
  BY <1>1, TrapKeepsTyped DEF ArrayGet
<1>2. CASE Operand(1).v # Null /\ ~(i > Len(cells))
  <2>1. PointsAt(1, a) /\ PopPush(1, <<Slot(cells[i], t, st)>>) /\ OnStackOnly /\ Operands(<<RefNull(a)>>)
    BY <1>2 DEF ArrayGet
  <2>2. Len(cells) \in Nat /\ DOMAIN cells = 1 .. Len(cells) /\ \A c \in DOMAIN cells : Fits(heap, cells[c], st)
    BY <2>1, ElementsFit
  <2> HIDE DEF cells
  <2>3. i \in DOMAIN cells
    BY <1>2, <2>2, SlotsAssumption
  <2>4. t = "T_GCREF" => Followable(st)
    BY DEF ElemTag, FieldIsRef, Followable
  <2> HIDE DEF t, st
  <2>5. Kept(heap, cells[i], t, st)
    BY <2>2, <2>3, <2>4 DEF Kept
  <2>6. 1 \in Nat /\ 1 <= Len(stack)
    <3>1. Len(<<RefNull(a)>>) = 1
      BY OneOrTwo
    <3> QED
      BY <2>1, <3>1, EnoughOperands
  <2> QED
    BY <2>1, <2>5, <2>6, PushKeepsTyped
<1> QED
  BY <1>1, <1>2

\* The three instructions that write elements of an array.
LEMMA ElementsWrittenTyped ==
  ASSUME SlotsInv, TypedInv, NEW a \in ArrayType, NEW k, PointsAt(k, a), NEW new,
         DOMAIN new = DOMAIN heap[Operand(k).v].cells,
         \A c \in DOMAIN new : new[c] = heap[Operand(k).v].cells[c] \/ Fits(heap, new[c], Elem[a]),
         heap' = [heap EXCEPT ![Operand(k).v].cells = new], PopPush(2, << >>), 2 <= Len(stack),
         UNCHANGED <<frames, gval, gtag, exn_rtts>>
  PROVE  TypedInv'
<1> DEFINE p == Operand(k).v
           ob == [type |-> heap[p].type, cells |-> new, tags |-> heap[p].tags]
<1>1. p \in DOMAIN heap /\ heap[p].type = a
  BY DEF PointsAt
<1>2. \A c \in DOMAIN new : Fits(heap, new[c], Elem[a])
  BY ElementsFit
<1>3. ob.type = a /\ ob.cells = new
  BY <1>1
<1> HIDE DEF ob
<1>4. KeptObject(heap, ob)
  BY <1>2, <1>3, KindsApart DEF KeptObject
<1>5. 2 \in Nat
  OBVIOUS
<1> QED
  BY <1>1, <1>4, <1>5, WriteKeepsTyped DEF ob

LEMMA ArraySetKeepsTyped ==
  ASSUME SlotsInv, TypedInv, NEW a \in ArrayType, NEW i \in 1 .. MaxLen + 1, ArraySet(a, i)
  PROVE  TypedInv'
<1> DEFINE p == Operand(2).v
           v == Operand(1).v
           old == heap[p].cells
           new == [old EXCEPT ![i] = v]
<1>1. CASE p = Null \/ i > Len(old)
  BY <1>1, TrapKeepsTyped DEF ArraySet
<1>2. CASE p # Null /\ ~(i > Len(old))
  <2>1. /\ PointsAt(2, a) /\ heap' = [heap EXCEPT ![p].cells[i] = v] /\ PopPush(2, << >>)
        /\ UNCHANGED <<frames, gval, gtag, exn_rtts>> /\ Operands(<<RefNull(a), Elem[a]>>)
    BY <1>2 DEF ArraySet
  <2>2. Fits(heap, v, Elem[a]) /\ 2 <= Len(stack)
    BY <2>1, PopTwoKept
  <2>3. heap' = [heap EXCEPT ![p].cells = new]
    BY <2>1, Zenon
  <2>4. DOMAIN new = DOMAIN old /\ \A c \in DOMAIN new : new[c] = old[c] \/ new[c] = v
    OBVIOUS
  <2>5. \A c \in DOMAIN new : new[c] = old[c] \/ Fits(heap, new[c], Elem[a])
    <3> HIDE DEF new, v
    <3> QED
      BY <2>2, <2>4
  <2> HIDE DEF new
  <2> QED
    BY <2>1, <2>2, <2>3, <2>4, <2>5, ElementsWrittenTyped
<1> QED
  BY <1>1, <1>2

LEMMA ArrayFillKeepsTyped ==
  ASSUME SlotsInv, TypedInv, NEW a \in ArrayType, NEW i \in 1 .. MaxLen + 1, NEW n \in 0 .. MaxLen, ArrayFill(a, i, n)
  PROVE  TypedInv'
<1> DEFINE p == Operand(2).v
           v == Operand(1).v
           old == heap[p].cells
           new == [c \in DOMAIN old |-> IF c \in i .. (i + n - 1) THEN v ELSE old[c]]
<1>1. CASE p = Null \/ i - 1 + n > Len(old)
  BY <1>1, TrapKeepsTyped DEF ArrayFill
<1>2. CASE p # Null /\ ~(i - 1 + n > Len(old))
  <2>1. /\ PointsAt(2, a) /\ heap' = [heap EXCEPT ![p].cells = new] /\ PopPush(2, << >>)
        /\ UNCHANGED <<frames, gval, gtag, exn_rtts>> /\ Operands(<<RefNull(a), Elem[a]>>)
    BY <1>2 DEF ArrayFill
  <2>2. Fits(heap, v, Elem[a]) /\ 2 <= Len(stack)
    BY <2>1, PopTwoKept
  <2>3. DOMAIN new = DOMAIN old /\ \A c \in DOMAIN new : new[c] = old[c] \/ new[c] = v
    OBVIOUS
  <2>4. \A c \in DOMAIN new : new[c] = old[c] \/ Fits(heap, new[c], Elem[a])
    <3> HIDE DEF new, v
    <3> QED
      BY <2>2, <2>3
  <2> HIDE DEF new
  <2> QED
    BY <2>1, <2>2, <2>3, <2>4, ElementsWrittenTyped
<1> QED
  BY <1>1, <1>2

LEMMA ArrayCopyKeepsTyped ==
  ASSUME SlotsInv, TypedInv, NEW a \in ArrayType, NEW b \in ArrayType, NEW d \in 1 .. MaxLen + 1,
         NEW s \in 1 .. MaxLen + 1, NEW n \in 0 .. MaxLen, ArrayCopy(a, d, b, s, n)
  PROVE  TypedInv'
<1> DEFINE p == Operand(2).v
           from == heap[Operand(1).v].cells
           old == heap[p].cells
           new == [c \in DOMAIN old |-> IF c \in d .. (d + n - 1) THEN from[s + c - d] ELSE old[c]]
           Outside == d - 1 + n > Len(old) \/ s - 1 + n > Len(from)
<1>1. CASE Null \in {Operand(1).v, p} \/ Outside
  BY <1>1, TrapKeepsTyped DEF ArrayCopy
<1>2. CASE Null \notin {Operand(1).v, p} /\ ~Outside
  <2>1. /\ PointsAt(2, a) /\ PointsAt(1, b) /\ heap' = [heap EXCEPT ![p].cells = new] /\ PopPush(2, << >>)
        /\ UNCHANGED <<frames, gval, gtag, exn_rtts>> /\ Operands(<<RefNull(a), RefNull(b)>>)
        /\ SubType(Elem[b], Elem[a])
    BY <1>2 DEF ArrayCopy
  <2>2. 2 <= Len(stack)
    BY <2>1, PopTwoKept
  <2>3. Len(from) \in Nat /\ DOMAIN from = 1 .. Len(from) /\ \A c \in DOMAIN from : Fits(heap, from[c], Elem[b])
    BY <2>1, ElementsFit
  <2>4. s - 1 + n <= Len(from) /\ d \in Nat /\ s \in Nat \ {0} /\ n \in Nat
    BY <1>2, <2>3, SlotsAssumption
  <2> HIDE DEF from
  <2>5. \A c \in d .. (d + n - 1) : s + c - d \in DOMAIN from
    BY <2>3, <2>4
  <2>6. \A c \in d .. (d + n - 1) : Fits(heap, from[s + c - d], Elem[a])
    BY <2>1, <2>3, <2>5, FitsSubtype, HeapTypesKnown, TypesOfThings
  <2>7. /\ DOMAIN new = DOMAIN old
        /\ \A c \in DOMAIN new : new[c] = old[c] \/ (c \in d .. (d + n - 1) /\ new[c] = from[s + c - d])
    OBVIOUS
  <2>8. \A c \in DOMAIN new : new[c] = old[c] \/ Fits(heap, new[c], Elem[a])
    <3> HIDE DEF new
    <3> QED
      BY <2>6, <2>7
  <2> HIDE DEF new
  <2> QED
    BY <2>1, <2>2, <2>7, <2>8, ElementsWrittenTyped
<1> QED
  BY <1>1, <1>2

-----------------------------------------------------------------------------
(* Typed exceptions and calls                                              *)

\* What a handler finds on its stack is of the types the tag gives it.
LEMMA UnwindKept ==
  ASSUME SlotsInv, NEW h, KeptSlots(h, stack), KeptFrames(h, frames), NEW o \in DOMAIN h, h[o].type \in Tag,
         NEW exn, exn.type \in Tag, KeptObject(h, exn), Unwind(o, exn)
  PROVE  KeptSlots(h, stack') /\ KeptFrames(h, frames')
<1>1. CASE stack' = << >> /\ frames' = << >>
  BY <1>1 DEF KeptSlots, KeptFrames
<1>2. ASSUME NEW d \in DOMAIN frames, NEW sp \in 0 .. Len(stack), NEW fields \in BOOLEAN, NEW ref \in BOOLEAN,
             Caught(o, exn, d, sp, fields, ref)
      PROVE  KeptSlots(h, stack') /\ KeptFrames(h, frames')
  <2> DEFINE ps == Params[exn.type]
             n == IF fields THEN Len(ps) ELSE 0
             S(k) == Slot(exn.cells[k], exn.tags[k], ps[k])
             vs == [k \in 1 .. n |-> S(k)]
             T == {S(k) : k \in 1 .. n}
             e == Slot(o, "T_GCREF", RefNonNull("exn"))
             es == IF ref THEN <<e>> ELSE << >>
  <2>1. stack' = SubSeq(stack, 1, sp) \o (vs \o es) /\ frames' = SubSeq(frames, 1, d)
    BY <1>2 DEF Caught
  <2>2. Len(ps) \in Nat /\ DOMAIN ps = 1 .. Len(ps)
    BY ParamsSeq
  <2>3. \A k \in DOMAIN ps : Kept(h, exn.cells[k], exn.tags[k], ps[k])
    BY DEF KeptObject
  <2>4. Kept(h, o, "T_GCREF", RefNonNull("exn"))
    BY DEF Kept, Fits, Followable, RefNonNull
  <2> HIDE DEF ps
  <2>5. n \in Nat /\ 1 .. n \subseteq DOMAIN ps
    BY <2>2
  <2>6. \A k \in 1 .. n : Kept(h, S(k).v, S(k).t, S(k).st)
    BY <2>3, <2>5, SlotParts
  <2> HIDE DEF S, n
  <2>7. vs = [k \in 1 .. n |-> vs[k]] /\ \A k \in 1 .. n : vs[k] = S(k) /\ vs[k] \in T
    OBVIOUS
  <2> HIDE DEF vs, T
  <2>8. vs \in Seq(T) /\ DOMAIN vs = 1 .. n
    BY <2>5, <2>7, FunctionIsSeq
  <2>9. KeptSlots(h, vs) /\ Len(vs) \in Nat /\ DOMAIN vs = 1 .. Len(vs)
    BY <2>6, <2>7, <2>8, LenProperties DEF KeptSlots
  <2>10. Kept(h, e.v, e.t, e.st)
    BY <2>4, SlotParts
  <2> HIDE DEF e
  <2>11. es \in Seq({e}) /\ KeptSlots(h, es)
    <3>1. <<e>> \in Seq({e}) /\ << >> \in Seq({e})
      OBVIOUS
    <3> QED
      BY <2>10, <3>1, OneKept, NothingKept
  <2> HIDE DEF es
  <2>12. vs \o es \in Seq(T \cup {e}) /\ KeptSlots(h, vs \o es)
    <3>1. vs \in Seq(T \cup {e}) /\ es \in Seq(T \cup {e})
      BY <2>8, <2>11, SeqMonotonic
    <3>2. SubSeq(vs, 1, Len(vs)) = vs /\ Len(vs) \in 0 .. Len(vs)
      BY <2>8, <2>9
    <3>3. \A k \in 1 .. Len(vs) : Kept(h, vs[k].v, vs[k].t, vs[k].st)
      BY <2>9 DEF KeptSlots
    <3>4. KeptSlots(h, SubSeq(vs, 1, Len(vs)) \o es)
      BY <2>8, <2>11, <3>2, <3>3, SplicedKept
    <3> QED
      BY <3>1, <3>2, <3>4, ConcatProperties
  <2> DEFINE new == vs \o es
  <2> HIDE DEF new
  <2>13. KeptSlots(h, SubSeq(stack, 1, sp) \o new)
    <3>1. stack \in Seq(HonestSlot) /\ DOMAIN stack = 1 .. Len(stack) /\ Len(stack) \in Nat
      BY LenProperties DEF SlotsInv
    <3>2. \A k \in 1 .. sp : Kept(h, stack[k].v, stack[k].t, stack[k].st)
      BY <3>1 DEF KeptSlots
    <3>3. new \in Seq(T \cup {e}) /\ KeptSlots(h, new)
      BY <2>12 DEF new
    <3> QED
      BY <3>1, <3>2, <3>3, SplicedKept
  <2>14. KeptFrames(h, SubSeq(frames, 1, d))
    <3>1. frames \in Seq(HonestFrame) /\ d \in 1 .. Len(frames) /\ Len(frames) \in Nat
          /\ DOMAIN frames = 1 .. Len(frames)
      BY LenProperties DEF SlotsInv
    <3>2. /\ DOMAIN SubSeq(frames, 1, d) = 1 .. d
          /\ \A k \in 1 .. d : SubSeq(frames, 1, d)[k] = frames[k] /\ k \in DOMAIN frames
      BY <3>1
    <3> QED
      BY <3>2 DEF KeptFrames
  <2> QED
    BY <2>1, <2>13, <2>14 DEF new
<1> QED
  BY <1>1, <1>2 DEF Unwind

LEMMA ThrowKeepsTyped ==
  ASSUME SlotsInv, TypedInv, ParamsStatic, NEW tag \in Tag, Throw(tag)
  PROVE  TypedInv'
<1> DEFINE n == Len(Params[tag])
           ts == [k \in 1 .. n |-> Operand(n - k + 1).t]
           vs == [k \in 1 .. n |-> Operand(n - k + 1).v]
           exn == [type |-> tag, cells |-> vs, tags |-> ts]
<1>1. /\ Operands(Params[tag]) /\ exn_rtts' = RttsWith(tag, ts) /\ UNCHANGED <<gval, gtag>>
      /\ \E o \in Obj \ Marked(stack) : heap' = Allocated(stack, o, tag, exn.cells, exn.tags) /\ Unwind(o, exn)
  BY DEF Throw
<1>2. PICK o \in Obj \ Marked(stack) : heap' = Allocated(stack, o, tag, vs, ts) /\ Unwind(o, exn)
  BY <1>1
<1>3. n \in Nat /\ DOMAIN Params[tag] = 1 .. n
  BY ParamsSeq
<1>4. SlotsInv'
  BY ThrowKeepsInv
<1>5. KnownTypes(heap') /\ KeptSlots(heap', stack)
  BY <1>2, <1>4, HeapTypesStayKnown, StackSurvives
<1>6. ASSUME NEW k \in 1 .. n PROVE Kept(heap', vs[k], ts[k], Params[tag][k])
  BY <1>1, <1>3, <1>5, OperandKept
<1>7. DOMAIN ts = 1 .. n
  OBVIOUS
<1> HIDE DEF vs, ts, n
<1>8. exn.type = tag /\ exn.cells = vs /\ exn.tags = ts
  OBVIOUS
<1>9. KeptObject(heap', exn)
  <2> HIDE DEF exn
  <2> QED
    BY <1>3, <1>6, <1>8, KindsApart DEF KeptObject
<1>10. KeptHeap(heap')
  BY <1>2, <1>9, AllocatedKept
<1>11. /\ o \in DOMAIN heap' /\ heap'[o].type = tag
       /\ \A x \in Marked(stack) : x \in DOMAIN heap' /\ heap'[x] = heap[x]
  BY <1>2 DEF Allocated
<1>12. KeptFrames(heap', frames) /\ KeptGlobals(heap', gval, gtag)
  BY <1>11, FramesKept, GlobalsKept
<1> HIDE DEF exn
<1>13. KeptSlots(heap', stack') /\ KeptFrames(heap', frames')
  BY <1>2, <1>5, <1>8, <1>9, <1>11, <1>12, UnwindKept
<1>14. KeptRtts(exn_rtts')
  <2>1. KeptRtts(exn_rtts)
    BY DEF TypedInv
  <2>2. CASE tag \in DOMAIN exn_rtts
    BY <1>1, <2>1, <2>2 DEF RttsWith
  <2>3. CASE tag \notin DOMAIN exn_rtts
    <3> DEFINE followed == {k \in DOMAIN ts : ts[k] = "T_GCREF"}
    <3>1. exn_rtts' = [x \in DOMAIN exn_rtts \cup {tag} |-> IF x = tag THEN followed ELSE exn_rtts[x]]
      BY <1>1, <2>3 DEF RttsWith
    <3>2. \A k \in followed : k \in DOMAIN Params[tag] /\ Followable(Params[tag][k])
      BY <1>3, <1>6, <1>7 DEF Kept
    <3> HIDE DEF followed
    <3> QED
      BY <2>1, <3>1, <3>2 DEF KeptRtts
  <2> QED
    BY <2>2, <2>3
<1> QED
  BY <1>1, <1>10, <1>12, <1>13, <1>14 DEF TypedInv

LEMMA ThrowRefKeepsTyped ==
  ASSUME SlotsInv, TypedInv, ThrowRef
  PROVE  TypedInv'
<1> DEFINE o == Operand(1).v
<1>1. CASE o = Null
  BY <1>1, TrapKeepsTyped DEF ThrowRef
<1>2. CASE o # Null
  <2>1. Unwind(o, heap[o]) /\ UNCHANGED <<heap, gval, gtag, exn_rtts>>
    BY <1>2 DEF ThrowRef
  <2>2. o \in DOMAIN heap /\ heap[o].type \in Tag
    BY <1>2 DEF ThrowRef, PointsAt
  <2> HIDE DEF o
  <2>3. KeptObject(heap, heap[o]) /\ KeptSlots(heap, stack) /\ KeptFrames(heap, frames)
    BY <2>2 DEF TypedInv, KeptHeap
  <2>4. KeptSlots(heap, stack') /\ KeptFrames(heap, frames')
    BY <2>1, <2>2, <2>3, UnwindKept
  <2> QED
    BY <2>1, <2>4 DEF TypedInv
<1> QED
  BY <1>1, <1>2

LEMMA FrameKept ==
  ASSUME NEW h, NEW i, NEW base, NEW arg, Kept(h, arg.v, arg.t, LocalTypes[1])
  PROVE  KeptLocals(h, Frame(i, base, arg).locals)
<1> DEFINE Zero(l) == [v |-> DefaultValue(LocalTypes[l]), t |-> "T_VOID"]
           ls == [l \in DOMAIN LocalTypes |-> IF l = 1 THEN arg ELSE Zero(l)]
<1>1. Frame(i, base, arg).locals = ls
  BY DEF Frame
<1>2. ASSUME NEW l \in DOMAIN LocalTypes PROVE Kept(h, Zero(l).v, Zero(l).t, LocalTypes[l])
  <2>1. LocalTypes[l] \in ValType /\ Defaultable(LocalTypes[l])
    BY TypesOfThings, SlotsAssumption
  <2> QED
    BY <2>1, DefaultFits DEF Kept
<1> HIDE DEF Zero
<1>3. \A l \in DOMAIN LocalTypes : ls[l] = IF l = 1 THEN arg ELSE Zero(l)
  OBVIOUS
<1> HIDE DEF ls
<1> QED
  BY <1>1, <1>2, <1>3 DEF KeptLocals

LEMMA HostCallKeepsTyped ==
  ASSUME SlotsInv, TypedInv, NEW i \in Inst, HostCall(i)
  PROVE  TypedInv'
<1> DEFINE arg == [v |-> Null, t |-> "T_REF"]
           fr == Frame(i, 0, arg)
<1>1. frames' = <<fr>> /\ UNCHANGED <<heap, stack, gval, gtag, exn_rtts>>
  BY DEF HostCall
<1>2. Kept(heap, arg.v, arg.t, LocalTypes[1])
  BY SlotsAssumption DEF Kept, Fits
<1>3. KeptLocals(heap, fr.locals)
  BY <1>2, FrameKept
<1> HIDE DEF fr
<1>4. KeptFrames(heap, frames')
  BY <1>1, <1>3 DEF KeptFrames
<1> QED
  BY <1>1, <1>4 DEF TypedInv

LEMMA CallKeepsTyped ==
  ASSUME SlotsInv, TypedInv, NEW i \in Inst, Call(i)
  PROVE  TypedInv'
<1> DEFINE arg == [v |-> Operand(1).v, t |-> Operand(1).t]
           fr == Frame(i, Len(stack) - 1, arg)
<1>1. /\ Operands(<<LocalTypes[1]>>) /\ PopPush(1, << >>) /\ frames' = Append(frames, fr)
      /\ UNCHANGED <<heap, gval, gtag, exn_rtts>>
  BY DEF Call
<1>2. KeptSlots(heap, stack') /\ Kept(heap, arg.v, arg.t, LocalTypes[1])
  BY <1>1, PopOneKept
<1> HIDE DEF arg
<1>3. KeptLocals(heap, fr.locals)
  BY <1>2, FrameKept
<1> HIDE DEF fr
<1>4. KeptFrames(heap, frames')
  <2>1. frames \in Seq(HonestFrame) /\ Len(frames) \in Nat /\ DOMAIN frames = 1 .. Len(frames)
    BY LenProperties DEF SlotsInv
  <2>2. /\ DOMAIN frames' = 1 .. Len(frames) + 1 /\ frames'[Len(frames) + 1] = fr
        /\ \A d \in 1 .. Len(frames) : frames'[d] = frames[d]
    BY <1>1, <2>1
  <2>3. \A d \in 1 .. Len(frames) + 1 : d = Len(frames) + 1 \/ d \in 1 .. Len(frames)
    BY <2>1
  <2> QED
    BY <1>3, <2>1, <2>2, <2>3 DEF TypedInv, KeptFrames
<1> QED
  BY <1>1, <1>2, <1>4 DEF TypedInv

LEMMA ReturnKeepsTyped ==
  ASSUME SlotsInv, TypedInv, Return
  PROVE  TypedInv'
<1> DEFINE st == LocalTypes[1]
           s == Operand(1)
           base == Current.base
           out == IF Len(frames) = 1 THEN << >> ELSE <<[s EXCEPT !.st = st]>>
<1>1. /\ Operands(<<st>>) /\ frames' = Front(frames) /\ stack' = SubSeq(stack, 1, base) \o out
      /\ UNCHANGED <<heap, gval, gtag, exn_rtts>>
  BY DEF Return
<1>2. s \in HonestSlot
  BY <1>1, TopOperand DEF SlotsInv
<1>3. Kept(heap, s.v, s.t, st)
  BY <1>1, HeapTypesKnown, TopKept DEF TypedInv
<1>4. base \in Nat /\ base \in 0 .. Len(stack) /\ Len(stack) \in Nat /\ DOMAIN stack = 1 .. Len(stack)
  <2>1. base \in Nat /\ Len(stack) \in Nat /\ DOMAIN stack = 1 .. Len(stack)
    BY <1>1, CurrentHonest, LenProperties DEF SlotsInv, Operands
  <2>2. Len(<<st>>) = 1 /\ Len(stack) - base >= Len(<<st>>)
    BY <1>1, OneOrTwo DEF Operands
  <2> QED
    BY <2>1, <2>2
<1> HIDE DEF s, base, st
<1> DEFINE x == [s EXCEPT !.st = st]
<1>5. x.v = s.v /\ x.t = s.t /\ x.st = st
  BY <1>2 DEF HonestSlot
<1> HIDE DEF x
<1>6. Kept(heap, x.v, x.t, x.st)
  BY <1>3, <1>5
<1>7. out \in Seq({x}) /\ KeptSlots(heap, out)
  <2>1. out = << >> \/ out = <<x>>
    BY DEF x
  <2>2. << >> \in Seq({x})
    OBVIOUS
  <2> HIDE DEF out
  <2> QED
    BY <1>6, <2>1, <2>2, OneKept, NothingKept
<1> HIDE DEF out
<1>8. KeptSlots(heap, stack')
  <2>1. \A k \in 1 .. base : Kept(heap, stack[k].v, stack[k].t, stack[k].st)
    BY <1>4 DEF TypedInv, KeptSlots
  <2> QED
    BY <1>1, <1>4, <1>7, <2>1, SplicedKept DEF SlotsInv
<1>9. KeptFrames(heap, frames')
  <2>1. frames \in Seq(HonestFrame) /\ Len(frames) \in Nat /\ DOMAIN frames = 1 .. Len(frames)
    BY LenProperties DEF SlotsInv
  <2>2. frames' = SubSeq(frames, 1, Len(frames) - 1) /\ Len(frames) - 1 <= Len(frames) /\ Len(frames) # 0
    BY <1>1, <2>1, EmptySeq DEF Front, Operands, Running
  <2>3. \A d \in DOMAIN frames' : d \in DOMAIN frames /\ frames'[d] = frames[d]
    BY <2>1, <2>2
  <2> QED
    BY <2>3 DEF TypedInv, KeptFrames
<1> QED
  BY <1>1, <1>8, <1>9 DEF TypedInv

-----------------------------------------------------------------------------
(* The shape of the stack                                                  *)

\* The frames cut the stack into the operands of their functions.
ShapeInv ==
  /\ Len(stack) <= MaxStack /\ Len(frames) <= MaxFrames
  /\ \A d \in DOMAIN frames :
       frames[d].base <= Len(stack) /\ \A c \in 1 .. d : frames[c].base <= frames[d].base

LEMMA FramesAre ==
  ASSUME SlotsInv
  PROVE  /\ Len(frames) \in Nat /\ DOMAIN frames = 1 .. Len(frames) /\ Len(stack) \in Nat
         /\ \A d \in DOMAIN frames : frames[d].base \in Nat
<1>1. Len(frames) \in Nat /\ DOMAIN frames = 1 .. Len(frames) /\ Len(stack) \in Nat
  BY LenProperties DEF SlotsInv
<1>2. \A d \in DOMAIN frames : frames[d] \in HonestFrame
  BY <1>1, ElementOfSeq DEF SlotsInv
<1> QED
  BY <1>1, <1>2 DEF HonestFrame

LEMMA RunningFrame ==
  ASSUME SlotsInv, ShapeInv, Running
  PROVE  /\ Len(frames) \in DOMAIN frames /\ Current.base = frames[Len(frames)].base /\ Current.base \in Nat
         /\ \A d \in DOMAIN frames : frames[d].base <= Current.base
<1>1. Len(frames) \in 1 .. Len(frames) /\ Len(frames) \in Nat
  BY CurrentHonest DEF SlotsInv
<1> QED
  BY <1>1, FramesAre DEF ShapeInv, Current, Last

\* The running function may do what it likes above its base.
LEMMA OperandsKeepShape ==
  ASSUME SlotsInv, ShapeInv, Running, Len(stack') \in Nat, Current.base <= Len(stack'), Len(stack') <= MaxStack,
         Len(frames') = Len(frames), DOMAIN frames' = DOMAIN frames,
         \A d \in DOMAIN frames : frames'[d].base = frames[d].base
  PROVE  ShapeInv'
<1>1. \A d \in DOMAIN frames : frames[d].base \in Nat /\ frames[d].base <= Current.base
  BY FramesAre, RunningFrame
<1>2. Current.base \in Nat
  BY RunningFrame
<1>3. \A d \in DOMAIN frames : \A c \in 1 .. d : c \in DOMAIN frames /\ frames[c].base <= frames[d].base
  BY FramesAre DEF ShapeInv
<1>4. ASSUME NEW d \in DOMAIN frames'
      PROVE  frames'[d].base <= Len(stack') /\ \A c \in 1 .. d : frames'[c].base <= frames'[d].base
  BY <1>1, <1>2, <1>3
<1>5. Len(frames) <= MaxFrames
  BY DEF ShapeInv
<1> QED
  BY <1>4, <1>5 DEF ShapeInv

LEMMA PoppedLength ==
  ASSUME SlotsInv, Running, NEW n \in Nat, Len(stack) - Current.base >= n,
         NEW S, NEW slots \in Seq(S), PopPush(n, slots)
  PROVE  Len(stack') = Len(stack) - n + Len(slots) /\ Len(stack') \in Nat
         /\ Current.base <= Len(stack') /\ Len(stack') <= MaxStack
<1>1. Len(stack) \in Nat /\ Current.base \in Nat /\ n <= Len(stack) /\ Len(slots) \in Nat
  BY EnoughSlots, LenProperties
<1>2. /\ stack' = SubSeq(stack, 1, Len(stack) - n) \o slots
      /\ Len(stack) - n + Len(slots) <= MaxStack
  BY DEF PopPush, Below
<1>3. SubSeq(stack, 1, Len(stack) - n) \in Seq(HonestSlot) /\ Len(SubSeq(stack, 1, Len(stack) - n)) = Len(stack) - n
  <2> DEFINE m == Len(stack) - n
  <2>1. m \in Nat /\ m <= Len(stack) /\ stack \in Seq(HonestSlot)
    BY <1>1 DEF SlotsInv
  <2> HIDE DEF m
  <2>2. SubSeq(stack, 1, m) \in Seq(HonestSlot) /\ Len(SubSeq(stack, 1, m)) = m
    BY <2>1, SubStack
  <2> QED
    BY <2>2 DEF m
<1>4. Len(stack') = Len(stack) - n + Len(slots)
  <2> DEFINE q == SubSeq(stack, 1, Len(stack) - n)
             U == HonestSlot \cup S
  <2>1. q \in Seq(U) /\ slots \in Seq(U)
    BY <1>3, SeqMonotonic
  <2>2. Len(q) = Len(stack) - n /\ stack' = q \o slots
    BY <1>2, <1>3
  <2> HIDE DEF q, U
  <2>3. Len(q \o slots) = Len(q) + Len(slots)
    BY <2>1
  <2> QED
    BY <2>2, <2>3
<1> QED
  BY <1>1, <1>2, <1>4

\* Instructions that leave the frames alone.
LEMMA PopPushKeepsShape ==
  ASSUME SlotsInv, ShapeInv, Running, NEW n \in Nat, Len(stack) - Current.base >= n,
         NEW S, NEW slots \in Seq(S), PopPush(n, slots), frames' = frames
  PROVE  ShapeInv'
<1>1. Len(stack') \in Nat /\ Current.base <= Len(stack') /\ Len(stack') <= MaxStack
  BY PoppedLength
<1> QED
  BY <1>1, OperandsKeepShape

LEMMA PushKeepsShape ==
  ASSUME SlotsInv, ShapeInv, Running, NEW n \in Nat, Len(stack) - Current.base >= n,
         NEW s, PopPush(n, <<s>>), frames' = frames
  PROVE  ShapeInv'
<1>1. <<s>> \in Seq({s})
  OBVIOUS
<1> QED
  BY <1>1, PopPushKeepsShape

LEMMA PopKeepsShape ==
  ASSUME SlotsInv, ShapeInv, Running, NEW n \in Nat, Len(stack) - Current.base >= n,
         PopPush(n, << >>), frames' = frames
  PROVE  ShapeInv'
<1>1. << >> \in Seq({})
  OBVIOUS
<1> QED
  BY <1>1, PopPushKeepsShape

LEMMA TrapKeepsShape ==
  ASSUME Trap
  PROVE  ShapeInv'
<1>1. Len(stack') = 0 /\ Len(frames') = 0 /\ DOMAIN frames' = {}
  BY DEF Trap
<1> QED
  BY <1>1, SlotsAssumption DEF ShapeInv

\* The operands an instruction takes are its own function's.
LEMMA OwnOperands ==
  /\ \A a : Operands(<<a>>) => Running /\ Len(stack) - Current.base >= 1
  /\ \A a, b : Operands(<<a, b>>) => Running /\ Len(stack) - Current.base >= 2
<1>1. \A a, b : Len(<<a>>) = 1 /\ Len(<<a, b>>) = 2
  OBVIOUS
<1> QED
  BY <1>1 DEF Operands

LEMMA NothingTaken ==
  ASSUME SlotsInv, ShapeInv, Running
  PROVE  0 \in Nat /\ 1 \in Nat /\ 2 \in Nat /\ Len(stack) - Current.base >= 0
         /\ (Len(stack) > Current.base => Len(stack) - Current.base >= 1)
<1>1. Len(frames) \in DOMAIN frames /\ Current.base = frames[Len(frames)].base /\ Current.base \in Nat
      /\ Len(stack) \in Nat
  BY FramesAre, RunningFrame
<1>2. Current.base <= Len(stack)
  BY <1>1 DEF ShapeInv
<1> QED
  BY <1>1, <1>2

LEMMA SimpleStepsKeepShape ==
  ASSUME SlotsInv, ShapeInv,
         \/ Const \/ Drop \/ RefAsNonNull
         \/ \E st : Select(st)
         \/ \E l \in DOMAIN LocalTypes : LocalGet(l)
         \/ \E g \in Global : GlobalGet(g) \/ GlobalSet(g)
         \/ \E ht : RefCast(ht)
  PROVE  ShapeInv'
<1>1. CASE Const
  <2>1. PICK s : PopPush(0, <<s>>)
    BY <1>1 DEF Const
  <2> QED
    BY <1>1, <2>1, NothingTaken, PushKeepsShape DEF Const, OnStackOnly
<1>2. CASE Drop
  BY <1>2, NothingTaken, PopKeepsShape DEF Drop, OnStackOnly
<1>3. CASE RefAsNonNull
  <2>1. Running /\ Len(stack) > Current.base
    BY <1>3 DEF RefAsNonNull
  <2>2. CASE Operand(1).v = Null
    BY <1>3, <2>2, TrapKeepsShape DEF RefAsNonNull
  <2>3. CASE Operand(1).v # Null
    <3>1. PICK s : PopPush(1, <<s>>) /\ frames' = frames
      BY <1>3, <2>3 DEF RefAsNonNull, OnStackOnly
    <3> QED
      BY <2>1, <3>1, NothingTaken, PushKeepsShape
  <2> QED
    BY <2>2, <2>3
<1>4. ASSUME NEW st, Select(st) PROVE ShapeInv'
  <2>1. PICK s : PopPush(2, <<s>>) /\ frames' = frames
    BY <1>4 DEF Select, OnStackOnly
  <2>2. Operands(<<st, st>>)
    BY <1>4 DEF Select
  <2> QED
    BY <2>1, <2>2, OwnOperands, PushKeepsShape
<1>5. ASSUME NEW l \in DOMAIN LocalTypes, LocalGet(l) PROVE ShapeInv'
  <2>1. PICK s : PopPush(0, <<s>>) /\ frames' = frames
    BY <1>5 DEF LocalGet, OnStackOnly
  <2>2. Running
    BY <1>5 DEF LocalGet
  <2> QED
    BY <2>1, <2>2, NothingTaken, PushKeepsShape
<1>6. ASSUME NEW g \in Global, GlobalGet(g) PROVE ShapeInv'
  <2>1. PICK s : PopPush(0, <<s>>) /\ frames' = frames
    BY <1>6 DEF GlobalGet, OnStackOnly
  <2>2. Running
    BY <1>6 DEF GlobalGet
  <2> QED
    BY <2>1, <2>2, NothingTaken, PushKeepsShape
<1>7. ASSUME NEW g \in Global, GlobalSet(g) PROVE ShapeInv'
  <2>1. Operands(<<GlobalType[g]>>) /\ PopPush(1, << >>) /\ frames' = frames
    BY <1>7 DEF GlobalSet
  <2> QED
    BY <2>1, OwnOperands, PopKeepsShape
<1>8. ASSUME NEW ht, RefCast(ht) PROVE ShapeInv'
  <2>1. Operands(<<AnyRef>>)
    BY <1>8 DEF RefCast
  <2>2. Trap \/ \E s : PopPush(1, <<s>>) /\ frames' = frames
    BY <1>8 DEF RefCast, OnStackOnly
  <2> QED
    BY <2>1, <2>2, OwnOperands, PushKeepsShape, TrapKeepsShape
<1> QED
  BY <1>1, <1>2, <1>3, <1>4, <1>5, <1>6, <1>7, <1>8

LEMMA LocalSetKeepsShape ==
  ASSUME SlotsInv, ShapeInv, NEW l \in DOMAIN LocalTypes, LocalSet(l)
  PROVE  ShapeInv'
<1> DEFINE x == [v |-> Operand(1).v, t |-> Operand(1).t]
           n == Len(frames)
<1>1. /\ Operands(<<LocalTypes[l]>>) /\ PopPush(1, << >>)
      /\ frames' = [frames EXCEPT ![n].locals[l] = x]
  BY DEF LocalSet
<1>2. Running /\ Len(stack) - Current.base >= 1
  BY <1>1, OwnOperands
<1> HIDE DEF x
<1>3. << >> \in Seq({}) /\ 1 \in Nat
  OBVIOUS
<1>4. Len(stack') \in Nat /\ Current.base <= Len(stack') /\ Len(stack') <= MaxStack
  BY <1>1, <1>2, <1>3, PoppedLength
<1>5. DOMAIN frames' = DOMAIN frames /\ Len(frames') = Len(frames)
  <2>1. SlotsInv'
    BY LocalSetKeepsInv
  <2>2. frames' \in Seq(HonestFrame) /\ frames \in Seq(HonestFrame)
    BY <2>1 DEF SlotsInv
  <2>3. DOMAIN frames' = DOMAIN frames
    BY <1>1
  <2> QED
    BY <2>2, <2>3, LenProperties
<1>6. ASSUME NEW d \in DOMAIN frames PROVE frames'[d].base = frames[d].base
  <2>1. frames[d] \in [inst : Inst, base : Nat, locals : [DOMAIN LocalTypes -> LocalSlot]]
    BY ElementOfSeq, LenProperties DEF SlotsInv, HonestFrame
  <2>2. CASE d # n
    BY <1>1, <2>2
  <2>3. CASE d = n
    <3> DEFINE fr == frames[d]
    <3>1. frames'[d] = [fr EXCEPT !.locals[l] = x]
      BY <1>1, <2>3, Zenon
    <3> HIDE DEF fr
    <3>2. [fr EXCEPT !.locals[l] = x].base = fr.base
      BY <2>1 DEF fr
    <3> QED
      BY <3>1, <3>2 DEF fr
  <2> QED
    BY <2>2, <2>3
<1> QED
  BY <1>2, <1>4, <1>5, <1>6, OperandsKeepShape

LEMMA StructStepsKeepShape ==
  ASSUME SlotsInv, ShapeInv, NEW s \in StructType,
         \/ StructNew(s) \/ StructNewDefault(s)
         \/ \E f \in DOMAIN Fields[s] : StructGet(s, f) \/ StructSet(s, f)
  PROVE  ShapeInv'
<1>1. CASE StructNew(s)
  <2>1. PICK e : PopPush(Len(Fields[s]), <<e>>) /\ frames' = frames
    BY <1>1 DEF StructNew
  <2>2. Running /\ Len(stack) - Current.base >= Len(Fields[s]) /\ Len(Fields[s]) \in Nat
    BY <1>1, StructSeq DEF StructNew, Operands
  <2> QED
    BY <2>1, <2>2, PushKeepsShape
<1>2. CASE StructNewDefault(s)
  <2>1. PICK e : PopPush(0, <<e>>) /\ frames' = frames
    BY <1>2 DEF StructNewDefault
  <2>2. Running
    BY <1>2 DEF StructNewDefault
  <2> QED
    BY <2>1, <2>2, NothingTaken, PushKeepsShape
<1>3. ASSUME NEW f, StructGet(s, f) PROVE ShapeInv'
  <2>1. Operands(<<RefNull(s)>>) /\ (Trap \/ \E e : PopPush(1, <<e>>) /\ frames' = frames)
    BY <1>3 DEF StructGet, OnStackOnly
  <2> QED
    BY <2>1, OwnOperands, PushKeepsShape, TrapKeepsShape
<1>4. ASSUME NEW f, StructSet(s, f) PROVE ShapeInv'
  <2>1. Operands(<<RefNull(s), Fields[s][f]>>) /\ (Trap \/ (PopPush(2, << >>) /\ frames' = frames))
    BY <1>4 DEF StructSet
  <2> QED
    BY <2>1, OwnOperands, PopKeepsShape, TrapKeepsShape
<1> QED
  BY <1>1, <1>2, <1>3, <1>4

LEMMA ArrayStepsKeepShape ==
  ASSUME SlotsInv, ShapeInv, NEW a \in ArrayType,
         \/ ArrayNew(a) \/ ArrayNewDefault(a)
         \/ \E n \in 0 .. MaxLen : ArrayNewFixed(a, n)
         \/ \E i : ArrayGet(a, i) \/ ArraySet(a, i)
         \/ \E i, n : ArrayFill(a, i, n)
         \/ \E i, b, s, n : ArrayCopy(a, i, b, s, n)
  PROVE  ShapeInv'
<1>1. CASE ArrayNew(a)
  <2>1. Operands(<<Elem[a]>>)
    BY <1>1 DEF ArrayNew
  <2>2. PICK e : PopPush(1, <<e>>) /\ frames' = frames
    BY <1>1 DEF ArrayNew
  <2> QED
    BY <2>1, <2>2, OwnOperands, PushKeepsShape
<1>2. CASE ArrayNewDefault(a)
  <2>1. PICK e : PopPush(0, <<e>>) /\ frames' = frames
    BY <1>2 DEF ArrayNewDefault
  <2>2. Running
    BY <1>2 DEF ArrayNewDefault
  <2> QED
    BY <2>1, <2>2, NothingTaken, PushKeepsShape
<1>3. ASSUME NEW n \in 0 .. MaxLen, ArrayNewFixed(a, n) PROVE ShapeInv'
  <2> DEFINE ts == [k \in 1 .. n |-> Elem[a]]
  <2>1. Operands(ts)
    BY <1>3 DEF ArrayNewFixed
  <2>2. PICK e : PopPush(n, <<e>>) /\ frames' = frames
    BY <1>3 DEF ArrayNewFixed
  <2>3. n \in Nat
    BY SlotsAssumption
  <2>4. Len(ts) = n
    <3>1. ts \in Seq({Elem[a]})
      BY <2>3
    <3> QED
      BY <2>3, <3>1, LenProperties
  <2> HIDE DEF ts
  <2> QED
    BY <2>1, <2>2, <2>3, <2>4, PushKeepsShape DEF Operands
<1>4. ASSUME NEW i, ArrayGet(a, i) PROVE ShapeInv'
  <2>1. Operands(<<RefNull(a)>>) /\ (Trap \/ \E e : PopPush(1, <<e>>) /\ frames' = frames)
    BY <1>4 DEF ArrayGet, OnStackOnly
  <2> QED
    BY <2>1, OwnOperands, PushKeepsShape, TrapKeepsShape
<1>5. ASSUME NEW i, ArraySet(a, i) PROVE ShapeInv'
  <2>1. Operands(<<RefNull(a), Elem[a]>>) /\ (Trap \/ (PopPush(2, << >>) /\ frames' = frames))
    BY <1>5 DEF ArraySet
  <2> QED
    BY <2>1, OwnOperands, PopKeepsShape, TrapKeepsShape
<1>6. ASSUME NEW i, NEW n, ArrayFill(a, i, n) PROVE ShapeInv'
  <2>1. Operands(<<RefNull(a), Elem[a]>>) /\ (Trap \/ (PopPush(2, << >>) /\ frames' = frames))
    BY <1>6 DEF ArrayFill
  <2> QED
    BY <2>1, OwnOperands, PopKeepsShape, TrapKeepsShape
<1>7. ASSUME NEW i, NEW b, NEW s, NEW n, ArrayCopy(a, i, b, s, n) PROVE ShapeInv'
  <2>1. Operands(<<RefNull(a), RefNull(b)>>) /\ (Trap \/ (PopPush(2, << >>) /\ frames' = frames))
    BY <1>7 DEF ArrayCopy
  <2> QED
    BY <2>1, OwnOperands, PopKeepsShape, TrapKeepsShape
<1> QED
  BY <1>1, <1>2, <1>3, <1>4, <1>5, <1>6, <1>7

\* A handler's operands begin where its try does, inside its frame.
LEMMA UnwindKeepsShape ==
  ASSUME SlotsInv, SlotsInv', ShapeInv, NEW o, NEW exn, exn.type \in Tag, Unwind(o, exn)
  PROVE  ShapeInv'
<1>1. CASE stack' = << >> /\ frames' = << >>
  <2>1. Len(stack') = 0 /\ Len(frames') = 0 /\ DOMAIN frames' = {}
    BY <1>1
  <2> QED
    BY <2>1, SlotsAssumption DEF ShapeInv
<1>2. ASSUME NEW d \in DOMAIN frames, NEW sp \in 0 .. Len(stack), NEW fields \in BOOLEAN, NEW ref \in BOOLEAN,
             Caught(o, exn, d, sp, fields, ref)
      PROVE  ShapeInv'
  <2> DEFINE ps == Params[exn.type]
             n == IF fields THEN Len(ps) ELSE 0
             S(k) == Slot(exn.cells[k], exn.tags[k], ps[k])
             vs == [k \in 1 .. n |-> S(k)]
             e == Slot(o, "T_GCREF", RefNonNull("exn"))
             es == IF ref THEN <<e>> ELSE << >>
             pushed == vs \o es
             top == IF d = Len(frames) THEN Len(stack) ELSE frames[d + 1].base
  <2>1. /\ stack' = SubSeq(stack, 1, sp) \o pushed /\ frames' = SubSeq(frames, 1, d)
        /\ sp + Len(pushed) <= MaxStack /\ sp \in frames[d].base .. top
    BY <1>2 DEF Caught
  <2>2. Len(ps) \in Nat
    BY ParamsSeq
  <2> HIDE DEF S, ps, e, top
  <2>3. \E T : pushed \in Seq(T)
    <3> DEFINE T == {S(k) : k \in 1 .. n} \cup {e}
    <3>1. n \in Nat
      BY <2>2
    <3> HIDE DEF n
    <3>2. vs = [k \in 1 .. n |-> vs[k]] /\ \A k \in 1 .. n : vs[k] \in T
      OBVIOUS
    <3>3. <<e>> \in Seq(T) /\ << >> \in Seq(T)
      OBVIOUS
    <3> HIDE DEF vs, T
    <3>4. vs \in Seq(T)
      BY <3>1, <3>2, FunctionIsSeq
    <3> QED
      BY <3>3, <3>4, ConcatProperties
  <2> HIDE DEF pushed
  <2>4. frames[d].base \in Nat /\ d \in 1 .. Len(frames) /\ Len(frames) \in Nat /\ Len(stack) \in Nat
        /\ DOMAIN frames = 1 .. Len(frames)
    BY FramesAre
  <2>5. sp \in Nat /\ frames[d].base <= sp
    BY <2>1, <2>4
  <2>6. Len(stack') = sp + Len(pushed) /\ Len(pushed) \in Nat
    <3>1. PICK T : pushed \in Seq(T)
      BY <2>3
    <3> DEFINE q == SubSeq(stack, 1, sp)
               U == HonestSlot \cup T
    <3>2. q \in Seq(HonestSlot) /\ Len(q) = sp
      BY <2>4, <2>5, SubStack DEF SlotsInv
    <3>3. q \in Seq(U) /\ pushed \in Seq(U)
      BY <3>1, <3>2, SeqMonotonic
    <3>4. stack' = q \o pushed
      BY <2>1
    <3> HIDE DEF q, U
    <3>5. Len(q \o pushed) = Len(q) + Len(pushed) /\ Len(pushed) \in Nat
      BY <3>3, LenProperties
    <3> QED
      BY <3>2, <3>4, <3>5
  <2>7. Len(frames') = d /\ DOMAIN frames' = 1 .. d /\ \A c \in 1 .. d : frames'[c] = frames[c]
    <3>1. frames \in Seq(HonestFrame)
      BY DEF SlotsInv
    <3> QED
      BY <2>1, <2>4, <3>1
  <2>8. \A c \in 1 .. d : c \in DOMAIN frames /\ frames[c].base \in Nat
    BY <2>4, FramesAre
  <2>9. Len(frames) <= MaxFrames /\ \A c \in 1 .. d : frames[c].base <= frames[d].base
        /\ \A b \in 1 .. c : frames[b].base <= frames[c].base
    BY <2>8 DEF ShapeInv
  <2>10. Len(stack') <= MaxStack /\ frames[d].base <= Len(stack')
    BY <2>1, <2>4, <2>5, <2>6
  <2>11. Len(frames') <= MaxFrames
    BY <2>4, <2>7, <2>9, SlotsAssumption
  <2>12. ASSUME NEW c \in DOMAIN frames'
         PROVE  frames'[c].base <= Len(stack') /\ \A b \in 1 .. c : frames'[b].base <= frames'[c].base
    <3>1. c \in 1 .. d /\ \A b \in 1 .. c : b \in 1 .. d
      BY <2>4, <2>7
    <3>2. frames[c].base <= Len(stack')
      BY <2>4, <2>6, <2>5, <2>8, <2>9, <2>10, <3>1
    <3> QED
      BY <2>7, <2>9, <3>1, <3>2
  <2> QED
    BY <2>10, <2>11, <2>12 DEF ShapeInv
<1> QED
  BY <1>1, <1>2 DEF Unwind

LEMMA ThrowsKeepShape ==
  ASSUME SlotsInv, SlotsInv', ShapeInv, ThrowRef \/ \E tag \in Tag : Throw(tag)
  PROVE  ShapeInv'
<1>1. CASE ThrowRef
  <2>1. Trap \/ (Unwind(Operand(1).v, heap[Operand(1).v]) /\ heap[Operand(1).v].type \in Tag)
    BY <1>1 DEF ThrowRef, PointsAt
  <2> QED
    BY <2>1, TrapKeepsShape, UnwindKeepsShape
<1>2. ASSUME NEW tag \in Tag, Throw(tag) PROVE ShapeInv'
  <2> DEFINE n == Len(Params[tag])
             exn == [type |-> tag, cells |-> [k \in 1 .. n |-> Operand(n - k + 1).v],
                     tags |-> [k \in 1 .. n |-> Operand(n - k + 1).t]]
  <2>1. PICK o : Unwind(o, exn)
    BY <1>2 DEF Throw
  <2>2. exn.type = tag
    OBVIOUS
  <2> HIDE DEF exn
  <2> QED
    BY <2>1, <2>2, UnwindKeepsShape
<1> QED
  BY <1>1, <1>2

LEMMA CallsKeepShape ==
  ASSUME SlotsInv, ShapeInv, \E i \in Inst : HostCall(i) \/ Call(i)
  PROVE  ShapeInv'
<1>1. ASSUME NEW i \in Inst, HostCall(i) PROVE ShapeInv'
  <2> DEFINE fr == Frame(i, 0, [v |-> Null, t |-> "T_REF"])
  <2>1. frames' = <<fr>> /\ stack' = stack /\ fr.base = 0
    BY <1>1 DEF HostCall, Frame
  <2> HIDE DEF fr
  <2>2. Len(frames') = 1 /\ DOMAIN frames' = {1} /\ frames'[1].base = 0
    BY <2>1
  <2>3. \A d \in DOMAIN frames' : d = 1 /\ frames'[d].base = 0 /\ \A c \in 1 .. d : c = 1
    BY <2>2
  <2>4. 0 <= Len(stack) /\ 1 <= MaxFrames
    BY FramesAre, SlotsAssumption
  <2> QED
    BY <2>1, <2>2, <2>3, <2>4 DEF ShapeInv
<1>2. ASSUME NEW i \in Inst, Call(i) PROVE ShapeInv'
  <2> DEFINE fr == Frame(i, Len(stack) - 1, [v |-> Operand(1).v, t |-> Operand(1).t])
             n == Len(frames)
  <2>1. /\ Operands(<<LocalTypes[1]>>) /\ PopPush(1, << >>) /\ frames' = Append(frames, fr)
        /\ n < MaxFrames /\ fr.base = Len(stack) - 1
    BY <1>2 DEF Call, Frame
  <2>2. Running /\ Len(stack) - Current.base >= 1 /\ 1 \in Nat /\ << >> \in Seq({}) /\ Len(<< >>) = 0
    BY <2>1, OwnOperands
  <2>3. Len(stack') = Len(stack) - 1 + 0 /\ Len(stack') \in Nat /\ Len(stack') <= MaxStack
        /\ Current.base <= Len(stack')
    BY <2>1, <2>2, PoppedLength
  <2> HIDE DEF fr
  <2>4. n \in Nat /\ DOMAIN frames = 1 .. n /\ Len(stack) \in Nat /\ frames \in Seq(HonestFrame)
    BY FramesAre DEF SlotsInv
  <2>5. Len(frames') = n + 1 /\ DOMAIN frames' = 1 .. n + 1 /\ frames'[n + 1] = fr
        /\ \A d \in 1 .. n : frames'[d] = frames[d]
    BY <2>1, <2>4
  <2>6. fr.base = Len(stack')
    BY <2>1, <2>3, <2>4
  <2>7. \A d \in 1 .. n : frames[d].base \in Nat /\ frames[d].base <= Current.base /\ Current.base \in Nat
    BY <2>2, <2>4, FramesAre, RunningFrame
  <2>8. \A d \in 1 .. n : frames[d].base <= Len(stack')
    BY <2>3, <2>7
  <2>9. ASSUME NEW d \in DOMAIN frames'
        PROVE  frames'[d].base <= Len(stack') /\ \A c \in 1 .. d : frames'[c].base <= frames'[d].base
    <3>1. CASE d \in 1 .. n
      <4>1. \A c \in 1 .. d : c \in 1 .. n /\ frames[c].base <= frames[d].base
        BY <2>4, <3>1 DEF ShapeInv
      <4> QED
        BY <2>5, <2>8, <3>1, <4>1
    <3>2. CASE d = n + 1
      <4>1. \A c \in 1 .. d : c \in 1 .. n \/ c = n + 1
        BY <2>4, <3>2
      <4> HIDE DEF n
      <4> QED
        BY <2>3, <2>5, <2>6, <2>8, <3>2, <4>1
    <3>3. d \in 1 .. n \/ d = n + 1
      BY <2>4, <2>5
    <3> QED
      BY <3>1, <3>2, <3>3
  <2>10. Len(frames') <= MaxFrames
    BY <2>1, <2>4, <2>5, SlotsAssumption
  <2> QED
    BY <2>3, <2>9, <2>10 DEF ShapeInv
<1> QED
  BY <1>1, <1>2

LEMMA ReturnKeepsShape ==
  ASSUME SlotsInv, ShapeInv, Return
  PROVE  ShapeInv'
<1> DEFINE st == LocalTypes[1]
           base == Current.base
           x == [Operand(1) EXCEPT !.st = st]
           out == IF Len(frames) = 1 THEN << >> ELSE <<x>>
           n == Len(frames)
<1>1. /\ Operands(<<st>>) /\ frames' = Front(frames) /\ stack' = SubSeq(stack, 1, base) \o out
  BY DEF Return
<1>2. Running /\ Len(stack) - base >= 1
  BY <1>1, OwnOperands
<1>3. n \in Nat /\ n # 0 /\ DOMAIN frames = 1 .. n /\ Len(stack) \in Nat /\ base \in Nat /\ frames \in Seq(HonestFrame)
  BY <1>2, FramesAre, RunningFrame DEF SlotsInv
<1>4. \A d \in 1 .. n : frames[d].base \in Nat /\ frames[d].base <= base
  BY <1>2, <1>3, FramesAre, RunningFrame
<1> HIDE DEF base, x
<1>5. out \in Seq({x}) /\ Len(out) \in 0 .. 1
  <2>1. out = << >> \/ out = <<x>>
    OBVIOUS
  <2> HIDE DEF out
  <2>2. << >> \in Seq({x}) /\ Len(<< >>) = 0 /\ <<x>> \in Seq({x}) /\ Len(<<x>>) = 1
    OBVIOUS
  <2>3. CASE out = << >>
    BY <2>2, <2>3
  <2>4. CASE out = <<x>>
    BY <2>2, <2>4
  <2> QED
    BY <2>1, <2>3, <2>4
<1> HIDE DEF out
<1>6. Len(stack') = base + Len(out)
  <2> DEFINE q == SubSeq(stack, 1, base)
             U == HonestSlot \cup {x}
  <2>1. q \in Seq(HonestSlot) /\ Len(q) = base
    BY <1>2, <1>3, SubStack DEF SlotsInv
  <2>2. q \in Seq(U) /\ out \in Seq(U)
    BY <1>5, <2>1, SeqMonotonic
  <2>3. stack' = q \o out
    BY <1>1
  <2> HIDE DEF q, U
  <2> QED
    BY <2>1, <2>2, <2>3
<1>7. base <= Len(stack') /\ Len(stack') <= Len(stack) /\ Len(stack') \in Nat
  <2> DEFINE a == Len(stack)
             b == Len(stack')
             c == Len(out)
  <2>1. a \in Nat /\ base \in Nat /\ a - base >= 1 /\ c \in 0 .. 1 /\ b = base + c
    BY <1>2, <1>3, <1>5, <1>6
  <2> HIDE DEF a, b, c
  <2>2. base <= b /\ b <= a /\ b \in Nat
    BY <2>1
  <2> QED
    BY <2>2 DEF a, b
<1>8. Len(frames') = n - 1 /\ DOMAIN frames' = 1 .. n - 1 /\ \A d \in 1 .. n - 1 : frames'[d] = frames[d]
  <2>1. frames' = SubSeq(frames, 1, n - 1)
    BY <1>1 DEF Front
  <2> QED
    BY <1>3, <2>1
<1>9. Len(stack') <= MaxStack /\ Len(frames') <= MaxFrames
  BY <1>3, <1>7, <1>8, SlotsAssumption DEF ShapeInv
<1>10. ASSUME NEW d \in DOMAIN frames'
       PROVE  frames'[d].base <= Len(stack') /\ \A c \in 1 .. d : frames'[c].base <= frames'[d].base
  <2>1. d \in 1 .. n /\ \A c \in 1 .. d : c \in 1 .. n - 1 /\ frames[c].base <= frames[d].base
    BY <1>3, <1>8 DEF ShapeInv
  <2>2. frames[d].base <= Len(stack')
    BY <1>3, <1>4, <1>7, <2>1
  <2> QED
    BY <1>8, <2>1, <2>2
<1> QED
  BY <1>9, <1>10 DEF ShapeInv

-----------------------------------------------------------------------------
(* The invariants of the specification                                     *)

LEMMA InitEstablishesInv ==
  ASSUME Init
  PROVE  SlotsInv
<1>1. stack \in Seq(HonestSlot) /\ frames \in Seq(HonestFrame)
  BY EmptySeq DEF Init
<1>2. HonestHeap(heap, exn_rtts) /\ HonestRtts(exn_rtts)
  BY DEF Init, HonestHeap, HonestRtts
<1>3. HonestGlobals
  <2>1. ASSUME NEW g \in Global
        PROVE  /\ DefaultValue(GlobalType[g]) \in Value
               /\ Honest(DefaultValue(GlobalType[g]), "T_REF", GlobalType[g])
    BY TypesOfThings, SlotsAssumption, DefaultHonest DEF Value
  <2>2. "T_REF" \in ValueTag
    BY DEF ValueTag
  <2>3. gval \in [Global -> Value] /\ gtag \in [Inst -> [Global -> ValueTag]]
    BY <2>1, <2>2 DEF Init
  <2>4. \A g \in Global : \A i \in Sees[g] : gval[g] = DefaultValue(GlobalType[g]) /\ gtag[i][g] = "T_REF"
    BY TypesOfThings DEF Init
  <2> QED
    BY <2>1, <2>3, <2>4 DEF HonestGlobals
<1> QED
  BY <1>1, <1>2, <1>3 DEF SlotsInv

LEMMA UsedTypesAreTypes == UsedTypes \subseteq ValType
<1>1. ASSUME NEW s \in StructType, NEW vt \in ToSet(Fields[s]) PROVE vt \in ValType
  BY <1>1, StructSeq DEF ToSet
<1>2. ASSUME NEW x \in Tag, NEW vt \in ToSet(Params[x]) PROVE vt \in ValType
  BY <1>2, ParamsSeq DEF ToSet
<1>3. ASSUME NEW vt \in ToSet(LocalTypes) PROVE vt \in ValType
  BY <1>3, TypesOfThings DEF ToSet
<1>4. ASSUME NEW vt \in {Elem[a] : a \in ArrayType} PROVE vt \in ValType
  BY <1>4, TypesOfThings
<1> QED
  BY <1>1, <1>2, <1>3, <1>4 DEF UsedTypes

LEMMA NextKeepsInv ==
  ASSUME LayoutAgrees, ParamsStatic, GlobalsPrivate, AsNonNullOnHandles, SlotsInv, Next
  PROVE  SlotsInv'
<1>1. CASE Const \/ Drop \/ RefAsNonNull \/ ThrowRef \/ Return
  BY <1>1, ConstKeepsInv, DropKeepsInv, RefAsNonNullKeepsInv, ThrowRefKeepsInv, ReturnKeepsInv
<1>2. CASE \E st \in UsedTypes : Select(st)
  BY <1>2, UsedTypesAreTypes, SelectKeepsInv
<1>3. CASE \E l \in DOMAIN LocalTypes : LocalGet(l) \/ LocalSet(l)
  BY <1>3, LocalGetKeepsInv, LocalSetKeepsInv
<1>4. CASE \E g \in Global : GlobalGet(g) \/ GlobalSet(g)
  BY <1>4, GlobalGetKeepsInv, GlobalSetKeepsInv
<1>5. CASE \E ht \in CastTarget : RefCast(ht)
  BY <1>5, RefCastKeepsInv
<1>6. ASSUME NEW s \in StructType,
             \/ StructNew(s) \/ StructNewDefault(s)
             \/ \E f \in DOMAIN Fields[s] : StructGet(s, f) \/ StructSet(s, f)
      PROVE  SlotsInv'
  BY <1>6, StructNewKeepsInv, StructNewDefaultKeepsInv, StructGetKeepsInv, StructSetKeepsInv
<1>7. ASSUME NEW a \in ArrayType,
             \/ ArrayNew(a) \/ ArrayNewDefault(a)
             \/ \E n \in 0 .. MaxLen : ArrayNewFixed(a, n)
      PROVE  SlotsInv'
  BY <1>7, ArrayNewKeepsInv, ArrayNewDefaultKeepsInv, ArrayNewFixedKeepsInv
<1>8. ASSUME NEW a \in ArrayType, NEW i \in 1 .. MaxLen + 1,
             \/ ArrayGet(a, i) \/ ArraySet(a, i)
             \/ \E n \in 0 .. MaxLen :
                  ArrayFill(a, i, n) \/ \E b \in ArrayType, s \in 1 .. MaxLen + 1 : ArrayCopy(a, i, b, s, n)
      PROVE  SlotsInv'
  BY <1>8, ArrayGetKeepsInv, ArraySetKeepsInv, ArrayFillKeepsInv, ArrayCopyKeepsInv
<1>9. CASE \E tag \in Tag : Throw(tag)
  BY <1>9, ThrowKeepsInv
<1>10. CASE \E i \in Inst : HostCall(i) \/ Call(i)
  BY <1>10, HostCallKeepsInv, CallKeepsInv
<1> QED
  BY <1>1, <1>2, <1>3, <1>4, <1>5, <1>6, <1>7, <1>8, <1>9, <1>10 DEF Next

LEMMA InvTracesReferences ==
  ASSUME SlotsInv
  PROVE  NoUntracedReference
<1>1. ASSUME NEW s \in ToSet(stack), s.v \in Obj PROVE s.t = "T_GCREF"
  <2>1. s \in HonestSlot
    BY <1>1, ElementOfSeq, LenProperties DEF ToSet, SlotsInv
  <2> QED
    BY <1>1, <2>1, SlotFacts DEF Honest
<1>2. ASSUME NEW fr \in ToSet(frames), NEW s \in ToSet(fr.locals), s.v \in Obj PROVE s.t = "T_GCREF"
  <2>1. fr \in HonestFrame
    BY <1>2, ElementOfSeq, LenProperties DEF ToSet, SlotsInv
  <2>2. /\ fr.locals \in [DOMAIN LocalTypes -> LocalSlot]
        /\ \A l \in DOMAIN LocalTypes : Honest(fr.locals[l].v, fr.locals[l].t, LocalTypes[l])
    BY <2>1 DEF HonestFrame
  <2>3. PICK l \in DOMAIN LocalTypes : s = fr.locals[l]
    BY <1>2, <2>2 DEF ToSet
  <2> QED
    BY <1>2, <2>2, <2>3 DEF Honest
<1>3. ASSUME NEW g \in Global, NEW i \in Sees[g], gval[g] \in Obj PROVE gtag[i][g] = "T_GCREF"
  BY <1>3 DEF SlotsInv, HonestGlobals, Honest
<1>4. \A s \in ReadableSlots : s.v \in Obj => s.t = "T_GCREF"
  BY <1>1, <1>2, <1>3 DEF ReadableSlots, LiveLocals
<1>5. ASSUME NEW o \in DOMAIN heap
      PROVE  /\ \A c \in DOMAIN heap[o].cells : heap[o].cells[c] \in Obj => c \in Traced(heap[o], exn_rtts)
             /\ \A c \in DOMAIN heap[o].tags : heap[o].cells[c] \in Obj => heap[o].tags[c] = "T_GCREF"
  <2> DEFINE ob == heap[o]
  <2>1. HonestObject(ob, exn_rtts)
    BY DEF SlotsInv, HonestHeap
  <2> HIDE DEF ob
  <2>2. CASE ob.type \in Aggregate
    BY <2>1, <2>2 DEF HonestObject, ob
  <2>3. CASE ob.type \in Tag
    BY <2>1, <2>3 DEF HonestObject, Honest, ob
  <2> QED
    BY <2>1, <2>2, <2>3 DEF HonestObject
<1> QED
  BY <1>4, <1>5 DEF NoUntracedReference

-----------------------------------------------------------------------------
(* Types and values                                                        *)

\* The three invariants together.
AllInv == SlotsInv /\ TypedInv /\ ShapeInv

LEMMA InitEstablishesAll ==
  ASSUME Init
  PROVE  AllInv
<1>1. SlotsInv
  BY InitEstablishesInv
<1>2. DOMAIN stack = {} /\ DOMAIN frames = {} /\ Len(stack) = 0 /\ Len(frames) = 0
      /\ DOMAIN heap = {} /\ DOMAIN exn_rtts = {}
  BY DEF Init
<1>3. ShapeInv
  BY <1>2, SlotsAssumption DEF ShapeInv
<1>4. KeptSlots(heap, stack) /\ KeptFrames(heap, frames) /\ KeptHeap(heap) /\ KeptRtts(exn_rtts)
  BY <1>2 DEF KeptSlots, KeptFrames, KeptHeap, KeptRtts
<1>5. ASSUME NEW g \in Global
      PROVE  /\ Fits(heap, gval[g], GlobalType[g]) /\ gval[g] \notin Obj
             /\ \A i \in Sees[g] : gtag[i][g] # "T_GCREF"
  <2>1. gval[g] = DefaultValue(GlobalType[g]) /\ \A i \in Sees[g] : gtag[i][g] = "T_REF"
    BY TypesOfThings DEF Init
  <2>2. Fits(heap, DefaultValue(GlobalType[g]), GlobalType[g])
    BY TypesOfThings, SlotsAssumption, DefaultFits
  <2>3. DefaultValue(GlobalType[g]) \notin Obj
    BY Scalars DEF DefaultValue
  <2> QED
    BY <2>1, <2>2, <2>3
<1>6. TypedInv
  BY <1>4, <1>5 DEF TypedInv, KeptGlobals
<1> QED
  BY <1>1, <1>3, <1>6 DEF AllInv

LEMMA NextKeepsTyped ==
  ASSUME LayoutAgrees, ParamsStatic, ArrayNewOnScalars, SlotsInv, TypedInv, Next
  PROVE  TypedInv'
<1>1. CASE Const \/ Drop \/ RefAsNonNull \/ ThrowRef \/ Return
  BY <1>1, ConstKeepsTyped, DropKeepsTyped, RefAsNonNullKeepsTyped, ThrowRefKeepsTyped, ReturnKeepsTyped
<1>2. CASE \E st \in UsedTypes : Select(st)
  BY <1>2, SelectKeepsTyped
<1>3. CASE \E l \in DOMAIN LocalTypes : LocalGet(l) \/ LocalSet(l)
  BY <1>3, LocalGetKeepsTyped, LocalSetKeepsTyped
<1>4. CASE \E g \in Global : GlobalGet(g) \/ GlobalSet(g)
  BY <1>4, GlobalGetKeepsTyped, GlobalSetKeepsTyped
<1>5. CASE \E ht \in CastTarget : RefCast(ht)
  BY <1>5, RefCastKeepsTyped
<1>6. ASSUME NEW s \in StructType,
             \/ StructNew(s) \/ StructNewDefault(s)
             \/ \E f \in DOMAIN Fields[s] : StructGet(s, f) \/ StructSet(s, f)
      PROVE  TypedInv'
  BY <1>6, StructNewKeepsTyped, StructNewDefaultKeepsTyped, StructGetKeepsTyped, StructSetKeepsTyped
<1>7. ASSUME NEW a \in ArrayType,
             \/ ArrayNew(a) \/ ArrayNewDefault(a)
             \/ \E n \in 0 .. MaxLen : ArrayNewFixed(a, n)
      PROVE  TypedInv'
  BY <1>7, ArrayNewKeepsTyped, ArrayNewDefaultKeepsTyped, ArrayNewFixedKeepsTyped
<1>8. ASSUME NEW a \in ArrayType, NEW i \in 1 .. MaxLen + 1,
             \/ ArrayGet(a, i) \/ ArraySet(a, i)
             \/ \E n \in 0 .. MaxLen :
                  ArrayFill(a, i, n) \/ \E b \in ArrayType, s \in 1 .. MaxLen + 1 : ArrayCopy(a, i, b, s, n)
      PROVE  TypedInv'
  BY <1>8, ArrayGetKeepsTyped, ArraySetKeepsTyped, ArrayFillKeepsTyped, ArrayCopyKeepsTyped
<1>9. CASE \E tag \in Tag : Throw(tag)
  BY <1>9, ThrowKeepsTyped
<1>10. CASE \E i \in Inst : HostCall(i) \/ Call(i)
  BY <1>10, HostCallKeepsTyped, CallKeepsTyped
<1> QED
  BY <1>1, <1>2, <1>3, <1>4, <1>5, <1>6, <1>7, <1>8, <1>9, <1>10 DEF Next

LEMMA NextKeepsShape ==
  ASSUME SlotsInv, SlotsInv', ShapeInv, Next
  PROVE  ShapeInv'
<1>1. CASE \/ Const \/ Drop \/ RefAsNonNull
           \/ \E st \in UsedTypes : Select(st)
           \/ \E l \in DOMAIN LocalTypes : LocalGet(l)
           \/ \E g \in Global : GlobalGet(g) \/ GlobalSet(g)
           \/ \E ht \in CastTarget : RefCast(ht)
  BY <1>1, SimpleStepsKeepShape
<1>2. CASE Return
  BY <1>2, ReturnKeepsShape
<1>3. CASE \E l \in DOMAIN LocalTypes : LocalSet(l)
  BY <1>3, LocalSetKeepsShape
<1>4. ASSUME NEW s \in StructType,
             \/ StructNew(s) \/ StructNewDefault(s)
             \/ \E f \in DOMAIN Fields[s] : StructGet(s, f) \/ StructSet(s, f)
      PROVE  ShapeInv'
  BY <1>4, StructStepsKeepShape
<1>5. ASSUME NEW a \in ArrayType,
             \/ ArrayNew(a) \/ ArrayNewDefault(a)
             \/ \E n \in 0 .. MaxLen : ArrayNewFixed(a, n)
             \/ \E i \in 1 .. MaxLen + 1 :
                  \/ ArrayGet(a, i) \/ ArraySet(a, i)
                  \/ \E n \in 0 .. MaxLen :
                       ArrayFill(a, i, n) \/ \E b \in ArrayType, s \in 1 .. MaxLen + 1 : ArrayCopy(a, i, b, s, n)
      PROVE  ShapeInv'
  BY <1>5, ArrayStepsKeepShape
<1>6. CASE ThrowRef \/ \E tag \in Tag : Throw(tag)
  BY <1>6, ThrowsKeepShape
<1>7. CASE \E i \in Inst : HostCall(i) \/ Call(i)
  BY <1>7, CallsKeepShape
<1> QED
  BY <1>1, <1>2, <1>3, <1>4, <1>5, <1>6, <1>7 DEF Next

\* What holds of every state of every program within the five conditions.
LEMMA AllInvHolds ==
  ASSUME LayoutAgrees, ParamsStatic, GlobalsPrivate, AsNonNullOnHandles, ArrayNewOnScalars
  PROVE  Spec => []AllInv
<1>1. Init => AllInv
  BY InitEstablishesAll
<1>2. AllInv /\ [Next]_vars => AllInv'
  <2> SUFFICES ASSUME AllInv, [Next]_vars PROVE AllInv'
    OBVIOUS
  <2>1. CASE Next
    <3>1. SlotsInv'
      BY <2>1, NextKeepsInv DEF AllInv
    <3>2. TypedInv'
      BY <2>1, NextKeepsTyped DEF AllInv
    <3>3. ShapeInv'
      BY <2>1, <3>1, NextKeepsShape DEF AllInv
    <3> QED
      BY <3>1, <3>2, <3>3 DEF AllInv
  <2>2. CASE UNCHANGED vars
    BY <2>2 DEF vars, AllInv, SlotsInv, HonestGlobals, TypedInv, ShapeInv
  <2> QED
    BY <2>1, <2>2
<1> QED
  BY <1>1, <1>2, PTL DEF Spec

\* Every slot and object is of its type, and the frames cut the stack in order.
LEMMA InvTypesSlots ==
  ASSUME AllInv
  PROVE  SlotsTypeOK
<1> USE DEF AllInv
<1>1. ASSUME NEW o \in DOMAIN heap
      PROVE  /\ o \in Obj /\ heap[o].type \in Aggregate \cup Tag
             /\ heap[o].cells \in Seq(Value) /\ heap[o].tags \in Seq(ValueTag)
             /\ heap[o].type \in StructType => Len(heap[o].cells) = StructSize(heap[o].type)
             /\ heap[o].type \in Tag =>
                  /\ heap[o].type \in DOMAIN exn_rtts
                  /\ Len(heap[o].cells) = Len(Params[heap[o].type]) /\ Len(heap[o].tags) = Len(heap[o].cells)
  <2> DEFINE ob == heap[o]
  <2>1. HonestObject(ob, exn_rtts) /\ o \in Obj
    BY DEF SlotsInv, HonestHeap, TypedInv, KeptHeap
  <2> HIDE DEF ob
  <2>2. ob.type \in Aggregate \cup Tag /\ ob.cells \in Seq(Value) /\ ob.tags \in Seq(ValueTag)
    BY <2>1 DEF HonestObject
  <2>3. ASSUME ob.type \in StructType PROVE Len(ob.cells) = StructSize(ob.type)
    <3>1. DOMAIN ob.cells = 1 .. StructSize(ob.type) /\ StructSize(ob.type) \in Nat
      BY <2>1, <2>3, LayoutFacts DEF HonestObject
    <3> QED
      BY <2>2, <3>1, LenProperties
  <2>4. ASSUME ob.type \in Tag
        PROVE  /\ ob.type \in DOMAIN exn_rtts
               /\ Len(ob.cells) = Len(Params[ob.type]) /\ Len(ob.tags) = Len(ob.cells)
    <3> DEFINE n == Len(Params[ob.type])
    <3>1. n \in Nat /\ DOMAIN Params[ob.type] = 1 .. n
      BY <2>4, ParamsSeq
    <3>2. /\ ob.type \in DOMAIN exn_rtts
          /\ DOMAIN ob.cells = DOMAIN Params[ob.type] /\ DOMAIN ob.tags = DOMAIN Params[ob.type]
      BY <2>1, <2>4 DEF HonestObject
    <3> HIDE DEF n
    <3>3. Len(ob.cells) = n /\ Len(ob.tags) = n
      BY <2>2, <3>1, <3>2, LenProperties
    <3> QED
      BY <3>2, <3>3 DEF n
  <2> QED
    BY <2>1, <2>2, <2>3, <2>4 DEF ob
<1>2. ASSUME NEW s \in ToSet(stack) PROVE s.v \in Value /\ s.t \in ValueTag /\ s.st \in ValType
  <2>1. s \in HonestSlot
    BY ElementOfSeq, LenProperties DEF ToSet, SlotsInv
  <2> QED
    BY <2>1, SlotFacts
<1>3. ASSUME NEW d \in DOMAIN frames
      PROVE  /\ frames[d].base \in (IF d = 1 THEN 0 ELSE frames[d - 1].base) .. Len(stack)
             /\ frames[d].inst \in Inst
             /\ \A s \in ToSet(frames[d].locals) : s.v \in Value /\ s.t \in ValueTag
  <2>1. frames[d] \in HonestFrame /\ d \in 1 .. Len(frames) /\ Len(frames) \in Nat /\ Len(stack) \in Nat
        /\ DOMAIN frames = 1 .. Len(frames)
    BY FramesAre, ElementOfSeq DEF SlotsInv
  <2>2. frames[d].inst \in Inst /\ frames[d].locals \in [DOMAIN LocalTypes -> LocalSlot]
    BY <2>1 DEF HonestFrame
  <2>3. \A s \in ToSet(frames[d].locals) : s.v \in Value /\ s.t \in ValueTag
    BY <2>2 DEF ToSet, LocalSlot
  <2>4. frames[d].base \in Nat /\ frames[d].base <= Len(stack)
        /\ \A c \in 1 .. d : frames[c].base <= frames[d].base
    BY FramesAre DEF ShapeInv
  <2> DEFINE floor == IF d = 1 THEN 0 ELSE frames[d - 1].base
  <2>5. floor \in Nat /\ floor <= frames[d].base
    <3>1. ASSUME d # 1 PROVE frames[d - 1].base \in Nat /\ frames[d - 1].base <= frames[d].base
      <4>1. d - 1 \in 1 .. d /\ d - 1 \in DOMAIN frames
        BY <2>1, <3>1
      <4> QED
        BY <2>4, <4>1, FramesAre
    <3> QED
      BY <2>4, <3>1
  <2> HIDE DEF floor
  <2>6. frames[d].base \in floor .. Len(stack)
    BY <2>1, <2>4, <2>5
  <2> QED
    BY <2>2, <2>3, <2>6 DEF floor
<1>4. gval \in [Global -> Value] /\ gtag \in [Inst -> [Global -> ValueTag]]
  BY DEF SlotsInv, HonestGlobals
<1>5. \A x \in DOMAIN exn_rtts : x \in Tag /\ exn_rtts[x] \subseteq DOMAIN Params[x]
  BY DEF SlotsInv, HonestRtts, TypedInv, KeptRtts
<1>6. Len(stack) <= MaxStack /\ Len(frames) <= MaxFrames
  BY DEF ShapeInv
<1> QED
  BY <1>1, <1>2, <1>3, <1>4, <1>5, <1>6 DEF SlotsTypeOK

\* Values of a type that is followed are references.
LEMMA FollowedValue ==
  ASSUME NEW v, NEW vt, Fits(heap, v, vt), Followable(vt)
  PROVE  v \in DOMAIN heap \cup {Null, I31}
BY SlotsAssumption DEF Fits, Followable

LEMMA RefsAreFollowable ==
  ASSUME NEW vt, FieldIsRef(vt)
  PROVE  Followable(vt)
BY DEF FieldIsRef, Followable

LEMMA MarkedAllocated == Marked(stack) \subseteq DOMAIN heap
BY DEF Marked

LEMMA SlotsKept ==
  ASSUME AllInv
  PROVE  /\ \A s \in ToSet(stack) : s \in HonestSlot /\ Kept(heap, s.v, s.t, s.st)
         /\ \A fr \in ToSet(frames) : \A l \in DOMAIN LocalTypes :
              Kept(heap, fr.locals[l].v, fr.locals[l].t, LocalTypes[l])
<1>1. ASSUME NEW s \in ToSet(stack) PROVE s \in HonestSlot /\ Kept(heap, s.v, s.t, s.st)
  BY ElementOfSeq, LenProperties DEF ToSet, AllInv, SlotsInv, TypedInv, KeptSlots
<1>2. ASSUME NEW fr \in ToSet(frames), NEW l \in DOMAIN LocalTypes
      PROVE  Kept(heap, fr.locals[l].v, fr.locals[l].t, LocalTypes[l])
  BY DEF ToSet, AllInv, TypedInv, KeptFrames, KeptLocals
<1> QED
  BY <1>1, <1>2

LEMMA InvFollowsReferences ==
  ASSUME AllInv
  PROVE  FollowedAreReferences
<1>1. ASSUME NEW s \in ToSet(stack), s.t = "T_GCREF" PROVE s.v \in DOMAIN heap \cup {Null, I31}
  BY <1>1, SlotsKept, FollowedValue DEF Kept
<1>2. ASSUME NEW fr \in ToSet(frames), NEW s \in ToSet(fr.locals), s.t = "T_GCREF"
      PROVE  s.v \in DOMAIN heap \cup {Null, I31}
  <2>1. fr \in HonestFrame
    BY <1>2, ElementOfSeq, LenProperties DEF ToSet, AllInv, SlotsInv
  <2>2. DOMAIN fr.locals = DOMAIN LocalTypes
    BY <2>1 DEF HonestFrame
  <2>3. PICK l \in DOMAIN LocalTypes : s = fr.locals[l]
    BY <1>2, <2>2 DEF ToSet
  <2>4. Kept(heap, s.v, s.t, LocalTypes[l])
    BY <1>2, <2>3, SlotsKept
  <2> QED
    BY <1>2, <2>4, FollowedValue DEF Kept
<1>3. ASSUME NEW g \in Global, NEW i \in Sees[g], gtag[i][g] = "T_GCREF"
      PROVE  gval[g] \in DOMAIN heap \cup {Null, I31}
  BY <1>3, FollowedValue DEF AllInv, TypedInv, KeptGlobals
<1>4. \A s \in ReadableSlots : s.t = "T_GCREF" => s.v \in DOMAIN heap \cup {Null, I31}
  BY <1>1, <1>2, <1>3 DEF ReadableSlots, LiveLocals
<1>5. ASSUME NEW o \in DOMAIN heap, NEW c \in Traced(heap[o], exn_rtts)
      PROVE  heap[o].cells[c] \in DOMAIN heap \cup {Null, I31}
  <2> DEFINE ob == heap[o]
  <2>1. KeptObject(heap, ob) /\ ob.type \in Aggregate \cup Tag
    BY DEF AllInv, TypedInv, KeptHeap, SlotsInv, HonestHeap, HonestObject
  <2>2. c \in Traced(ob, exn_rtts)
    OBVIOUS
  <2> HIDE DEF ob
  <2>3. CASE ob.type \in StructType
    <3>1. PICK f \in DOMAIN Fields[ob.type] : FieldIsRef(Fields[ob.type][f]) /\ c = Offset(ob.type, f)
      BY <2>2, <2>3 DEF Traced, RefOffsets
    <3>2. Fits(heap, ob.cells[c], Fields[ob.type][f])
      BY <2>1, <2>3, <3>1 DEF KeptObject
    <3> QED
      BY <3>1, <3>2, RefsAreFollowable, FollowedValue DEF ob
  <2>4. CASE ob.type \in Tag
    <3>1. c \in exn_rtts[ob.type] /\ ob.type \in DOMAIN exn_rtts
      BY <2>2, <2>4, KindsApart DEF Traced, AllInv, SlotsInv, HonestHeap, HonestObject, ob
    <3>2. c \in DOMAIN Params[ob.type] /\ Followable(Params[ob.type][c])
      BY <3>1 DEF AllInv, TypedInv, KeptRtts
    <3>3. Fits(heap, ob.cells[c], Params[ob.type][c])
      BY <2>1, <2>4, <3>2 DEF KeptObject, Kept
    <3> QED
      BY <3>2, <3>3, FollowedValue DEF ob
  <2>5. CASE ob.type \in ArrayType
    <3>1. FieldIsRef(Elem[ob.type]) /\ c \in DOMAIN ob.cells
      BY <2>2, <2>5, KindsApart DEF Traced
    <3>2. Fits(heap, ob.cells[c], Elem[ob.type])
      BY <2>1, <2>5, <3>1 DEF KeptObject
    <3> QED
      BY <3>1, <3>2, RefsAreFollowable, FollowedValue DEF ob
  <2> QED
    BY <2>1, <2>3, <2>4, <2>5 DEF Aggregate
<1> QED
  BY <1>4, <1>5, MarkedAllocated DEF FollowedAreReferences

LEMMA InvTypesValues ==
  ASSUME AllInv
  PROVE  ValuesHaveTypes
<1>1. \A s \in ToSet(stack) : HasType(s.v, s.st)
  BY SlotsKept, FitsIsHasType DEF Kept
<1>2. \A fr \in ToSet(frames) : \A l \in DOMAIN LocalTypes : HasType(fr.locals[l].v, LocalTypes[l])
  BY SlotsKept, FitsIsHasType DEF Kept
<1>3. \A g \in Global : HasType(gval[g], GlobalType[g])
  BY FitsIsHasType DEF AllInv, TypedInv, KeptGlobals
<1>4. ASSUME NEW o \in DOMAIN heap
      PROVE  IF heap[o].type \in StructType
             THEN \A f \in DOMAIN Fields[heap[o].type] :
                    HasType(heap[o].cells[Offset(heap[o].type, f)], Fields[heap[o].type][f])
             ELSE \A c \in DOMAIN heap[o].cells :
                    HasType(heap[o].cells[c],
                            IF heap[o].type \in ArrayType THEN Elem[heap[o].type] ELSE Params[heap[o].type][c])
  <2> DEFINE ob == heap[o]
  <2>1. KeptObject(heap, ob) /\ HonestObject(ob, exn_rtts)
    BY DEF AllInv, TypedInv, KeptHeap, SlotsInv, HonestHeap
  <2> HIDE DEF ob
  <2>2. ASSUME ob.type \in StructType
        PROVE  \A f \in DOMAIN Fields[ob.type] : HasType(ob.cells[Offset(ob.type, f)], Fields[ob.type][f])
    BY <2>1, <2>2, FitsIsHasType DEF KeptObject
  <2>3. ASSUME ob.type \in ArrayType
        PROVE  \A c \in DOMAIN ob.cells : HasType(ob.cells[c], Elem[ob.type])
    BY <2>1, <2>3, FitsIsHasType DEF KeptObject
  <2>4. ASSUME ob.type \in Tag
        PROVE  \A c \in DOMAIN ob.cells : HasType(ob.cells[c], Params[ob.type][c])
    BY <2>1, <2>4, FitsIsHasType DEF KeptObject, Kept, HonestObject
  <2>5. ob.type \in StructType \/ ob.type \in ArrayType \/ (ob.type \in Tag /\ ob.type \notin ArrayType)
    BY <2>1, KindsApart DEF HonestObject, Aggregate
  <2> QED
    BY <2>2, <2>3, <2>4, <2>5 DEF ob
<1> QED
  BY <1>1, <1>2, <1>3, <1>4, MarkedAllocated DEF ValuesHaveTypes

LEMMA InvMakesCastsExact ==
  ASSUME AllInv
  PROVE  CastsAreExact
<1> SUFFICES ASSUME NEW s \in ToSet(stack), SubType(s.st, AnyRef), NEW ht \in CastTarget
             PROVE  \/ s.v = I31 /\ ReadsThrough(s.t, ht)
                    \/ RefMatches(s.v, s.t, ht) <=> HasType(s.v, RefNonNull(ht))
  BY DEF CastsAreExact
<1>1. s.st \in ValType /\ Honest(s.v, s.t, s.st) /\ Fits(heap, s.v, s.st)
  BY SlotsKept, SlotFacts DEF Kept, HonestSlot
<1>2. \/ s.v = I31 /\ ReadsThrough(s.t, ht)
      \/ RefMatches(s.v, s.t, ht) <=> Fits(heap, s.v, RefNonNull(ht))
  BY <1>1, CastIsExact DEF AllInv
<1> QED
  BY <1>2, FitsIsHasType

-----------------------------------------------------------------------------
(* The theorems                                                            *)

\* For all types, layouts and programs within the four conditions: at every instruction an
\* object that a slot or a cell holds is one the collector follows from there
\* (jav_gc_enum_roots, gc_collect), so that no collection frees or moves it unseen.
THEOREM ObjectsAreFound ==
  ASSUME LayoutAgrees, ParamsStatic, GlobalsPrivate, AsNonNullOnHandles
  PROVE  Spec => []NoUntracedReference
<1>1. Init => SlotsInv
  BY InitEstablishesInv
<1>2. SlotsInv /\ [Next]_vars => SlotsInv'
  <2> SUFFICES ASSUME SlotsInv, [Next]_vars PROVE SlotsInv'
    OBVIOUS
  <2>1. CASE Next
    BY <2>1, NextKeepsInv
  <2>2. CASE UNCHANGED vars
    BY <2>2 DEF vars, SlotsInv, HonestGlobals
  <2> QED
    BY <2>1, <2>2
<1>3. SlotsInv => NoUntracedReference
  BY InvTracesReferences
<1> QED
  BY <1>1, <1>2, <1>3, PTL DEF Spec

\* Within the five conditions: slots hold values of known tags, objects have the shape their
\* type's layout says (jav_struct_new, jav_array_new, jav_exn_rtt_for), and each frame's
\* operands begin where its caller's end, through calls, returns and catches.
THEOREM SlotsTyped ==
  ASSUME LayoutAgrees, ParamsStatic, GlobalsPrivate, AsNonNullOnHandles, ArrayNewOnScalars
  PROVE  Spec => []SlotsTypeOK
<1>1. Spec => []AllInv
  BY AllInvHolds
<1>2. AllInv => SlotsTypeOK
  BY InvTypesSlots
<1> QED
  BY <1>1, <1>2, PTL

\* Within the five conditions: every slot, local, global and cell the program can reach holds a
\* value of its validated type, whatever collections have freed and wherever calls, returns
\* and catches have moved the slots (gc_collect, do_throw, do_return).
THEOREM ValuesTyped ==
  ASSUME LayoutAgrees, ParamsStatic, GlobalsPrivate, AsNonNullOnHandles, ArrayNewOnScalars
  PROVE  Spec => []ValuesHaveTypes
<1>1. Spec => []AllInv
  BY AllInvHolds
<1>2. AllInv => ValuesHaveTypes
  BY InvTypesValues
<1> QED
  BY <1>1, <1>2, PTL

\* Within the five conditions: whatever the collector follows, from a slot by its tag or from an
\* object by its RTT, is an allocated object, a null or an i31 (gc_mark1).
THEOREM FollowedCorrect ==
  ASSUME LayoutAgrees, ParamsStatic, GlobalsPrivate, AsNonNullOnHandles, ArrayNewOnScalars
  PROVE  Spec => []FollowedAreReferences
<1>1. Spec => []AllInv
  BY AllInvHolds
<1>2. AllInv => FollowedAreReferences
  BY InvFollowsReferences
<1> QED
  BY <1>1, <1>2, PTL

\* Within the five conditions: jav_ref_matches says of every operand that a cast may be given
\* whether it is of the target type, unless it reads through an i31.
THEOREM CastsExact ==
  ASSUME LayoutAgrees, ParamsStatic, GlobalsPrivate, AsNonNullOnHandles, ArrayNewOnScalars
  PROVE  Spec => []CastsAreExact
<1>1. Spec => []AllInv
  BY AllInvHolds
<1>2. AllInv => CastsAreExact
  BY InvMakesCastsExact
<1> QED
  BY <1>1, <1>2, PTL
=============================================================================
