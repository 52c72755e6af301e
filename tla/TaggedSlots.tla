---------------------------- MODULE TaggedSlots ----------------------------
(***************************************************************************)
(* What the collector can see of a running program.  A slot carries a      *)
(* value and, in a parallel array, a run-time tag; the collector follows   *)
(* the slots tagged T_GCREF and, inside an object, the cells its RTT       *)
(* names.  Every instruction that moves a reference has to keep the two    *)
(* together, and an allocation may collect.                                *)
(*                                                                         *)
(* A slot here also carries its validated type, which the code does not    *)
(* keep.  A program is any sequence of instructions the validator accepts; *)
(* the numbers it computes with (lengths, indices) are chosen on the spot. *)
(* Moving an object is renaming it, so a collection only frees.            *)
(***************************************************************************)
EXTENDS Naturals, Sequences, FiniteSets, SequencesExt

CONSTANTS
  Obj,                    \* object identities
  Null, I31, Fn, Num,     \* the other values: Num stands for any number
  StructType, ArrayType, Tag,
  Fields,         \* StructType -> sequence of value types
  Elem,           \* ArrayType -> value type
  Params,         \* Tag -> sequence of value types
  Global,
  GlobalType,     \* Global -> value type
  Inst,
  Sees,           \* Global -> the instances it is linked into
  LocalTypes,     \* the types of a function's locals; the first is its parameter and result
  AsNonNullAt,    \* the heap types at which programs use ref.as_non_null
  ArrayNewAt,     \* the array types of which programs use array.new
  MaxStack, MaxFrames, MaxLen   \* bounds

Numeric(ht) == [ht |-> ht, null |-> FALSE]
RefNull(ht) == [ht |-> ht, null |-> TRUE]
RefNonNull(ht) == [ht |-> ht, null |-> FALSE]
AnyRef == RefNull("any")

Aggregate == StructType \cup ArrayType
HeapType == Aggregate \cup {"any", "i31", "func", "exn", "none"}
ValType == {Numeric("num"), Numeric("v128")}
             \cup ([ht : HeapType, null : BOOLEAN] \ {RefNonNull("none")})

Defaultable(vt) == vt.null \/ vt.ht \in {"num", "v128"}

ASSUME SlotsAssumption ==
  /\ IsFiniteSet(Obj) /\ Obj \cap {Null, I31, Fn, Num} = {}
  /\ Null \notin {I31, Fn, Num} /\ I31 \notin {Fn, Num} /\ Fn # Num
  /\ (Aggregate \cup Tag) \cap {"any", "i31", "func", "exn", "none", "num", "v128", "freed"} = {}
  /\ StructType \cap ArrayType = {} /\ Tag \cap Aggregate = {}
  /\ Fields \in [StructType -> Seq(ValType)] /\ Elem \in [ArrayType -> ValType]
  /\ Params \in [Tag -> Seq(ValType)]
  /\ GlobalType \in [Global -> ValType] /\ Sees \in [Global -> SUBSET Inst]
  /\ LocalTypes \in Seq(ValType) \ {<< >>} /\ LocalTypes[1].null
  /\ \A l \in DOMAIN LocalTypes : Defaultable(LocalTypes[l])
  /\ \A g \in Global : Defaultable(GlobalType[g])
  /\ AsNonNullAt \subseteq HeapType /\ ArrayNewAt \subseteq ArrayType
  /\ MaxStack \in Nat /\ MaxFrames \in Nat \ {0} /\ MaxLen \in Nat

VARIABLES
  heap,      \* allocated object -> [type, cells, tags]; tags are an exception's
  stack,     \* value_stack and value_types of all active frames: [v, t, st]
  frames,    \* active frames: [inst, base, locals]
  gval,      \* the cell of a global, shared by the instances that see it
  gtag,      \* global_types of each instance
  exn_rtts   \* exception tag -> the cells its RTT names, once there is one

vars == <<heap, stack, frames, gval, gtag, exn_rtts>>

-----------------------------------------------------------------------------
(* Object layout                                                           *)

\* rtt_field_is_ref
FieldIsRef(vt) == vt.ht \in Aggregate \cup {"any", "exn"}
Wide(vt) == vt.ht = "v128"
Width(vt) == IF Wide(vt) THEN 2 ELSE 1

\* build_rtts: the cell at which field f of a struct begins, the cells of a struct and
\* those that hold references.
Offset(s, f) ==
  LET Off[k \in 1 .. Len(Fields[s]) + 1] ==
        IF k = 1 THEN 1 ELSE Off[k - 1] + Width(Fields[s][k - 1])
  IN Off[f]
StructSize(s) == Offset(s, Len(Fields[s]) + 1) - 1
RefOffsets(s) == {Offset(s, f) : f \in {g \in DOMAIN Fields[s] : FieldIsRef(Fields[s][g])}}

\* gc_field_is_ref: every field is taken to be one cell.
GcFieldIsRef(s, f) == f \in RefOffsets(s)

\* The cells the tracer follows in an object ob.
Traced(ob, rtts) ==
  IF ob.type \in StructType THEN RefOffsets(ob.type)
  ELSE IF ob.type \in Tag THEN rtts[ob.type]
  ELSE IF FieldIsRef(Elem[ob.type]) THEN DOMAIN ob.cells ELSE {}

-----------------------------------------------------------------------------
(* The collector                                                           *)

LiveLocals == UNION {ToSet(fr.locals) : fr \in ToSet(frames)}

\* jav_gc_enum_roots, with the store's hook that visits every instance: what the slots
\* tagged T_GCREF hold.
Roots(stk) ==
  {s.v : s \in {x \in ToSet(stk) \cup LiveLocals : x.t = "T_GCREF"}}
    \cup {gval[g] : g \in {x \in Global : \E i \in Sees[x] : gtag[i][x] = "T_GCREF"}}

\* gc_collect's closure.  gc_mark1 refuses null and unaligned values.
Marked(stk) ==
  LET Reach[k \in 0 .. Cardinality(Obj)] ==
        IF k = 0 THEN Roots(stk)
        ELSE Reach[k - 1] \cup
             UNION {{heap[o].cells[c] : c \in Traced(heap[o], exn_rtts)} :
                      o \in Reach[k - 1] \cap DOMAIN heap}
  IN Reach[Cardinality(Obj)] \cap DOMAIN heap

\* gc_alloc with the slots stk on the stack: the heap with a new object o of type ty.  It
\* collects first, as in the GC_STRESS build; in the others it need not, and what it then
\* leaves allocated is only what no instruction can reach.
Allocated(stk, o, ty, cells, tags) ==
  [x \in Marked(stk) \cup {o} |->
     IF x = o THEN [type |-> ty, cells |-> cells, tags |-> tags] ELSE heap[x]]

-----------------------------------------------------------------------------
(* Operands                                                                *)

SubHeapType(h, k) ==
  h = k \/ (h = "none" /\ k \in HeapType) \/ (h \in Aggregate \cup {"i31"} /\ k = "any")
SubType(a, b) == SubHeapType(a.ht, b.ht) /\ (a.null => b.null)
DefaultValue(vt) == IF vt.null THEN Null ELSE Num

Running == frames # << >>
Current == Last(frames)
Slot(v, t, st) == [v |-> v, t |-> t, st |-> st]
Operand(k) == stack[Len(stack) - k + 1]          \* k = 1 is the top
Below(n) == SubSeq(stack, 1, Len(stack) - n)
\* The last Len(ts) operands have the types ts.
Operands(ts) ==
  /\ Running
  /\ Len(stack) - Current.base >= Len(ts)
  /\ \A k \in DOMAIN ts : SubType(stack[Len(stack) - Len(ts) + k].st, ts[k])

PopPush(n, slots) ==
  /\ Len(stack) - n + Len(slots) <= MaxStack
  /\ stack' = Below(n) \o slots
\* Operand k points at an object of type ty.  What an instruction does with any other
\* pointer is undefined, and the model stops there.
PointsAt(k, ty) == Operand(k).v \in DOMAIN heap /\ heap[Operand(k).v].type = ty
Trap == stack' = << >> /\ frames' = << >> /\ UNCHANGED <<heap, gval, gtag, exn_rtts>>

-----------------------------------------------------------------------------
(* Constants, locals, globals                                              *)

OnStackOnly == UNCHANGED <<heap, frames, gval, gtag, exn_rtts>>

\* What some field, element, parameter or local can hold.
UsedTypes ==
  (UNION {ToSet(Fields[s]) : s \in StructType}) \cup {Elem[a] : a \in ArrayType}
    \cup (UNION {ToSet(Params[x]) : x \in Tag}) \cup ToSet(LocalTypes)

\* ref.null, ref.i31, ref.func and the constants of used types; the type of a null is any
\* the program asks for.
Const ==
  /\ Running
  /\ \E s \in {Slot(Null, "T_REF", RefNull("none")), Slot(I31, "T_REF", RefNonNull("i31")),
               Slot(Fn, "T_REF", RefNonNull("func")), Slot(Num, "T_V128", Numeric("v128")),
               Slot(Num, "T_INT", Numeric("num"))} :
       (\E vt \in UsedTypes : SubType(s.st, vt)) /\ PopPush(0, <<s>>)
  /\ OnStackOnly

Drop ==
  /\ Running /\ Len(stack) > Current.base
  /\ PopPush(1, << >>)
  /\ OnStackOnly

\* select and select_t: the number that decides is left out.
Select(st) ==
  /\ Operands(<<st, st>>)
  /\ \E k \in {1, 2} : PopPush(2, <<[Operand(k) EXCEPT !.st = st]>>)
  /\ OnStackOnly

LocalGet(l) ==
  /\ Running
  /\ PopPush(0, <<Slot(Current.locals[l].v, Current.locals[l].t, LocalTypes[l])>>)
  /\ OnStackOnly

\* Mutant of LocalSet: the tag of the local is left as it was.
LocalSetNoTag(l) ==
  /\ Operands(<<LocalTypes[l]>>)
  /\ PopPush(1, << >>)
  /\ frames' = [frames EXCEPT ![Len(frames)].locals[l].v = Operand(1).v]
  /\ UNCHANGED <<heap, gval, gtag, exn_rtts>>

LocalSet(l) ==
  /\ Operands(<<LocalTypes[l]>>)
  /\ PopPush(1, << >>)
  /\ frames' = [frames EXCEPT ![Len(frames)].locals[l] = [v |-> Operand(1).v, t |-> Operand(1).t]]
  /\ UNCHANGED <<heap, gval, gtag, exn_rtts>>

GlobalGet(g) ==
  /\ Running /\ Current.inst \in Sees[g]
  /\ PopPush(0, <<Slot(gval[g], gtag[Current.inst][g], GlobalType[g])>>)
  /\ OnStackOnly

\* The cell is shared, the tag array is the running instance's own.
GlobalSet(g) ==
  /\ Operands(<<GlobalType[g]>>)
  /\ Current.inst \in Sees[g]
  /\ PopPush(1, << >>)
  /\ gval' = [gval EXCEPT ![g] = Operand(1).v]
  /\ gtag' = [gtag EXCEPT ![Current.inst][g] = Operand(1).t]
  /\ UNCHANGED <<heap, frames, exn_rtts>>

-----------------------------------------------------------------------------
(* References                                                              *)

\* ref.as_non_null pops a handle and pushes it back as one.
RefAsNonNull ==
  /\ Running /\ Len(stack) > Current.base
  /\ Operand(1).st.ht \in AsNonNullAt
  /\ IF Operand(1).v = Null THEN Trap
     ELSE PopPush(1, <<Slot(Operand(1).v, "T_REF", RefNonNull(Operand(1).st.ht))>>) /\ OnStackOnly

\* value_heaptype: the value decides for an i31, then the tag.  Mutant: the tag alone.
ObjectType(v) == IF v \in DOMAIN heap THEN heap[v].type ELSE "freed"
ValueHeapTypeByTag(v, t) == IF t = "T_GCREF" THEN ObjectType(v) ELSE "i31"
ValueHeapType(v, t) == IF v # I31 /\ t = "T_GCREF" THEN ObjectType(v) ELSE "i31"
\* jav_ref_matches, of a value of the internal hierarchy and a non-null target.
RefMatches(v, t, ht) == v # Null /\ SubHeapType(ValueHeapType(v, t), ht)

\* For a concrete target jav_ref_matches first looks whether the layout is one of this
\* instance's, and there the tag alone decides that it reads through the operand.
ReadsThrough(t, ht) == t = "T_GCREF" /\ ht \in Aggregate

CastTarget == Aggregate \cup {"i31"}
RefCast(ht) ==
  /\ Operands(<<AnyRef>>)
  /\ Operand(1).v \in Obj => Operand(1).v \in DOMAIN heap
  /\ ReadsThrough(Operand(1).t, ht) => Operand(1).v # I31
  /\ IF RefMatches(Operand(1).v, Operand(1).t, ht)
     THEN PopPush(1, <<Slot(Operand(1).v, Operand(1).t, RefNonNull(ht))>>) /\ OnStackOnly
     ELSE Trap

-----------------------------------------------------------------------------
(* Structs                                                                 *)

\* The cells of a struct whose fields are vs.
StructCells(s, vs) ==
  [c \in 1 .. StructSize(s) |->
     IF \E f \in DOMAIN vs : Offset(s, f) = c
     THEN vs[CHOOSE f \in DOMAIN vs : Offset(s, f) = c] ELSE Num]

\* Mutant of StructNew: the operands leave the stack before the allocation.
StructNewPopFirst(s) ==
  LET n == Len(Fields[s]) IN
  /\ Operands(Fields[s])
  /\ \E o \in Obj \ Marked(Below(n)) :
       /\ heap' = Allocated(Below(n), o, s, StructCells(s, [f \in 1 .. n |-> Operand(n - f + 1).v]), << >>)
       /\ PopPush(n, <<Slot(o, "T_GCREF", RefNonNull(s))>>)
  /\ UNCHANGED <<frames, gval, gtag, exn_rtts>>

\* The operands stay on the stack, as roots, until the object is filled.
StructNew(s) ==
  LET n == Len(Fields[s]) IN
  /\ Operands(Fields[s])
  /\ \E o \in Obj \ Marked(stack) :
       /\ heap' = Allocated(stack, o, s, StructCells(s, [f \in 1 .. n |-> Operand(n - f + 1).v]), << >>)
       /\ PopPush(n, <<Slot(o, "T_GCREF", RefNonNull(s))>>)
  /\ UNCHANGED <<frames, gval, gtag, exn_rtts>>

StructNewDefault(s) ==
  /\ Running /\ \A f \in DOMAIN Fields[s] : Defaultable(Fields[s][f])
  /\ \E o \in Obj \ Marked(stack) :
       /\ heap' = Allocated(stack, o, s, StructCells(s, [f \in DOMAIN Fields[s] |-> DefaultValue(Fields[s][f])]), << >>)
       /\ PopPush(0, <<Slot(o, "T_GCREF", RefNonNull(s))>>)
  /\ UNCHANGED <<frames, gval, gtag, exn_rtts>>

\* jav_struct_get_v: the tag of what was read.
FieldTag(s, f) ==
  IF Wide(Fields[s][f]) THEN "T_V128" ELSE IF GcFieldIsRef(s, f) THEN "T_GCREF" ELSE "T_INT"

StructGet(s, f) ==
  /\ Operands(<<RefNull(s)>>)
  /\ IF Operand(1).v = Null THEN Trap
     ELSE /\ PointsAt(1, s)
          /\ PopPush(1, <<Slot(heap[Operand(1).v].cells[Offset(s, f)], FieldTag(s, f), Fields[s][f])>>)
          /\ OnStackOnly

StructSet(s, f) ==
  /\ Operands(<<RefNull(s), Fields[s][f]>>)
  /\ IF Operand(2).v = Null THEN Trap
     ELSE /\ PointsAt(2, s)
          /\ heap' = [heap EXCEPT ![Operand(2).v].cells[Offset(s, f)] = Operand(1).v]
          /\ PopPush(2, << >>)
          /\ UNCHANGED <<frames, gval, gtag, exn_rtts>>

-----------------------------------------------------------------------------
(* Arrays                                                                  *)

\* array.new pops the initial value into a C local before it allocates.
ArrayNew(a) ==
  /\ a \in ArrayNewAt /\ Operands(<<Elem[a]>>)
  /\ \E o \in Obj \ Marked(Below(1)), n \in 0 .. MaxLen :
       /\ heap' = Allocated(Below(1), o, a, [k \in 1 .. n |-> Operand(1).v], << >>)
       /\ PopPush(1, <<Slot(o, "T_GCREF", RefNonNull(a))>>)
  /\ UNCHANGED <<frames, gval, gtag, exn_rtts>>

ArrayNewFixed(a, n) ==
  /\ Operands([k \in 1 .. n |-> Elem[a]])
  /\ \E o \in Obj \ Marked(stack) :
       /\ heap' = Allocated(stack, o, a, [k \in 1 .. n |-> Operand(n - k + 1).v], << >>)
       /\ PopPush(n, <<Slot(o, "T_GCREF", RefNonNull(a))>>)
  /\ UNCHANGED <<frames, gval, gtag, exn_rtts>>

ArrayNewDefault(a) ==
  /\ Running /\ Defaultable(Elem[a])
  /\ \E o \in Obj \ Marked(stack), n \in 0 .. MaxLen :
       /\ heap' = Allocated(stack, o, a, [k \in 1 .. n |-> DefaultValue(Elem[a])], << >>)
       /\ PopPush(0, <<Slot(o, "T_GCREF", RefNonNull(a))>>)
  /\ UNCHANGED <<frames, gval, gtag, exn_rtts>>

\* jav_array_get_v
ElemTag(a) == IF Wide(Elem[a]) THEN "T_V128" ELSE IF FieldIsRef(Elem[a]) THEN "T_GCREF" ELSE "T_INT"

ArrayGet(a, i) ==
  /\ Operands(<<RefNull(a)>>)
  /\ IF Operand(1).v = Null THEN Trap
     ELSE /\ PointsAt(1, a)
          /\ IF i > Len(heap[Operand(1).v].cells) THEN Trap
             ELSE /\ PopPush(1, <<Slot(heap[Operand(1).v].cells[i], ElemTag(a), Elem[a])>>)
                  /\ OnStackOnly

ArraySet(a, i) ==
  /\ Operands(<<RefNull(a), Elem[a]>>)
  /\ IF Operand(2).v = Null THEN Trap
     ELSE /\ PointsAt(2, a)
          /\ IF i > Len(heap[Operand(2).v].cells) THEN Trap
             ELSE /\ heap' = [heap EXCEPT ![Operand(2).v].cells[i] = Operand(1).v]
                  /\ PopPush(2, << >>)
                  /\ UNCHANGED <<frames, gval, gtag, exn_rtts>>

\* array.fill: n cells from i on.
ArrayFill(a, i, n) ==
  /\ Operands(<<RefNull(a), Elem[a]>>)
  /\ IF Operand(2).v = Null THEN Trap
     ELSE /\ PointsAt(2, a)
          /\ IF i - 1 + n > Len(heap[Operand(2).v].cells) THEN Trap
             ELSE /\ heap' = [heap EXCEPT ![Operand(2).v].cells =
                                [k \in DOMAIN @ |-> IF k \in i .. (i + n - 1) THEN Operand(1).v ELSE @[k]]]
                  /\ PopPush(2, << >>)
                  /\ UNCHANGED <<frames, gval, gtag, exn_rtts>>

\* array.copy: n cells, in the order that reads each before it is overwritten.
ArrayCopy(a, d, b, s, n) ==
  /\ SubType(Elem[b], Elem[a]) /\ Operands(<<RefNull(a), RefNull(b)>>)
  /\ IF Null \in {Operand(1).v, Operand(2).v} THEN Trap
     ELSE /\ PointsAt(2, a) /\ PointsAt(1, b)
          /\ LET from == heap[Operand(1).v].cells IN
             IF d - 1 + n > Len(heap[Operand(2).v].cells) \/ s - 1 + n > Len(from) THEN Trap
             ELSE /\ heap' = [heap EXCEPT ![Operand(2).v].cells =
                                [k \in DOMAIN @ |-> IF k \in d .. (d + n - 1) THEN from[s + k - d] ELSE @[k]]]
                  /\ PopPush(2, << >>)
                  /\ UNCHANGED <<frames, gval, gtag, exn_rtts>>

-----------------------------------------------------------------------------
(* Exceptions                                                              *)

\* jav_exn_rtt_for: one RTT per tag, from the run-time tags of the first throw.
RttsWith(tag, ts) ==
  IF tag \in DOMAIN exn_rtts THEN exn_rtts
  ELSE [x \in DOMAIN exn_rtts \cup {tag} |->
          IF x = tag THEN {k \in DOMAIN ts : ts[k] = "T_GCREF"} ELSE exn_rtts[x]]
\* do_throw: frame d catches, with a try whose operands begin above sp; which handlers
\* there are is the program's choice.
Caught(o, exn, d, sp, fields, ref) ==
  /\ sp \in frames[d].base .. (IF d = Len(frames) THEN Len(stack) ELSE frames[d + 1].base)
  /\ LET pushed == [k \in 1 .. (IF fields THEN Len(Params[exn.type]) ELSE 0) |->
                      Slot(exn.cells[k], exn.tags[k], Params[exn.type][k])]
                   \o (IF ref THEN <<Slot(o, "T_GCREF", RefNonNull("exn"))>> ELSE << >>)
     IN /\ sp + Len(pushed) <= MaxStack
        /\ stack' = SubSeq(stack, 1, sp) \o pushed
  /\ frames' = SubSeq(frames, 1, d)
Unwind(o, exn) ==
  \/ \E d \in DOMAIN frames, sp \in 0 .. Len(stack), fields, ref \in BOOLEAN : Caught(o, exn, d, sp, fields, ref)
  \/ stack' = << >> /\ frames' = << >>

Throw(tag) ==
  LET n == Len(Params[tag])
      ts == [k \in 1 .. n |-> Operand(n - k + 1).t]
      exn == [type |-> tag, cells |-> [k \in 1 .. n |-> Operand(n - k + 1).v], tags |-> ts]
  IN
  /\ Operands(Params[tag])
  /\ exn_rtts' = RttsWith(tag, ts)
  /\ \E o \in Obj \ Marked(stack) :
       heap' = Allocated(stack, o, tag, exn.cells, exn.tags) /\ Unwind(o, exn)
  /\ UNCHANGED <<gval, gtag>>

ThrowRef ==
  /\ Operands(<<RefNull("exn")>>)
  /\ IF Operand(1).v = Null THEN Trap
     ELSE /\ \E tag \in Tag : PointsAt(1, tag)
          /\ Unwind(Operand(1).v, heap[Operand(1).v])
          /\ UNCHANGED <<heap, gval, gtag, exn_rtts>>

-----------------------------------------------------------------------------
(* Calls: a function has one parameter and one result                      *)

\* Non-parameters are zeroed, with tag 0.
Frame(i, base, arg) ==
  [inst |-> i, base |-> base,
   locals |-> [l \in DOMAIN LocalTypes |->
                 IF l = 1 THEN arg ELSE [v |-> DefaultValue(LocalTypes[l]), t |-> "T_VOID"]]]

HostCall(i) ==
  /\ ~Running
  /\ frames' = <<Frame(i, 0, [v |-> Null, t |-> "T_REF"])>>
  /\ UNCHANGED <<heap, stack, gval, gtag, exn_rtts>>

\* Mutant of Call: the callee's operands begin above the argument, as if it were not popped.
CallUnpopped(i) ==
  /\ Operands(<<LocalTypes[1]>>)
  /\ Len(frames) < MaxFrames
  /\ PopPush(1, << >>)
  /\ frames' = Append(frames, Frame(i, Len(stack), [v |-> Operand(1).v, t |-> Operand(1).t]))
  /\ UNCHANGED <<heap, gval, gtag, exn_rtts>>

Call(i) ==
  /\ Operands(<<LocalTypes[1]>>)
  /\ Len(frames) < MaxFrames
  /\ PopPush(1, << >>)
  /\ frames' = Append(frames, Frame(i, Len(stack) - 1, [v |-> Operand(1).v, t |-> Operand(1).t]))
  /\ UNCHANGED <<heap, gval, gtag, exn_rtts>>

\* Mutant of Return: what lies at the base is taken for the result.
ReturnNoSlide ==
  /\ Operands(<<LocalTypes[1]>>)
  /\ frames' = Front(frames)
  /\ stack' = SubSeq(stack, 1, Current.base)
              \o (IF Len(frames) = 1 THEN << >> ELSE <<[stack[Current.base + 1] EXCEPT !.st = LocalTypes[1]]>>)
  /\ UNCHANGED <<heap, gval, gtag, exn_rtts>>

\* The result slides down over what the body left; the embedder drops its own.
Return ==
  /\ Operands(<<LocalTypes[1]>>)
  /\ frames' = Front(frames)
  /\ stack' = SubSeq(stack, 1, Current.base)
              \o (IF Len(frames) = 1 THEN << >> ELSE <<[Operand(1) EXCEPT !.st = LocalTypes[1]]>>)
  /\ UNCHANGED <<heap, gval, gtag, exn_rtts>>

-----------------------------------------------------------------------------
Init ==
  /\ heap = << >> /\ stack = << >> /\ frames = << >>
  /\ gval = [g \in Global |-> DefaultValue(GlobalType[g])]
  /\ gtag = [i \in Inst |-> [g \in Global |-> "T_REF"]]
  /\ exn_rtts = << >>

Next ==
  \/ Const \/ Drop \/ RefAsNonNull \/ ThrowRef \/ Return
  \/ \E st \in UsedTypes : Select(st)
  \/ \E l \in DOMAIN LocalTypes : LocalGet(l) \/ LocalSet(l)
  \/ \E g \in Global : GlobalGet(g) \/ GlobalSet(g)
  \/ \E ht \in CastTarget : RefCast(ht)
  \/ \E s \in StructType :
       \/ StructNew(s) \/ StructNewDefault(s)
       \/ \E f \in DOMAIN Fields[s] : StructGet(s, f) \/ StructSet(s, f)
  \/ \E a \in ArrayType :
       \/ ArrayNew(a) \/ ArrayNewDefault(a)
       \/ \E n \in 0 .. MaxLen : ArrayNewFixed(a, n)
       \/ \E i \in 1 .. MaxLen + 1 :
            \/ ArrayGet(a, i) \/ ArraySet(a, i)
            \/ \E n \in 0 .. MaxLen :
                 ArrayFill(a, i, n) \/ \E b \in ArrayType, s \in 1 .. MaxLen + 1 : ArrayCopy(a, i, b, s, n)
  \/ \E tag \in Tag : Throw(tag)
  \/ \E i \in Inst : HostCall(i) \/ Call(i)

Spec == Init /\ [][Next]_vars

-----------------------------------------------------------------------------
(* Properties                                                              *)

Value == Obj \cup {Null, I31, Fn, Num}
ValueTag == {"T_VOID", "T_INT", "T_V128", "T_REF", "T_GCREF"}

\* Every slot the program can read: of the stack, the locals and the globals.
ReadableSlots ==
  {[v |-> s.v, t |-> s.t] : s \in ToSet(stack) \cup LiveLocals}
    \cup UNION {{[v |-> gval[g], t |-> gtag[i][g]] : i \in Sees[g]} : g \in Global}

\* Whether v is a value of type st, as the validator means it.
HasType(v, st) ==
  \/ v = Null /\ st.null
  \/ v = I31 /\ st.ht \in {"i31", "any"}
  \/ v = Fn /\ st.ht = "func"
  \/ v = Num /\ st.ht \in {"num", "v128"}
  \/ /\ v \in DOMAIN heap
     /\ \/ heap[v].type = st.ht
        \/ heap[v].type \in Aggregate /\ st.ht = "any"
        \/ heap[v].type \in Tag /\ st.ht = "exn"

\* Slots hold values and known tags, objects are of known types, and the stack is cut
\* into the operands of the active frames.
SlotsTypeOK ==
  /\ DOMAIN heap \subseteq Obj
  /\ \A o \in DOMAIN heap :
       /\ heap[o].type \in Aggregate \cup Tag
       /\ heap[o].cells \in Seq(Value) /\ heap[o].tags \in Seq(ValueTag)
       /\ heap[o].type \in StructType => Len(heap[o].cells) = StructSize(heap[o].type)
       /\ heap[o].type \in Tag =>
            /\ heap[o].type \in DOMAIN exn_rtts
            /\ Len(heap[o].cells) = Len(Params[heap[o].type]) /\ Len(heap[o].tags) = Len(heap[o].cells)
  /\ \A s \in ToSet(stack) : s.v \in Value /\ s.t \in ValueTag /\ s.st \in ValType
  /\ Len(stack) <= MaxStack /\ Len(frames) <= MaxFrames
  /\ \A d \in DOMAIN frames :
       /\ frames[d].base \in (IF d = 1 THEN 0 ELSE frames[d - 1].base) .. Len(stack)
       /\ frames[d].inst \in Inst
       /\ \A s \in ToSet(frames[d].locals) : s.v \in Value /\ s.t \in ValueTag
  /\ gval \in [Global -> Value] /\ gtag \in [Inst -> [Global -> ValueTag]]
  /\ \A x \in DOMAIN exn_rtts : x \in Tag /\ exn_rtts[x] \subseteq DOMAIN Params[x]

\* Whatever instruction put it there, an object in a slot or a cell the program can read
\* is one the collector will find there: the slot is tagged T_GCREF, the cell is named by
\* the object's RTT (jav_gc_enum_roots, gc_collect).  Otherwise the next collection frees
\* or moves it behind the program's back.
NoUntracedReference ==
  /\ \A s \in ReadableSlots : s.v \in Obj => s.t = "T_GCREF"
  /\ \A o \in DOMAIN heap :
       /\ \A c \in DOMAIN heap[o].cells : heap[o].cells[c] \in Obj => c \in Traced(heap[o], exn_rtts)
       /\ \A c \in DOMAIN heap[o].tags : heap[o].cells[c] \in Obj => heap[o].tags[c] = "T_GCREF"

\* What the collector follows is a pointer to an allocated object, or a value gc_mark1
\* refuses (null, i31): never a number, a function or an object already freed.
FollowedAreReferences ==
  /\ \A s \in ReadableSlots : s.t = "T_GCREF" => s.v \in DOMAIN heap \cup {Null, I31}
  /\ \A o \in Marked(stack) : \A c \in Traced(heap[o], exn_rtts) :
       heap[o].cells[c] \in DOMAIN heap \cup {Null, I31}

\* A cast reads the layout of objects only: a value says itself whether it is one, and
\* the tag beside it does not (jav_frame.h, on JAV_IS_I31).
CastsReadObjects ==
  \A s \in ToSet(stack) : SubType(s.st, AnyRef) =>
    \A ht \in CastTarget : ReadsThrough(s.t, ht) => s.v # I31

\* A cast decides by value, tag and RTT (jav_ref_matches) and is right about every
\* operand it may be given, through every path the operand took, if it reads through no i31.
CastsAreExact ==
  \A s \in ToSet(stack) : SubType(s.st, AnyRef) =>
    \A ht \in CastTarget :
      \/ s.v = I31 /\ ReadsThrough(s.t, ht)
      \/ RefMatches(s.v, s.t, ht) <=> HasType(s.v, RefNonNull(ht))

\* Every slot, local, global and cell holds a value of its validated type, also after
\* collections, catches and returns have moved the slots about.
ValuesHaveTypes ==
  /\ \A s \in ToSet(stack) : HasType(s.v, s.st)
  /\ \A fr \in ToSet(frames) : \A l \in DOMAIN LocalTypes : HasType(fr.locals[l].v, LocalTypes[l])
  /\ \A g \in Global : HasType(gval[g], GlobalType[g])
  /\ \A o \in Marked(stack) :
       IF heap[o].type \in StructType
       THEN \A f \in DOMAIN Fields[heap[o].type] :
              HasType(heap[o].cells[Offset(heap[o].type, f)], Fields[heap[o].type][f])
       ELSE \A c \in DOMAIN heap[o].cells :
              HasType(heap[o].cells[c],
                      IF heap[o].type \in ArrayType THEN Elem[heap[o].type] ELSE Params[heap[o].type][c])
=============================================================================
