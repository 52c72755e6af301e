------------------------ MODULE StoreObjects_proofs ------------------------
(***************************************************************************)
(* For every word size, page size and limit, and any operations in any     *)
(* order: no operation touches a cell outside its array, no array grows    *)
(* past what the engine can back, the tags beside table slots are those of *)
(* their references, and the operations are those of AbstractStore.        *)
(***************************************************************************)
EXTENDS StoreObjects, SequenceTheorems, NaturalsInduction, WellFoundedInduction, TLAPS

MaxBytes == JAV_MAX_MEMORY_PAGES * PageSize

-----------------------------------------------------------------------------
(* Words                                                                   *)

LEMMA MaxBytesType == MaxBytes \in Nat /\ MaxBytes < U8
BY StoreAssumption DEF MaxBytes

LEMMA WordRange ==
  ASSUME NEW x \in Int
  PROVE  Word(x) \in 0 .. (U8 - 1)
BY StoreAssumption DEF Word

\* A word that does not overflow is the number itself.
LEMMA WordSmall ==
  ASSUME NEW x \in 0 .. (U8 - 1)
  PROVE  Word(x) = x
<1> DEFINE q == x \div U8
<1>1. q \in Int /\ x = (q * U8) + (x % U8) /\ x % U8 \in 0 .. (U8 - 1)
  BY StoreAssumption
<1>2. CASE q = 0
  BY <1>1, <1>2, StoreAssumption DEF Word
<1>3. CASE q >= 1
  <2>1. q * U8 >= U8
    <3>1. PICK k \in Nat : q = k + 1
      BY <1>1, <1>3, q - 1 \in Nat
    <3>2. k * U8 \in Nat
      BY StoreAssumption
    <3>3. q * U8 = k * U8 + U8
      BY <3>1, StoreAssumption
    <3> QED
      BY <3>2, <3>3, StoreAssumption
  <2> QED
    BY <1>1, <2>1, StoreAssumption
<1>4. CASE q <= -1
  <2>1. q * U8 <= -U8
    <3>1. PICK k \in Nat : q = -k - 1
      BY <1>1, <1>4, -q - 1 \in Nat
    <3>2. k * U8 \in Nat
      BY StoreAssumption
    <3>3. q * U8 = -(k * U8) - U8
      BY <3>1, StoreAssumption
    <3> QED
      BY <3>2, <3>3, StoreAssumption
  <2> QED
    BY <1>1, <2>1, StoreAssumption
<1> QED
  BY <1>1, <1>2, <1>3, <1>4

\* The test by subtraction is exact for all words, however large.
LEMMA RangeOkExact ==
  ASSUME NEW len \in 0 .. (U8 - 1), NEW ea \in 0 .. (U8 - 1), NEW n \in Nat
  PROVE  RangeOk(len, ea, n) <=> ea + n <= len
<1>1. CASE ea <= len
  <2>1. Word(len - ea) = len - ea
    BY <1>1, WordSmall, StoreAssumption
  <2> QED
    BY <1>1, <2>1 DEF RangeOk
<1>2. CASE ~(ea <= len)
  BY <1>2 DEF RangeOk
<1> QED
  BY <1>1, <1>2

\* The test by addition is so only while the sum is a word.
LEMMA RangeOkSumExact ==
  ASSUME NEW len \in 0 .. (U8 - 1), NEW ea \in Nat, NEW n \in Nat, ea + n < U8
  PROVE  RangeOkSum(len, ea, n) <=> ea + n <= len
BY WordSmall, StoreAssumption DEF RangeOkSum

LEMMA InsideExact ==
  ASSUME NEW len \in Nat, NEW d \in Nat, NEW n \in Nat, d + n <= len
  PROVE  Inside(len, d, n)
BY DEF Inside

-----------------------------------------------------------------------------
(* Sequences of objects with a size                                        *)

\* Every object of s is a record with a size f in 0 .. b and a declared maximum.
Bounded(e, f, b) == f \in DOMAIN e /\ e[f] \in 0 .. b /\ "max" \in DOMAIN e /\ e.max \in Nat
Sized(s, f, b) ==
  /\ s \in Seq({s[i] : i \in DOMAIN s})
  /\ \A i \in DOMAIN s : Bounded(s[i], f, b)

LEMMA AppendSized ==
  ASSUME NEW s, NEW f, NEW b \in Nat, Sized(s, f, b),
         NEW e, Bounded(e, f, b)
  PROVE  Sized(Append(s, e), f, b)
<1> DEFINE R == {s[i] : i \in DOMAIN s}
           S == R \cup {e}
           t == Append(s, e)
<1>1. s \in Seq(R) /\ e \in S
  BY DEF Sized
<1>2. s \in Seq(S)
  BY <1>1, SeqMonotonic
<1>3. /\ t \in Seq(S)
      /\ Len(t) = Len(s) + 1
      /\ \A i \in 1 .. Len(s) : t[i] = s[i]
      /\ t[Len(s) + 1] = e
  BY <1>1, <1>2, AppendProperties
<1>4. Len(s) \in Nat /\ DOMAIN s = 1 .. Len(s) /\ DOMAIN t = 1 .. (Len(s) + 1)
  BY <1>2, <1>3, LenProperties
<1>5. \A i \in DOMAIN t : Bounded(t[i], f, b)
  BY <1>3, <1>4 DEF Sized
<1>6. t \in Seq({t[i] : i \in DOMAIN t})
  BY <1>3, <1>4, SeqOfRange, RangeEquality
<1> QED
  BY <1>5, <1>6 DEF Sized

LEMMA ExceptSized ==
  ASSUME NEW s, NEW f, NEW b \in Nat, Sized(s, f, b),
         NEW i \in DOMAIN s, NEW e, Bounded(e, f, b)
  PROVE  Sized([s EXCEPT ![i] = e], f, b)
<1> DEFINE R == {s[j] : j \in DOMAIN s}
           S == R \cup {e}
           t == [s EXCEPT ![i] = e]
<1>1. s \in Seq(R) /\ e \in S
  BY DEF Sized
<1>2. s \in Seq(S) /\ i \in 1 .. Len(s)
  BY <1>1, SeqMonotonic, LenProperties
<1>3. /\ t \in Seq(S)
      /\ Len(t) = Len(s)
      /\ \A j \in 1 .. Len(s) : t[j] = IF j = i THEN e ELSE s[j]
  BY <1>1, <1>2, ExceptSeq
<1>4. DOMAIN s = 1 .. Len(s) /\ DOMAIN t = 1 .. Len(s)
  BY <1>2, <1>3, LenProperties
<1>5. \A j \in DOMAIN t : Bounded(t[j], f, b)
  BY <1>3, <1>4 DEF Sized
<1>6. t \in Seq({t[j] : j \in DOMAIN t})
  BY <1>3, <1>4, SeqOfRange, RangeEquality
<1> QED
  BY <1>5, <1>6 DEF Sized

-----------------------------------------------------------------------------
(* The invariant                                                           *)

\* A call under way was made on the arrays as they are.
CallsInv == call = NoCall \/ call \in Calls

StoreInv ==
  /\ todo \in Seq(ObjType)
  /\ Sized(mems, "size", MaxBytes)
  /\ Sized(tables, "len", JAV_MAX_TABLE_ELEMS)
  /\ CallsInv

\* What the operands of each call are.
MemOperands(m, c) ==
  /\ c.m = m
  /\ c.op \in {"load", "store", "memory_fill", "memory_copy", "memory_init", "active_data",
               "memory_grow", "wasm_memory_write"}
  /\ c.op \in {"load", "store"} =>
       /\ c.d \in Addr /\ c.d \in 0 .. (U8 - 1) /\ c.o \in Offset /\ c.o \in 0 .. (U8 - 1)
       /\ c.n \in 1 .. (U4 - 1)
  /\ c.op \in {"store", "memory_fill", "wasm_memory_write"} => c.v \in Byte
  /\ c.op \in {"memory_fill", "memory_copy"} => c.d \in 0 .. (U8 - 1) /\ c.n \in 0 .. (U8 - 1)
  /\ c.op = "memory_copy" => c.f \in DOMAIN mems /\ c.s \in 0 .. (U8 - 1)
  /\ c.op = "memory_init" => /\ c.x \in DOMAIN DataSegs /\ c.d \in 0 .. (U8 - 1)
                             /\ c.s \in 0 .. (U4 - 1) /\ c.n \in 0 .. (U4 - 1)
  /\ c.op = "active_data" => c.x \in DOMAIN DataSegs /\ c.d \in ActiveAt
  /\ c.op = "memory_grow" => c.n \in 0 .. (U8 - 1)
  /\ c.op = "wasm_memory_write" => c.d \in 0 .. (U8 - 1)

LEMMA MemCallOperands ==
  ASSUME NEW m, NEW c \in MemCallsOn(m)
  PROVE  MemOperands(m, c)
<1> DEFINE
  Load == [op : {"load"}, m : {m}, d : MemWord(m), o : Offset, n : Width]
  Store == [op : {"store"}, m : {m}, d : MemWord(m), o : Offset, n : Width, v : Byte]
  Fill == [op : {"memory_fill"}, m : {m}, d : MemWord(m), n : MemWord(m), v : Byte]
  Segm == [op : {"memory_init"}, m : {m}, x : DOMAIN DataSegs, d : MemWord(m), s : Count, n : Count]
  Active == [op : {"active_data"}, m : {m}, x : DOMAIN DataSegs, d : ActiveAt \cap AddrWord(mems[m].is64)]
  Grow == [op : {"memory_grow"}, m : {m}, n : MemWord(m) \cup HostDelta]
  Write == [op : {"wasm_memory_write"}, m : {m}, d : Addr, v : Byte]
<1>1. MemCallsOn(m) = Load \cup Store \cup Fill \cup MemCopies(m) \cup Segm \cup Active \cup Grow \cup Write
  BY DEF MemCallsOn
<1>2. c \in Load \cup Store => MemOperands(m, c)
  BY StoreAssumption DEF MemWord, MemOperands
<1>3. c \in Fill => MemOperands(m, c)
  BY StoreAssumption DEF MemWord, MemOperands
<1>4. c \in MemCopies(m) => MemOperands(m, c)
  BY StoreAssumption DEF MemWord, MemOperands, MemCopies
<1>5. c \in Segm => MemOperands(m, c)
  BY StoreAssumption DEF MemWord, MemOperands
<1>6. c \in Active => MemOperands(m, c)
  BY DEF MemOperands
<1>7. c \in Grow => MemOperands(m, c)
  BY StoreAssumption DEF MemWord, MemOperands
<1>8. c \in Write => MemOperands(m, c)
  BY StoreAssumption DEF MemOperands
<1> HIDE DEF Load, Store, Fill, Segm, Active, Grow, Write
<1> QED
  BY <1>1, <1>2, <1>3, <1>4, <1>5, <1>6, <1>7, <1>8

TableOperands(t, c) ==
  /\ c.t = t
  /\ c.op \in {"table_get", "table_set", "wasm_table_set", "table_fill", "table_copy", "table_init",
               "active_elem", "table_grow"}
  /\ c.op \in {"table_get", "table_set", "wasm_table_set", "table_fill", "table_copy", "table_init"} =>
       c.d \in 0 .. (U8 - 1)
  /\ c.op \in {"table_set", "wasm_table_set", "table_fill", "table_grow"} => c.v \in Ref
  /\ c.op = "table_init" => c.x \in DOMAIN ElemSegs /\ c.s \in 0 .. (U4 - 1) /\ c.n \in 0 .. (U4 - 1)
  /\ c.op \in {"table_fill", "table_copy"} => c.n \in 0 .. (U8 - 1)
  /\ c.op = "table_copy" => c.f \in DOMAIN tables /\ c.s \in 0 .. (U8 - 1)
  /\ c.op = "active_elem" => c.x \in DOMAIN ElemSegs /\ c.d \in 0 .. (U8 - 1)
  /\ c.op = "table_grow" => /\ c.n \in 0 .. (U8 - 1)
                            /\ c.host \in BOOLEAN
                            /\ c.host => c.n \in HostDelta

LEMMA TableCallOperands ==
  ASSUME NEW t, NEW c \in TableCallsOn(t)
  PROVE  TableOperands(t, c)
<1> DEFINE
  Get == [op : {"table_get"}, t : {t}, d : TableWord(t)]
  Set == [op : {"table_set"}, t : {t}, d : TableWord(t), v : Ref]
  Write == [op : {"wasm_table_set"}, t : {t}, d : Addr, v : Ref]
  Fill == [op : {"table_fill"}, t : {t}, d : TableWord(t), n : TableWord(t), v : Ref]
  Segm == [op : {"table_init"}, t : {t}, x : DOMAIN ElemSegs, d : TableWord(t), s : Count, n : Count]
  Active == [op : {"active_elem"}, t : {t}, x : DOMAIN ElemSegs, d : ActiveAt \cap AddrWord(tables[t].is64)]
  Grow == [op : {"table_grow"}, t : {t}, n : TableWord(t), v : Ref, host : {FALSE}]
  HostGrow == [op : {"table_grow"}, t : {t}, n : HostDelta, v : Ref, host : {TRUE}]
<1>1. TableCallsOn(t) = Get \cup Set \cup Write \cup Fill \cup TableCopies(t) \cup Segm \cup Active \cup Grow \cup HostGrow
  BY DEF TableCallsOn
<1>2. c \in Get \cup Set => TableOperands(t, c)
  BY StoreAssumption DEF TableWord, TableOperands
<1>3. c \in Write => TableOperands(t, c)
  BY StoreAssumption DEF TableOperands
<1>4. c \in Fill => TableOperands(t, c)
  BY StoreAssumption DEF TableWord, TableOperands
<1>5. c \in TableCopies(t) => TableOperands(t, c)
  BY StoreAssumption DEF TableWord, TableOperands, TableCopies
<1>6. c \in Segm => TableOperands(t, c)
  BY StoreAssumption DEF TableWord, TableOperands
<1>7. c \in Active => TableOperands(t, c)
  BY StoreAssumption DEF TableOperands
<1>8. c \in Grow => TableOperands(t, c)
  BY StoreAssumption DEF TableWord, TableOperands
<1>9. c \in HostGrow => TableOperands(t, c)
  BY StoreAssumption DEF TableOperands
<1> HIDE DEF Get, Set, Write, Fill, Segm, Active, Grow, HostGrow
<1> QED
  BY <1>1, <1>2, <1>3, <1>4, <1>5, <1>6, <1>7, <1>8, <1>9

LEMMA CallOperands ==
  ASSUME NEW c \in Calls
  PROVE  \/ \E m \in DOMAIN mems : MemOperands(m, c)
         \/ \E t \in DOMAIN tables : TableOperands(t, c)
         \/ c.op \in {"data_drop", "elem_drop"}
<1> DEFINE
  OfMem == UNION {MemCallsOn(m) : m \in DOMAIN mems}
  OfTable == UNION {TableCallsOn(t) : t \in DOMAIN tables}
  Drops == [op : {"data_drop"}, x : DOMAIN DataSegs] \cup [op : {"elem_drop"}, x : DOMAIN ElemSegs]
<1>1. Calls = OfMem \cup OfTable \cup [op : {"data_drop"}, x : DOMAIN DataSegs]
                \cup [op : {"elem_drop"}, x : DOMAIN ElemSegs]
  BY DEF Calls
<1>2. c \in OfMem => \E m \in DOMAIN mems : c \in MemCallsOn(m)
  OBVIOUS
<1>3. c \in OfTable => \E t \in DOMAIN tables : c \in TableCallsOn(t)
  OBVIOUS
<1>4. c \in Drops => c.op \in {"data_drop", "elem_drop"}
  OBVIOUS
<1>5. c \in OfMem \/ c \in OfTable \/ c \in Drops
  <2> HIDE DEF OfMem, OfTable
  <2> QED BY <1>1
<1> HIDE DEF OfMem, OfTable, Drops
<1> QED
  BY <1>2, <1>3, <1>4, <1>5, MemCallOperands, TableCallOperands

\* The call that an operation performs.
LEMMA MemCallUnderWay ==
  ASSUME CallsInv, NEW op, Perform(op),
         op \in {"load", "store", "memory_fill", "memory_copy", "memory_init", "active_data",
                 "memory_grow", "wasm_memory_write"}
  PROVE  call.op = op /\ call.m \in DOMAIN mems /\ MemOperands(call.m, call)
<1>1. call \in Calls
  BY DEF CallsInv, Perform, NoCall
<1>2. \E m \in DOMAIN mems : MemOperands(m, call)
  <2>1. ~(call.op \in {"data_drop", "elem_drop"})
    BY DEF Perform
  <2>2. ~(\E t \in DOMAIN tables : TableOperands(t, call))
    BY DEF TableOperands, Perform
  <2> QED
    BY <1>1, <2>1, <2>2, CallOperands
<1> QED
  BY <1>2 DEF MemOperands, Perform

LEMMA PerformMem ==
  ASSUME StoreInv, NEW op, Perform(op),
         op \in {"load", "store", "memory_fill", "memory_copy", "memory_init", "active_data",
                 "memory_grow", "wasm_memory_write"}
  PROVE  call.op = op /\ call.m \in DOMAIN mems /\ MemOperands(call.m, call)
BY MemCallUnderWay DEF StoreInv

LEMMA TableCallUnderWay ==
  ASSUME CallsInv, NEW op, Perform(op),
         op \in {"table_get", "table_set", "wasm_table_set", "table_fill", "table_copy", "table_init",
                 "active_elem", "table_grow"}
  PROVE  call.op = op /\ call.t \in DOMAIN tables /\ TableOperands(call.t, call)
<1>1. call \in Calls
  BY DEF CallsInv, Perform, NoCall
<1>2. \E t \in DOMAIN tables : TableOperands(t, call)
  <2>1. ~(call.op \in {"data_drop", "elem_drop"})
    BY DEF Perform
  <2>2. ~(\E m \in DOMAIN mems : MemOperands(m, call))
    BY DEF MemOperands, Perform
  <2> QED
    BY <1>1, <2>1, <2>2, CallOperands
<1> QED
  BY <1>2 DEF TableOperands, Perform

LEMMA PerformTable ==
  ASSUME StoreInv, NEW op, Perform(op),
         op \in {"table_get", "table_set", "wasm_table_set", "table_fill", "table_copy", "table_init",
                 "active_elem", "table_grow"}
  PROVE  call.op = op /\ call.t \in DOMAIN tables /\ TableOperands(call.t, call)
BY TableCallUnderWay DEF StoreInv

\* Writing cells leaves the sizes alone.
LEMMA CellsKeepSize ==
  ASSUME NEW s, NEW f \in {"size", "len"}, NEW b \in Nat, Sized(s, f, b), NEW i \in DOMAIN s, NEW g
  PROVE  Sized([s EXCEPT ![i].cells = g], f, b)
<1> DEFINE e == [s[i] EXCEPT !.cells = g]
<1>1. Bounded(s[i], f, b)
  BY DEF Sized
<1>2. Bounded(e, f, b)
  BY <1>1 DEF Bounded
<1>3. [s EXCEPT ![i].cells = g] = [s EXCEPT ![i] = e]
  OBVIOUS
<1> HIDE DEF e
<1> QED
  BY <1>2, <1>3, ExceptSized

-----------------------------------------------------------------------------
(* Every step keeps the invariant                                          *)

\* What the embedder adds to a table of the largest length is still a word.
HostGrowthSmall == \A n \in HostDelta : n + JAV_MAX_TABLE_ELEMS < U8
\* No active segment is placed so high that its end is not a word.
ActiveSmall == \A a \in ActiveAt : \A x \in DOMAIN DataSegs : a + DataSegs[x].len < U8

LEMMA EmptySized ==
  ASSUME NEW f, NEW b
  PROVE  Sized(<<>>, f, b)
BY DEF Sized

LEMMA StoreInit == Init => StoreInv /\ NoStrayAccess
BY EmptySized, StoreAssumption DEF Init, StoreInv, CallsInv, NoStrayAccess

\* A step that changes no array.
LEMMA KeepArrays ==
  ASSUME StoreInv, todo' = todo, mems' = mems, tables' = tables,
         call' = NoCall \/ call' = call \/ call' \in Calls
  PROVE  StoreInv'
<1>1. Calls' = Calls
  BY DEF Calls, MemCallsOn, MemCopies, MemWord, TableCallsOn, TableCopies, TableWord, AddrWord
<1>2. CallsInv'
  BY <1>1 DEF CallsInv, StoreInv
<1>3. Sized(mems, "size", MaxBytes)' /\ Sized(tables, "len", JAV_MAX_TABLE_ELEMS)'
  BY DEF StoreInv, Sized, Bounded, MaxBytes
<1> QED
  BY <1>2, <1>3 DEF StoreInv

LEMMA PutMemKeeps ==
  ASSUME StoreInv, call.m \in DOMAIN mems, call' = NoCall,
         NEW d, NEW n, NEW g, PutMem(d, n, g)
  PROVE  StoreInv'
<1>1. Sized(mems', "size", MaxBytes)
  BY CellsKeepSize, MaxBytesType DEF StoreInv, PutMem
<1>2. Sized(mems, "size", MaxBytes)'
  BY <1>1 DEF Sized, Bounded, MaxBytes
<1>3. Sized(tables, "len", JAV_MAX_TABLE_ELEMS)'
  BY DEF StoreInv, PutMem, Sized, Bounded
<1> QED
  BY <1>2, <1>3 DEF StoreInv, CallsInv, PutMem

LEMMA PutTableKeeps ==
  ASSUME StoreInv, call.t \in DOMAIN tables, call' = NoCall,
         NEW d, NEW n, NEW g, PutTable(d, n, g)
  PROVE  StoreInv'
<1>1. Sized(tables', "len", JAV_MAX_TABLE_ELEMS)
  BY CellsKeepSize, StoreAssumption DEF StoreInv, PutTable
<1>2. Sized(tables, "len", JAV_MAX_TABLE_ELEMS)'
  BY <1>1 DEF Sized, Bounded
<1>3. Sized(mems, "size", MaxBytes)'
  BY DEF StoreInv, PutTable, Sized, Bounded, MaxBytes
<1> QED
  BY <1>2, <1>3 DEF StoreInv, CallsInv, PutTable

LEMMA FailsKeeps ==
  ASSUME StoreInv, call' = NoCall, NEW a, Fails(a)
  PROVE  StoreInv'
BY KeepArrays DEF Fails

LEMMA PagesFit ==
  ASSUME NEW n \in 0 .. JAV_MAX_MEMORY_PAGES
  PROVE  Word(n * PageSize) \in 0 .. MaxBytes
<1> DEFINE k == JAV_MAX_MEMORY_PAGES - n
<1>1. k \in Nat /\ n \in Nat /\ n + k = JAV_MAX_MEMORY_PAGES
  BY StoreAssumption
<1>2. (n + k) * PageSize = n * PageSize + k * PageSize
  BY <1>1, StoreAssumption
<1>3. n * PageSize \in Nat /\ k * PageSize \in Nat
  BY <1>1, StoreAssumption
<1>4. n * PageSize \in 0 .. MaxBytes
  BY <1>1, <1>2, <1>3, StoreAssumption DEF MaxBytes
<1>5. n * PageSize \in 0 .. (U8 - 1)
  BY <1>4, MaxBytesType, StoreAssumption
<1>6. Word(n * PageSize) = n * PageSize
  <2> DEFINE p == n * PageSize
  <2>1. p \in 0 .. (U8 - 1)
    BY <1>5
  <2> HIDE DEF p
  <2>2. Word(p) = p
    BY <2>1, WordSmall
  <2> QED
    BY <2>2 DEF p
<1> QED
  BY <1>4, <1>6

LEMMA AllocateKeeps == StoreInv /\ Allocate => StoreInv'
<1> SUFFICES ASSUME StoreInv, Allocate PROVE StoreInv'
  OBVIOUS
<1> DEFINE o == Head(todo)
<1>1. o \in ObjType /\ Tail(todo) \in Seq(ObjType)
  BY HeadTailProperties DEF StoreInv, Allocate
<1>2. <<>> \in Seq(ObjType)
  OBVIOUS
<1>3. CASE MemAdd(o) /\ UNCHANGED tables
  <2>1. todo' \in Seq(ObjType)
    BY <1>1, <1>2, <1>3 DEF MemAdd
  <2>2. Sized(mems', "size", MaxBytes)
    <3>1. CASE mems' = mems
      BY <3>1 DEF StoreInv
    <3>2. ASSUME o.min <= JAV_MAX_MEMORY_PAGES, NEW c
          PROVE  Sized(Append(mems, [size |-> Word(o.min * PageSize), cells |-> c,
                                     has_max |-> o.has_max, max |-> o.max, is64 |-> o.is64]),
                       "size", MaxBytes)
      <4> DEFINE e == [size |-> Word(o.min * PageSize), cells |-> c,
                       has_max |-> o.has_max, max |-> o.max, is64 |-> o.is64]
      <4>1. Word(o.min * PageSize) \in 0 .. MaxBytes
        <5>1. o.min \in 0 .. JAV_MAX_MEMORY_PAGES
          BY <1>1, <3>2, StoreAssumption DEF ObjType
        <5> QED
          BY <5>1, PagesFit
      <4>2. o.max \in Nat
        BY <1>1, StoreAssumption DEF ObjType
      <4>3. Bounded(e, "size", MaxBytes)
        BY <4>1, <4>2 DEF Bounded
      <4>4. SUFFICES Sized(Append(mems, e), "size", MaxBytes)
        OBVIOUS
      <4> HIDE DEF e
      <4> QED
        BY <4>3, AppendSized, MaxBytesType DEF StoreInv
    <3> QED
      BY <1>3, <3>1, <3>2 DEF MemAdd
  <2>3. Sized(mems, "size", MaxBytes)' /\ Sized(tables, "len", JAV_MAX_TABLE_ELEMS)'
    BY <1>3, <2>2 DEF StoreInv, Sized, Bounded, MaxBytes
  <2> QED
    BY <2>1, <2>3 DEF StoreInv, CallsInv, Allocate
<1>4. CASE TableAdd(o) /\ UNCHANGED mems
  <2>1. todo' \in Seq(ObjType)
    BY <1>1, <1>2, <1>4 DEF TableAdd
  <2>2. Sized(tables', "len", JAV_MAX_TABLE_ELEMS)
    <3>1. CASE tables' = tables
      BY <3>1 DEF StoreInv
    <3>2. ASSUME o.min <= JAV_MAX_TABLE_ELEMS, NEW c
          PROVE  Sized(Append(tables, [len |-> o.min, cells |-> c,
                                       has_max |-> o.has_max, max |-> o.max % U4, is64 |-> o.is64]),
                       "len", JAV_MAX_TABLE_ELEMS)
      <4> DEFINE e == [len |-> o.min, cells |-> c,
                       has_max |-> o.has_max, max |-> o.max % U4, is64 |-> o.is64]
      <4>1. o.min \in 0 .. JAV_MAX_TABLE_ELEMS
        BY <1>1, <3>2, StoreAssumption DEF ObjType
      <4>2. o.max % U4 \in Nat
        BY <1>1, StoreAssumption DEF ObjType
      <4>3. Bounded(e, "len", JAV_MAX_TABLE_ELEMS)
        BY <4>1, <4>2 DEF Bounded
      <4>4. SUFFICES Sized(Append(tables, e), "len", JAV_MAX_TABLE_ELEMS)
        OBVIOUS
      <4> HIDE DEF e
      <4> QED
        BY <4>3, AppendSized, StoreAssumption DEF StoreInv
    <3> QED
      BY <1>4, <3>1, <3>2 DEF TableAdd
  <2>3. Sized(mems, "size", MaxBytes)' /\ Sized(tables, "len", JAV_MAX_TABLE_ELEMS)'
    BY <1>4, <2>2 DEF StoreInv, Sized, Bounded, MaxBytes
  <2> QED
    BY <2>1, <2>3 DEF StoreInv, CallsInv, Allocate
<1> QED
  BY <1>3, <1>4 DEF Allocate

LEMMA MemGrowKeeps == StoreInv /\ MemGrow => StoreInv'
<1> SUFFICES ASSUME StoreInv, MemGrow PROVE StoreInv'
  OBVIOUS
<1>1. call' = NoCall
  BY DEF MemGrow, Perform
<1>2. CASE Fails(Refused)
  BY <1>1, <1>2, FailsKeeps
<1>3. CASE ~Fails(Refused)
  <2> DEFINE m == mems[call.m]
             newpages == Word(m.size \div PageSize + Signed(call.n))
             newsize == Word(newpages * PageSize)
             e == [m EXCEPT !.size = newsize, !.cells = Extended(@, m.size, newsize - m.size, 0)]
  <2>1. call.m \in DOMAIN mems /\ MemOperands(call.m, call) /\ call.op = "memory_grow"
    BY PerformMem DEF MemGrow
  <2>2. Bounded(m, "size", MaxBytes)
    BY <2>1 DEF StoreInv, Sized
  <2>3. newpages \in 0 .. JAV_MAX_MEMORY_PAGES
    <3>1. m.size \div PageSize + Signed(call.n) \in Int
      BY <2>1, <2>2, MaxBytesType, StoreAssumption DEF Bounded, MemOperands, Signed
    <3>2. newpages \in Nat
      BY <3>1, WordRange, StoreAssumption
    <3>3. newpages <= PagesAllowed(m)
      BY <1>3 DEF MemGrow
    <3>4. PagesDeclared(m) \in Int
      BY <2>2, StoreAssumption DEF PagesDeclared, Bounded
    <3> QED
      BY <3>2, <3>3, <3>4, StoreAssumption DEF PagesAllowed
  <2>4. newsize \in 0 .. MaxBytes
    BY <2>3, PagesFit
  <2>5. Bounded(e, "size", MaxBytes)
    <3> HIDE DEF m, newsize
    <3> QED BY <2>2, <2>4 DEF Bounded
  <2>6. mems' = [mems EXCEPT ![call.m] = e] /\ UNCHANGED <<todo, tables>>
    BY <1>3 DEF MemGrow
  <2>7. Sized(mems', "size", MaxBytes)
    <3> HIDE DEF e
    <3> QED BY <2>1, <2>5, <2>6, ExceptSized, MaxBytesType DEF StoreInv
  <2>8. Sized(mems, "size", MaxBytes)' /\ Sized(tables, "len", JAV_MAX_TABLE_ELEMS)'
    BY <2>6, <2>7 DEF StoreInv, Sized, Bounded, MaxBytes
  <2> QED
    BY <1>1, <2>6, <2>8 DEF StoreInv, CallsInv
<1> QED
  BY <1>2, <1>3

LEMMA TableGrowKeeps == HostGrowthSmall /\ StoreInv /\ TableGrow => StoreInv'
<1> SUFFICES ASSUME HostGrowthSmall, StoreInv, TableGrow PROVE StoreInv'
  OBVIOUS
<1>1. call' = NoCall
  BY DEF TableGrow, Perform
<1>2. CASE Fails(Refused)
  BY <1>1, <1>2, FailsKeeps
<1>3. CASE ~Fails(Refused)
  <2> DEFINE t == tables[call.t]
             e == [t EXCEPT !.len = @ + call.n, !.cells = Extended(@, t.len, call.n, Cell(call.v))]
  <2>1. call.t \in DOMAIN tables /\ TableOperands(call.t, call) /\ call.op = "table_grow"
    BY PerformTable DEF TableGrow
  <2>2. Bounded(t, "len", JAV_MAX_TABLE_ELEMS)
    BY <2>1 DEF StoreInv, Sized
  <2>3. t.len + call.n \in 0 .. JAV_MAX_TABLE_ELEMS
    <3>1. call.n \in 0 .. (U8 - 1) /\ t.len \in 0 .. JAV_MAX_TABLE_ELEMS
      BY <2>1, <2>2 DEF TableOperands, Bounded
    <3>2. t.len + call.n < U8
      <4>1. CASE call.host
        BY <2>1, <3>1, <4>1, StoreAssumption DEF TableOperands, HostGrowthSmall
      <4>2. CASE ~call.host
        <5>1. Signed(call.n) >= 0
          BY <1>3, <4>2 DEF TableGrow
        <5>2. call.n < U8 \div 2
          BY <3>1, <5>1, StoreAssumption DEF Signed
        <5>3. U8 \div 2 \in Int /\ 2 * (U8 \div 2) <= U8
          BY StoreAssumption
        <5> QED
          BY <3>1, <5>2, <5>3, StoreAssumption
      <4> QED
        BY <4>1, <4>2
    <3>3. Word(t.len + call.n) = t.len + call.n
      BY <3>1, <3>2, WordSmall, StoreAssumption
    <3>4. t.len + call.n <= SlotsAllowed(t)
      BY <1>3, <3>3 DEF TableGrow
    <3>5. SlotsDeclared(t) \in Int
      BY <2>2, StoreAssumption DEF SlotsDeclared, Bounded
    <3> QED
      BY <3>1, <3>4, <3>5, StoreAssumption DEF SlotsAllowed
  <2>4. Bounded(e, "len", JAV_MAX_TABLE_ELEMS)
    <3> HIDE DEF t
    <3> QED BY <2>2, <2>3 DEF Bounded
  <2>5. tables' = [tables EXCEPT ![call.t] = e] /\ UNCHANGED <<todo, mems>>
    BY <1>3 DEF TableGrow
  <2>6. Sized(tables', "len", JAV_MAX_TABLE_ELEMS)
    <3> HIDE DEF e
    <3> QED BY <2>1, <2>4, <2>5, ExceptSized, StoreAssumption DEF StoreInv
  <2>7. Sized(mems, "size", MaxBytes)' /\ Sized(tables, "len", JAV_MAX_TABLE_ELEMS)'
    BY <2>5, <2>6 DEF StoreInv, Sized, Bounded, MaxBytes
  <2> QED
    BY <1>1, <2>5, <2>7 DEF StoreInv, CallsInv
<1> QED
  BY <1>2, <1>3

LEMMA MemStepKeeps ==
  ASSUME StoreInv,
         MemLoad \/ MemStore \/ MemFill \/ MemCopy \/ MemInit \/ DropData \/ ActiveData \/ HostMemWrite
  PROVE  StoreInv'
<1>1. CASE MemLoad
  BY <1>1, KeepArrays DEF MemLoad, Perform, Fails
<1>2. CASE MemStore
  <2>1. call.m \in DOMAIN mems /\ call' = NoCall
    BY <1>2, PerformMem DEF MemStore, Perform
  <2> QED
    BY <1>2, <2>1, PutMemKeeps, FailsKeeps DEF MemStore
<1>3. CASE MemFill
  <2>1. call.m \in DOMAIN mems /\ call' = NoCall
    BY <1>3, PerformMem DEF MemFill, Perform
  <2> QED
    BY <1>3, <2>1, PutMemKeeps, FailsKeeps DEF MemFill
<1>4. CASE MemCopy
  <2>1. call.m \in DOMAIN mems /\ call' = NoCall
    BY <1>4, PerformMem DEF MemCopy, Perform
  <2> QED
    BY <1>4, <2>1, PutMemKeeps, FailsKeeps DEF MemCopy
<1>5. CASE MemInit
  <2>1. call.m \in DOMAIN mems /\ call' = NoCall
    BY <1>5, PerformMem DEF MemInit, Perform
  <2> QED
    BY <1>5, <2>1, PutMemKeeps, FailsKeeps DEF MemInit
<1>6. CASE DropData
  BY <1>6, KeepArrays DEF DropData, Perform
<1>7. CASE ActiveData
  <2>1. call.m \in DOMAIN mems /\ call' = NoCall
    BY <1>7, PerformMem DEF ActiveData, Perform
  <2> QED
    BY <1>7, <2>1, PutMemKeeps, FailsKeeps DEF ActiveData
<1>8. CASE HostMemWrite
  <2>1. call.m \in DOMAIN mems /\ call' = NoCall
    BY <1>8, PerformMem DEF HostMemWrite, Perform
  <2> QED
    BY <1>8, <2>1, PutMemKeeps, FailsKeeps DEF HostMemWrite
<1> QED
  BY <1>1, <1>2, <1>3, <1>4, <1>5, <1>6, <1>7, <1>8

LEMMA TableStepKeeps ==
  ASSUME StoreInv,
         TableGet \/ TableSet \/ HostTableWrite \/ TableFill \/ TableCopy \/ TableInit \/ DropElem \/ ActiveElem
  PROVE  StoreInv'
<1>1. CASE TableGet
  BY <1>1, KeepArrays DEF TableGet, Perform, Fails
<1>2. CASE TableSet
  <2>1. call.t \in DOMAIN tables /\ call' = NoCall
    BY <1>2, PerformTable DEF TableSet, Perform
  <2> QED
    BY <1>2, <2>1, PutTableKeeps, FailsKeeps DEF TableSet
<1>3. CASE HostTableWrite
  <2>1. call.t \in DOMAIN tables /\ call' = NoCall
    BY <1>3, PerformTable DEF HostTableWrite, Perform
  <2> QED
    BY <1>3, <2>1, PutTableKeeps, FailsKeeps DEF HostTableWrite
<1>4. CASE TableFill
  <2>1. call.t \in DOMAIN tables /\ call' = NoCall
    BY <1>4, PerformTable DEF TableFill, Perform
  <2> QED
    BY <1>4, <2>1, PutTableKeeps, FailsKeeps DEF TableFill
<1>5. CASE TableCopy
  <2>1. call.t \in DOMAIN tables /\ call' = NoCall
    BY <1>5, PerformTable DEF TableCopy, Perform
  <2>2. CASE Fails(TrapResult)
    BY <2>1, <2>2, FailsKeeps
  <2>3. CASE /\ tables' = [tables EXCEPT ![call.t].cells =
                             CopiedTable(call.t, call.f, call.d, call.s, call.n)]
             /\ UNCHANGED <<todo, mems>>
    <3>1. Sized(tables', "len", JAV_MAX_TABLE_ELEMS)
      BY <2>1, <2>3, CellsKeepSize, StoreAssumption DEF StoreInv
    <3>2. Sized(mems, "size", MaxBytes)' /\ Sized(tables, "len", JAV_MAX_TABLE_ELEMS)'
      BY <2>3, <3>1 DEF StoreInv, Sized, Bounded, MaxBytes
    <3> QED
      BY <2>1, <2>3, <3>2 DEF StoreInv, CallsInv
  <2> QED
    BY <1>5, <2>2, <2>3 DEF TableCopy
<1>6. CASE TableInit
  <2>1. call.t \in DOMAIN tables /\ call' = NoCall
    BY <1>6, PerformTable DEF TableInit, Perform
  <2> QED
    BY <1>6, <2>1, PutTableKeeps, FailsKeeps DEF TableInit
<1>7. CASE DropElem
  BY <1>7, KeepArrays DEF DropElem, Perform
<1>8. CASE ActiveElem
  <2>1. call.t \in DOMAIN tables /\ call' = NoCall
    BY <1>8, PerformTable DEF ActiveElem, Perform
  <2> QED
    BY <1>8, <2>1, PutTableKeeps, FailsKeeps DEF ActiveElem
<1> QED
  BY <1>1, <1>2, <1>3, <1>4, <1>5, <1>6, <1>7, <1>8

LEMMA StoreStep == HostGrowthSmall /\ StoreInv /\ [Next]_vars => StoreInv'
<1> SUFFICES ASSUME HostGrowthSmall, StoreInv, [Next]_vars PROVE StoreInv'
  OBVIOUS
<1>1. CASE UNCHANGED vars
  BY <1>1, KeepArrays DEF vars
<1>2. CASE Invoke
  BY <1>2, KeepArrays DEF Invoke
<1> QED
  BY <1>1, <1>2, AllocateKeeps, MemStepKeeps, MemGrowKeeps, TableStepKeeps, TableGrowKeeps DEF Next

\* Nothing that the program or the embedder does grows a memory or a table past what one
\* allocation can back (mem_grow_inst, jav_tableinst_grow, jav_mem_add, jav_table_add),
\* as long as the embedder adds to a table no more than leaves the sum a word.
THEOREM StoreWithinLimits ==
  ASSUME HostGrowthSmall
  PROVE  Spec => []WithinLimits
<1>1. StoreInv => WithinLimits
  BY DEF StoreInv, Sized, Bounded, WithinLimits, MaxBytes
<1> QED
  BY <1>1, StoreInit, StoreStep, HostGrowthSmall, PTL DEF Spec

-----------------------------------------------------------------------------
(* No access goes astray                                                   *)

LEMMA MemSize ==
  ASSUME StoreInv, NEW m \in DOMAIN mems
  PROVE  mems[m].size \in 0 .. (U8 - 1)
BY MaxBytesType, StoreAssumption DEF StoreInv, Sized, Bounded

LEMMA TableLen ==
  ASSUME StoreInv, NEW t \in DOMAIN tables
  PROVE  tables[t].len \in 0 .. (U8 - 1)
BY StoreAssumption DEF StoreInv, Sized, Bounded

\* What the guards let through.
LEMMA GuardInside ==
  ASSUME NEW len \in 0 .. (U8 - 1), NEW ea \in 0 .. (U8 - 1), NEW n \in Nat, RangeOk(len, ea, n)
  PROVE  Inside(len, ea, n)
BY RangeOkExact, InsideExact, StoreAssumption

LEMMA SegmentLength ==
  ASSUME NEW n \in 0 .. (U4 - 1), NEW len, NEW s, SegmentOk(len, s, Signed4(n))
  PROVE  Signed4(n) \in Nat
BY StoreAssumption DEF SegmentOk, Signed4

LEMMA MemStepInside ==
  ASSUME ActiveSmall, StoreInv, NoStrayAccess,
         MemLoad \/ MemStore \/ MemFill \/ MemCopy \/ MemInit \/ DropData \/ ActiveData \/ HostMemWrite
  PROVE  NoStrayAccess'
<1> USE DEF NoStrayAccess, Fails, PutMem
<1>1. CASE MemLoad \/ MemStore
  <2>1. call.m \in DOMAIN mems /\ MemOperands(call.m, call) /\ call.op \in {"load", "store"}
    BY <1>1, PerformMem DEF MemLoad, MemStore
  <2>2. EffectiveAddr \in 0 .. (U8 - 1) /\ call.n \in Nat
    <3>1. call.d + call.o \in Int /\ call.n \in Nat
      BY <2>1, StoreAssumption DEF MemOperands
    <3> QED
      BY <3>1, WordRange DEF EffectiveAddr
  <2>3. RangeOk(mems[call.m].size, EffectiveAddr, call.n) => Inside(mems[call.m].size, EffectiveAddr, call.n)
    BY <2>1, <2>2, MemSize, GuardInside
  <2> QED
    BY <1>1, <2>3 DEF MemLoad, MemStore
<1>2. CASE MemFill \/ MemCopy
  <2>1. call.m \in DOMAIN mems /\ MemOperands(call.m, call) /\ call.op \in {"memory_fill", "memory_copy"}
    BY <1>2, PerformMem DEF MemFill, MemCopy
  <2>2. call.d \in 0 .. (U8 - 1) /\ call.n \in Nat
    BY <2>1, StoreAssumption DEF MemOperands
  <2>3. RangeOk(mems[call.m].size, call.d, call.n) => Inside(mems[call.m].size, call.d, call.n)
    BY <2>1, <2>2, MemSize, GuardInside
  <2> QED
    BY <1>2, <2>3 DEF MemFill, MemCopy
<1>3. CASE MemInit
  <2> DEFINE n == Signed4(call.n)
  <2>1. call.m \in DOMAIN mems /\ MemOperands(call.m, call) /\ call.op = "memory_init"
    BY <1>3, PerformMem DEF MemInit
  <2>2. call.d \in 0 .. (U8 - 1) /\ call.n \in 0 .. (U4 - 1)
    BY <2>1 DEF MemOperands
  <2>3. ASSUME NEW len, NEW s, SegmentOk(len, s, n), RangeOk(mems[call.m].size, call.d, n)
        PROVE  Inside(mems[call.m].size, call.d, n)
    BY <2>1, <2>2, <2>3, MemSize, GuardInside, SegmentLength
  <2> QED
    BY <1>3, <2>3 DEF MemInit
<1>4. CASE DropData
  BY <1>4 DEF DropData
<1>5. CASE ActiveData
  <2> DEFINE len == DataSegs[call.x].len
  <2>1. call.m \in DOMAIN mems /\ MemOperands(call.m, call) /\ call.op = "active_data"
    BY <1>5, PerformMem DEF ActiveData
  <2>2. call.d \in Nat /\ len \in Nat /\ call.d + len < U8
    <3>1. call.x \in DOMAIN DataSegs /\ call.d \in ActiveAt
      BY <2>1 DEF MemOperands
    <3>2. call.d \in Nat
      <4>1. U8 \in Nat /\ call.d \in 0 .. (U8 - 1)
        BY <3>1, StoreAssumption
      <4> QED
        BY <4>1
    <3> QED
      BY <3>1, <3>2, StoreAssumption DEF ActiveSmall
  <2>3. RangeOkSum(mems[call.m].size, call.d, len) => Inside(mems[call.m].size, call.d, len)
    <3>1. mems[call.m].size \in 0 .. (U8 - 1)
      BY <2>1, MemSize
    <3> QED
      BY <2>2, <3>1, RangeOkSumExact, InsideExact
  <2> QED
    BY <1>5, <2>3 DEF ActiveData
<1>6. CASE HostMemWrite
  <2>1. call.m \in DOMAIN mems /\ MemOperands(call.m, call) /\ call.op = "wasm_memory_write"
    BY <1>6, PerformMem DEF HostMemWrite
  <2>2. call.d \in Nat /\ mems[call.m].size \in Nat
    BY <2>1, MemSize, StoreAssumption DEF MemOperands
  <2>3. call.d < mems[call.m].size => Inside(mems[call.m].size, call.d, 1)
    BY <2>2 DEF Inside
  <2> QED
    BY <1>6, <2>3 DEF HostMemWrite
<1> QED
  BY <1>1, <1>2, <1>3, <1>4, <1>5, <1>6

LEMMA TableStepInside ==
  ASSUME StoreInv, NoStrayAccess,
         TableGet \/ TableSet \/ HostTableWrite \/ TableFill \/ TableCopy \/ TableInit \/ DropElem \/ ActiveElem
  PROVE  NoStrayAccess'
<1> USE DEF NoStrayAccess, Fails, PutTable
<1>1. CASE TableGet \/ DropElem
  BY <1>1 DEF TableGet, DropElem
<1>2. CASE TableSet \/ HostTableWrite
  <2>1. call.t \in DOMAIN tables /\ TableOperands(call.t, call) /\ call.op \in {"table_set", "wasm_table_set"}
    BY <1>2, PerformTable DEF TableSet, HostTableWrite
  <2>2. call.d \in Nat /\ tables[call.t].len \in Nat
    BY <2>1, TableLen, StoreAssumption DEF TableOperands
  <2>3. call.d < tables[call.t].len => Inside(tables[call.t].len, call.d, 1)
    BY <2>2 DEF Inside
  <2> QED
    BY <1>2, <2>3 DEF TableSet, HostTableWrite
<1>3. CASE TableFill \/ TableCopy
  <2>1. call.t \in DOMAIN tables /\ TableOperands(call.t, call) /\ call.op \in {"table_fill", "table_copy"}
    BY <1>3, PerformTable DEF TableFill, TableCopy
  <2>2. call.d \in 0 .. (U8 - 1) /\ call.n \in Nat
    BY <2>1, StoreAssumption DEF TableOperands
  <2>3. RangeOk(tables[call.t].len, call.d, call.n) => Inside(tables[call.t].len, call.d, call.n)
    BY <2>1, <2>2, TableLen, GuardInside
  <2> QED
    BY <1>3, <2>3 DEF TableFill, TableCopy
<1>4. CASE TableInit
  <2> DEFINE n == Signed4(call.n)
  <2>1. call.t \in DOMAIN tables /\ TableOperands(call.t, call) /\ call.op = "table_init"
    BY <1>4, PerformTable DEF TableInit
  <2>2. call.d \in 0 .. (U8 - 1) /\ call.n \in 0 .. (U4 - 1)
    BY <2>1 DEF TableOperands
  <2>3. ASSUME NEW len, NEW s, SegmentOk(len, s, n), RangeOk(tables[call.t].len, call.d, n)
        PROVE  Inside(tables[call.t].len, call.d, n)
    BY <2>1, <2>2, <2>3, TableLen, GuardInside, SegmentLength
  <2> QED
    BY <1>4, <2>3 DEF TableInit
<1>5. CASE ActiveElem
  <2>1. call.t \in DOMAIN tables /\ TableOperands(call.t, call) /\ call.op = "active_elem"
    BY <1>5, PerformTable DEF ActiveElem
  <2>2. call.d \in 0 .. (U8 - 1) /\ ElemSegs[call.x].len \in Nat
    BY <2>1, StoreAssumption DEF TableOperands
  <2>3. RangeOk(tables[call.t].len, call.d, ElemSegs[call.x].len)
          => Inside(tables[call.t].len, call.d, ElemSegs[call.x].len)
    BY <2>1, <2>2, TableLen, GuardInside
  <2> QED
    BY <1>5, <2>3 DEF ActiveElem
<1> QED
  BY <1>1, <1>2, <1>3, <1>4, <1>5

LEMMA StrayStep == ActiveSmall /\ StoreInv /\ NoStrayAccess /\ [Next]_vars => NoStrayAccess'
<1> SUFFICES ASSUME ActiveSmall, StoreInv, NoStrayAccess, [Next]_vars PROVE NoStrayAccess'
  OBVIOUS
<1>1. CASE UNCHANGED vars \/ Invoke \/ Allocate \/ MemGrow \/ TableGrow
  BY <1>1 DEF vars, Invoke, Allocate, MemGrow, TableGrow, Fails, NoStrayAccess
<1> QED
  BY <1>1, MemStepInside, TableStepInside DEF Next

\* No operation that its guard lets through touches a cell outside its array, for words,
\* memories and tables of any size: the guard by subtraction (mem_ok) is exact where a
\* sum would wrap.  The one guard that is a sum, of active data segments, needs them to be
\* placed where the sum is a word.
THEOREM StoreNoStrayAccess ==
  ASSUME HostGrowthSmall, ActiveSmall
  PROVE  Spec => []NoStrayAccess
BY StoreInit, StoreStep, StrayStep, HostGrowthSmall, ActiveSmall, PTL DEF Spec

-----------------------------------------------------------------------------
(* What the arrays hold                                                    *)

\* A memory is a whole number of pages of bytes, as many as its size says.
WholePages(size) == \E p \in 0 .. JAV_MAX_MEMORY_PAGES : size = p * PageSize
ByteArray == UNION {[0 .. (n - 1) -> Byte] : n \in Nat}
MemShape ==
  {m \in [size : Nat, cells : ByteArray, has_max : BOOLEAN, max : Nat, is64 : BOOLEAN] :
     m.cells \in [0 .. (m.size - 1) -> Byte] /\ WholePages(m.size)}

\* A table has as many slots as its length says, each a reference with its tag.
Slot == {c \in [ref : Ref, kind : {"T_REF", "T_GCREF"}] : c.kind = Cell(c.ref).kind}
SlotArray == UNION {[0 .. (n - 1) -> Slot] : n \in Nat}
TableShape ==
  {t \in [len : Nat, cells : SlotArray, has_max : BOOLEAN, max : Nat, is64 : BOOLEAN] :
     t.cells \in [0 .. (t.len - 1) -> Slot]}

ContentsInv ==
  /\ todo \in Seq(ObjType)
  /\ mems \in Seq(MemShape) /\ tables \in Seq(TableShape)
  /\ CallsInv

LEMMA MemParts ==
  ASSUME NEW m \in MemShape
  PROVE  /\ m.size \in Nat /\ m.cells \in [0 .. (m.size - 1) -> Byte] /\ m.has_max \in BOOLEAN
         /\ m.max \in Nat /\ m.is64 \in BOOLEAN /\ WholePages(m.size)
         /\ DOMAIN m = {"size", "cells", "has_max", "max", "is64"}
BY DEF MemShape

LEMMA TableParts ==
  ASSUME NEW t \in TableShape
  PROVE  /\ t.len \in Nat /\ t.cells \in [0 .. (t.len - 1) -> Slot] /\ t.has_max \in BOOLEAN
         /\ t.max \in Nat /\ t.is64 \in BOOLEAN
         /\ DOMAIN t = {"len", "cells", "has_max", "max", "is64"}
BY DEF TableShape

LEMMA MemOf ==
  ASSUME NEW size \in Nat, NEW cells \in [0 .. (size - 1) -> Byte], NEW has_max \in BOOLEAN,
         NEW max \in Nat, NEW is64 \in BOOLEAN, WholePages(size)
  PROVE  [size |-> size, cells |-> cells, has_max |-> has_max, max |-> max, is64 |-> is64] \in MemShape
<1>1. cells \in ByteArray
  BY DEF ByteArray
<1> QED
  BY <1>1 DEF MemShape

LEMMA TableOf ==
  ASSUME NEW len \in Nat, NEW cells \in [0 .. (len - 1) -> Slot], NEW has_max \in BOOLEAN,
         NEW max \in Nat, NEW is64 \in BOOLEAN
  PROVE  [len |-> len, cells |-> cells, has_max |-> has_max, max |-> max, is64 |-> is64] \in TableShape
<1>1. cells \in SlotArray
  BY DEF SlotArray
<1> QED
  BY <1>1 DEF TableShape

LEMMA MemWritten ==
  ASSUME NEW m \in MemShape, NEW g \in [0 .. (m.size - 1) -> Byte]
  PROVE  [m EXCEPT !.cells = g] \in MemShape
<1>1. g \in ByteArray
  BY MemParts DEF ByteArray
<1>2. m \in [size : Nat, cells : ByteArray, has_max : BOOLEAN, max : Nat, is64 : BOOLEAN] /\ WholePages(m.size)
  BY DEF MemShape
<1> HIDE DEF ByteArray, WholePages
<1>3. [m EXCEPT !.cells = g] \in [size : Nat, cells : ByteArray, has_max : BOOLEAN, max : Nat, is64 : BOOLEAN]
  BY <1>1, <1>2
<1>4. [m EXCEPT !.cells = g].size = m.size /\ [m EXCEPT !.cells = g].cells = g
  BY <1>2
<1> QED
  BY <1>2, <1>3, <1>4 DEF MemShape

LEMMA TableWritten ==
  ASSUME NEW t \in TableShape, NEW g \in [0 .. (t.len - 1) -> Slot]
  PROVE  [t EXCEPT !.cells = g] \in TableShape
<1>1. g \in SlotArray
  BY TableParts DEF SlotArray
<1>2. t \in [len : Nat, cells : SlotArray, has_max : BOOLEAN, max : Nat, is64 : BOOLEAN]
  BY DEF TableShape
<1>3. [t EXCEPT !.cells = g] \in [len : Nat, cells : SlotArray, has_max : BOOLEAN, max : Nat, is64 : BOOLEAN]
  BY <1>1, <1>2
<1>4. [t EXCEPT !.cells = g].len = t.len /\ [t EXCEPT !.cells = g].cells = g
  BY <1>2
<1> QED
  BY <1>3, <1>4 DEF TableShape

\* Writing into an array, and appending to it.
LEMMA PutTyped ==
  ASSUME NEW S, NEW len \in Nat, NEW cells \in [0 .. (len - 1) -> S], NEW d \in Nat, NEW n \in Nat,
         NEW g, \A k \in 0 .. (n - 1) : g[k] \in S
  PROVE  Put(cells, d, n, g) \in [0 .. (len - 1) -> S]
<1>1. ASSUME NEW k \in 0 .. (len - 1), d <= k, k < d + n PROVE g[k - d] \in S
  BY <1>1
<1> QED
  BY <1>1 DEF Put

LEMMA ExtendedTyped ==
  ASSUME NEW S, NEW len \in Nat, NEW cells \in [0 .. (len - 1) -> S], NEW n \in Nat, NEW v \in S
  PROVE  Extended(cells, len, n, v) \in [0 .. (len + n - 1) -> S]
<1>1. ASSUME NEW k \in 0 .. (len + n - 1), k < len PROVE cells[k] \in S
  BY <1>1
<1> QED
  BY <1>1 DEF Extended

LEMMA ArrayTyped ==
  ASSUME NEW S, NEW n \in Nat, NEW v \in S
  PROVE  /\ Array(n, v) \in [0 .. (n - 1) -> S]
         /\ \A k \in 0 .. (n - 1) : Array(n, v)[k] = v
BY DEF Array

LEMMA CellIsSlot ==
  ASSUME NEW v \in Ref
  PROVE  Cell(v) \in Slot /\ Cell(v).ref = v
BY DEF Cell, Slot

\* A sequence with one element more, or one replaced.
LEMMA AppendShape ==
  ASSUME NEW S, NEW q \in Seq(S), NEW e \in S
  PROVE  Append(q, e) \in Seq(S)
OBVIOUS

LEMMA ExceptShape ==
  ASSUME NEW S, NEW q \in Seq(S), NEW i \in DOMAIN q, NEW e \in S
  PROVE  [q EXCEPT ![i] = e] \in Seq(S) /\ q[i] \in S
<1>1. i \in 1 .. Len(q)
  BY LenProperties
<1> QED
  BY <1>1, ExceptSeq, ElementOfSeq

-----------------------------------------------------------------------------
(* Every step keeps the contents                                           *)

\* A step that changes no array.
LEMMA KeepContents ==
  ASSUME ContentsInv, todo' = todo, mems' = mems, tables' = tables,
         call' = NoCall \/ call' = call \/ call' \in Calls
  PROVE  ContentsInv'
<1>1. Calls' = Calls
  BY DEF Calls, MemCallsOn, MemCopies, MemWord, TableCallsOn, TableCopies, TableWord, AddrWord
<1>2. CallsInv'
  BY <1>1 DEF CallsInv, ContentsInv
<1> QED
  BY <1>2 DEF ContentsInv

LEMMA FailsKeepsContents ==
  ASSUME ContentsInv, call' = NoCall, NEW a, Fails(a)
  PROVE  ContentsInv'
BY KeepContents DEF Fails

LEMMA PutMemKeepsContents ==
  ASSUME ContentsInv, call.m \in DOMAIN mems, call' = NoCall, NEW d \in Nat, NEW n \in Nat,
         NEW g, \A k \in 0 .. (n - 1) : g[k] \in Byte, PutMem(d, n, g)
  PROVE  ContentsInv'
<1> DEFINE m == mems[call.m]
           h == Put(m.cells, d, n, g)
<1>1. m \in MemShape
  BY ExceptShape DEF ContentsInv
<1>2. h \in [0 .. (m.size - 1) -> Byte]
  <2>1. m.size \in Nat /\ m.cells \in [0 .. (m.size - 1) -> Byte]
    BY <1>1, MemParts
  <2> HIDE DEF m
  <2> QED
    BY <2>1, PutTyped
<1>3. mems' = [mems EXCEPT ![call.m] = [m EXCEPT !.cells = h]]
  BY DEF PutMem
<1> HIDE DEF m, h
<1>4. [m EXCEPT !.cells = h] \in MemShape
  BY <1>1, <1>2, MemWritten
<1>5. mems' \in Seq(MemShape)
  BY <1>3, <1>4, ExceptShape DEF ContentsInv
<1> QED
  BY <1>5 DEF ContentsInv, CallsInv, PutMem

LEMMA TableCellsKeepContents ==
  ASSUME ContentsInv, call.t \in DOMAIN tables, call' = NoCall, UNCHANGED <<todo, mems>>,
         NEW h \in [0 .. (tables[call.t].len - 1) -> Slot],
         tables' = [tables EXCEPT ![call.t].cells = h]
  PROVE  ContentsInv'
<1> DEFINE t == tables[call.t]
<1>1. t \in TableShape
  BY ExceptShape DEF ContentsInv
<1>2. tables' = [tables EXCEPT ![call.t] = [t EXCEPT !.cells = h]]
  OBVIOUS
<1>3. h \in [0 .. (t.len - 1) -> Slot]
  OBVIOUS
<1> HIDE DEF t
<1>4. [t EXCEPT !.cells = h] \in TableShape
  BY <1>1, <1>3, TableWritten
<1>5. tables' \in Seq(TableShape)
  BY <1>2, <1>4, ExceptShape DEF ContentsInv
<1> QED
  BY <1>5 DEF ContentsInv, CallsInv

LEMMA PutTableKeepsContents ==
  ASSUME ContentsInv, call.t \in DOMAIN tables, call' = NoCall, NEW d \in Nat, NEW n \in Nat,
         NEW g, \A k \in 0 .. (n - 1) : g[k] \in Slot, PutTable(d, n, g)
  PROVE  ContentsInv'
<1> DEFINE t == tables[call.t]
           h == Put(t.cells, d, n, g)
<1>1. t \in TableShape
  BY ExceptShape DEF ContentsInv
<1>2. h \in [0 .. (t.len - 1) -> Slot]
  <2>1. t.len \in Nat /\ t.cells \in [0 .. (t.len - 1) -> Slot]
    BY <1>1, TableParts
  <2> HIDE DEF t
  <2> QED
    BY <2>1, PutTyped
<1>3. tables' = [tables EXCEPT ![call.t].cells = h]
  BY DEF PutTable
<1>4. h \in [0 .. (tables[call.t].len - 1) -> Slot]
  BY <1>2
<1> HIDE DEF t, h
<1> QED
  BY <1>3, <1>4, TableCellsKeepContents DEF PutTable

LEMMA BlockTyped ==
  ASSUME NEW len \in Nat, NEW cells \in [0 .. (len - 1) -> Byte], NEW s \in Nat, NEW n \in Nat
  PROVE  \A k \in 0 .. (n - 1) : Block(cells, s, n)[k] \in Byte
BY StoreAssumption DEF Block, At

LEMMA SegmentInside ==
  ASSUME NEW segs, NEW dropped, NEW x, segs[x].len \in Nat, NEW s, NEW n,
         s \in Int, n \in Int, SegmentOk(SegLen(segs, dropped, x), s, n)
  PROVE  s \in Nat /\ n \in Nat /\ s + n <= segs[x].len
BY DEF SegmentOk, SegLen

LEMMA Signed4Type ==
  ASSUME NEW x \in 0 .. (U4 - 1)
  PROVE  Signed4(x) \in Int /\ (Signed4(x) >= 0 => Signed4(x) = x)
BY StoreAssumption DEF Signed4

LEMMA MemsKeepContents ==
  ASSUME ContentsInv,
         MemLoad \/ MemStore \/ MemFill \/ MemCopy \/ MemInit \/ DropData \/ ActiveData \/ HostMemWrite
  PROVE  ContentsInv'
<1>0. CallsInv
  BY DEF ContentsInv
<1>1. CASE MemLoad
  BY <1>1, KeepContents DEF MemLoad, Perform, Fails
<1>2. CASE MemStore
  <2>1. call.m \in DOMAIN mems /\ call' = NoCall /\ MemOperands(call.m, call) /\ call.op = "store"
    BY <1>0, <1>2, MemCallUnderWay DEF MemStore, Perform
  <2>2. EffectiveAddr \in Nat /\ call.n \in Nat /\ call.v \in Byte
    <3>1. call.d + call.o \in Int /\ call.n \in Nat /\ call.v \in Byte
      BY <2>1, StoreAssumption DEF MemOperands
    <3> QED
      BY <3>1, WordRange, StoreAssumption DEF EffectiveAddr
  <2> DEFINE g == Array(call.n, call.v)
  <2>3. \A k \in 0 .. (call.n - 1) : g[k] \in Byte
    BY <2>2, ArrayTyped
  <2> HIDE DEF g
  <2>4. CASE Fails(TrapResult)
    BY <2>1, <2>4, FailsKeepsContents
  <2>5. CASE PutMem(EffectiveAddr, call.n, g)
    BY <2>1, <2>2, <2>3, <2>5, PutMemKeepsContents
  <2> QED
    BY <1>2, <2>4, <2>5 DEF MemStore, g
<1>3. CASE MemFill
  <2>1. call.m \in DOMAIN mems /\ call' = NoCall /\ MemOperands(call.m, call) /\ call.op = "memory_fill"
    BY <1>0, <1>3, MemCallUnderWay DEF MemFill, Perform
  <2>2. call.d \in Nat /\ call.n \in Nat /\ call.v \in Byte
    BY <2>1, StoreAssumption DEF MemOperands
  <2> DEFINE g == Array(call.n, call.v)
  <2>3. \A k \in 0 .. (call.n - 1) : g[k] \in Byte
    BY <2>2, ArrayTyped
  <2> HIDE DEF g
  <2>4. CASE Fails(TrapResult)
    BY <2>1, <2>4, FailsKeepsContents
  <2>5. CASE PutMem(call.d, call.n, g)
    BY <2>1, <2>2, <2>3, <2>5, PutMemKeepsContents
  <2> QED
    BY <1>3, <2>4, <2>5 DEF MemFill, g
<1>4. CASE MemCopy
  <2>1. call.m \in DOMAIN mems /\ call' = NoCall /\ MemOperands(call.m, call) /\ call.op = "memory_copy"
    BY <1>0, <1>4, MemCallUnderWay DEF MemCopy, Perform
  <2>2. call.d \in Nat /\ call.n \in Nat /\ call.s \in Nat /\ call.f \in DOMAIN mems
    BY <2>1, StoreAssumption DEF MemOperands
  <2> DEFINE f == mems[call.f]
  <2>3. f.size \in Nat /\ f.cells \in [0 .. (f.size - 1) -> Byte]
    <3>1. f \in MemShape
      BY <2>2, ExceptShape DEF ContentsInv
    <3> HIDE DEF f
    <3> QED
      BY <3>1, MemParts
  <2> HIDE DEF f
  <2>4. \A k \in 0 .. (call.n - 1) : Block(f.cells, call.s, call.n)[k] \in Byte
    BY <2>2, <2>3, BlockTyped
  <2> QED
    BY <1>4, <2>1, <2>2, <2>4, PutMemKeepsContents, FailsKeepsContents DEF MemCopy, f
<1>5. CASE MemInit
  <2> DEFINE s == Signed4(call.s)
             n == Signed4(call.n)
             seg == DataSegs[call.x]
  <2>1. call.m \in DOMAIN mems /\ call' = NoCall /\ MemOperands(call.m, call) /\ call.op = "memory_init"
    BY <1>0, <1>5, MemCallUnderWay DEF MemInit, Perform
  <2>2. call.d \in Nat /\ s \in Int /\ n \in Int
        /\ seg.len \in Nat /\ seg.cells \in [0 .. (seg.len - 1) -> Byte]
    <3>1. call.d \in 0 .. (U8 - 1) /\ call.x \in DOMAIN DataSegs
          /\ call.s \in 0 .. (U4 - 1) /\ call.n \in 0 .. (U4 - 1)
      BY <2>1 DEF MemOperands
    <3>2. s \in Int /\ n \in Int
      BY <3>1, Signed4Type
    <3> QED
      BY <3>1, <3>2, StoreAssumption
  <2>3. CASE Fails(TrapResult)
    BY <2>1, <2>3, FailsKeepsContents
  <2>4. CASE /\ SegmentOk(SegLen(DataSegs, data_dropped, call.x), s, n)
             /\ PutMem(call.d, n, Block(seg.cells, s, n))
    <3>1. s \in Nat /\ n \in Nat
      BY <2>2, <2>4, SegmentInside
    <3> HIDE DEF s, n, seg
    <3>2. \A k \in 0 .. (n - 1) : Block(seg.cells, s, n)[k] \in Byte
      BY <2>2, <3>1, BlockTyped
    <3> QED
      BY <2>1, <2>2, <2>4, <3>1, <3>2, PutMemKeepsContents
  <2> QED
    BY <1>5, <2>3, <2>4 DEF MemInit
<1>6. CASE DropData
  BY <1>6, KeepContents DEF DropData, Perform
<1>7. CASE ActiveData
  <2> DEFINE seg == DataSegs[call.x]
  <2>1. call.m \in DOMAIN mems /\ call' = NoCall /\ MemOperands(call.m, call) /\ call.op = "active_data"
    BY <1>0, <1>7, MemCallUnderWay DEF ActiveData, Perform
  <2>2. call.d \in Nat /\ seg.len \in Nat /\ seg.cells \in [0 .. (seg.len - 1) -> Byte]
    <3>1. call.d \in 0 .. (U8 - 1)
      BY <2>1, StoreAssumption DEF MemOperands
    <3> QED
      BY <2>1, <3>1, StoreAssumption DEF MemOperands
  <2>3. CASE Fails(TrapResult)
    BY <2>1, <2>3, FailsKeepsContents
  <2>4. CASE PutMem(call.d, seg.len, seg.cells)
    BY <2>1, <2>2, <2>4, PutMemKeepsContents
  <2> QED
    BY <1>7, <2>3, <2>4 DEF ActiveData
<1>8. CASE HostMemWrite
  <2>1. call.m \in DOMAIN mems /\ call' = NoCall /\ MemOperands(call.m, call) /\ call.op = "wasm_memory_write"
    BY <1>0, <1>8, MemCallUnderWay DEF HostMemWrite, Perform
  <2>2. call.d \in Nat /\ 1 \in Nat /\ call.v \in Byte
    BY <2>1, StoreAssumption DEF MemOperands
  <2> DEFINE g == Array(1, call.v)
  <2>3. \A k \in 0 .. (1 - 1) : g[k] \in Byte
    BY <2>2, ArrayTyped
  <2> HIDE DEF g
  <2>4. CASE Fails(Refused)
    BY <2>1, <2>4, FailsKeepsContents
  <2>5. CASE PutMem(call.d, 1, g)
    BY <2>1, <2>2, <2>3, <2>5, PutMemKeepsContents
  <2> QED
    BY <1>8, <2>4, <2>5 DEF HostMemWrite, g
<1> QED
  BY <1>1, <1>2, <1>3, <1>4, <1>5, <1>6, <1>7, <1>8

-----------------------------------------------------------------------------
(* Copying between tables                                                  *)

\* A set of natural numbers has a least element.
LEMMA LeastNumber ==
  ASSUME NEW S \in SUBSET Nat, S # {}
  PROVE  \E m \in S : \A k \in S : m <= k
<1>1. IsWellFoundedOn(OpToRel(<, Nat), Nat)
  BY NatLessThanWellFounded
<1>2. PICK m \in S : \A k \in S : <<k, m>> \notin OpToRel(<, Nat)
  BY <1>1, WFMin
<1>3. \A k \in S : ~ (k < m)
  BY <1>2 DEF OpToRel
<1> QED
  BY <1>3

\* What the j-th slot's move makes of the target.
OneMoved(cells, t, f, to, from) ==
  [cells EXCEPT ![to] = At(IF t = f THEN cells ELSE tables[f].cells, from, Cell(Null))]

\* table.copy's loop, slot by slot: the target before it, after one slot, ..., after all.
Stages(t, f, d, s, n, at) ==
  CHOOSE g : g = [j \in 0 .. n |->
                    IF j = 0 THEN tables[t].cells
                    ELSE [g[j - 1] EXCEPT ![d + at[j]] =
                            At(IF t = f THEN g[j - 1] ELSE tables[f].cells, s + at[j], Cell(Null))]]

\* table.copy's loop, slot by slot.
LEMMA MovedUnfolds ==
  ASSUME NEW t, NEW f, NEW d, NEW s, NEW n \in Nat, NEW at
  PROVE  /\ Stages(t, f, d, s, n, at)[0] = tables[t].cells
         /\ \A j \in 1 .. n : Stages(t, f, d, s, n, at)[j] =
                              OneMoved(Stages(t, f, d, s, n, at)[j - 1], t, f, d + at[j], s + at[j])
         /\ Moved(t, f, d, s, n, at) = Stages(t, f, d, s, n, at)[n]
<1> DEFINE Next1(cells, j) == OneMoved(cells, t, f, d + at[j], s + at[j])
           Step(g, j) == IF j = 0 THEN tables[t].cells ELSE Next1(g[j - 1], j)
           Holds(g, m) == g = [j \in 0 .. m |-> Step(g, j)]
           bad == {m \in 0 .. n : ~ \E g : Holds(g, m)}
<1> HIDE DEF Next1
<1>2. ASSUME NEW m \in bad, \A k \in bad : m <= k
      PROVE  FALSE
  <2>1. m \in 0 .. n /\ m \in Nat
    OBVIOUS
  <2>2. m # 0
    <3>1. SUFFICES ASSUME m = 0 PROVE \E g : Holds(g, m)
      OBVIOUS
    <3>2. \A k \in 0 .. m : k = 0
      BY <3>1
    <3>3. Holds([k \in 0 .. m |-> tables[t].cells], m)
      BY <3>2
    <3> QED
      BY <3>3
  <2>3. m - 1 \in 0 .. n /\ m - 1 \in Nat
    BY <2>1, <2>2
  <2>4. m - 1 \notin bad
    <3> HIDE DEF bad
    <3> QED
      BY <1>2, <2>1
  <2>5. PICK g : Holds(g, m - 1)
    BY <2>3, <2>4
  <2> DEFINE h == [k \in 0 .. m |-> IF k = m THEN Step(g, m) ELSE g[k]]
  <2>6. \A k \in 0 .. m - 1 : h[k] = g[k]
    BY <2>1
  <2>7. ASSUME NEW k \in 0 .. m
        PROVE  Step(h, k) = Step(g, k) /\ h[k] = Step(g, k)
    <3>1. k # 0 => k - 1 \in 0 .. m - 1
      BY <2>1
    <3>2. Step(h, k) = Step(g, k)
      <4> HIDE DEF h
      <4> QED
        BY <2>6, <3>1
    <3>3. k # m => g[k] = Step(g, k)
      <4>1. k # m => k \in 0 .. m - 1
        BY <2>1
      <4> QED
        BY <2>5, <4>1
    <3>4. h[k] = Step(g, k)
      <4> HIDE DEF Step
      <4> QED
        BY <3>3
    <3> QED
      BY <3>2, <3>4
  <2>8. Holds(h, m)
    <3>1. h = [k \in 0 .. m |-> h[k]]
      OBVIOUS
    <3> HIDE DEF h, Step
    <3> QED
      BY <2>7, <3>1
  <2> QED
    BY <2>8
<1>3. bad = {}
  <2>1. bad \in SUBSET Nat
    OBVIOUS
  <2> HIDE DEF bad
  <2> QED
    BY <1>2, <2>1, LeastNumber
<1>4. \E g : g = [j \in 0 .. n |->
                    IF j = 0 THEN tables[t].cells
                    ELSE [g[j - 1] EXCEPT ![d + at[j]] =
                            At(IF t = f THEN g[j - 1] ELSE tables[f].cells, s + at[j], Cell(Null))]]
  <2>1. \E g : Holds(g, n)
    BY <1>3
  <2> QED
    BY <2>1 DEF Next1, OneMoved
<1> HIDE DEF bad, Holds, Step
<1> DEFINE M == Stages(t, f, d, s, n, at)
<1>5. M = [j \in 0 .. n |->
             IF j = 0 THEN tables[t].cells
             ELSE [M[j - 1] EXCEPT ![d + at[j]] =
                     At(IF t = f THEN M[j - 1] ELSE tables[f].cells, s + at[j], Cell(Null))]]
  BY <1>4, Zenon DEF Stages
<1>6. Moved(t, f, d, s, n, at) = M[n]
  BY DEF Moved, Stages
<1> HIDE DEF M
<1>7. \A j \in 0 .. n : M[j] = IF j = 0 THEN tables[t].cells ELSE Next1(M[j - 1], j)
  BY <1>5 DEF Next1, OneMoved
<1>8. M[0] = tables[t].cells /\ \A j \in 1 .. n : M[j] = Next1(M[j - 1], j)
  <2>1. 0 \in 0 .. n /\ \A j \in 1 .. n : j \in 0 .. n /\ j # 0
    OBVIOUS
  <2> QED
    BY <1>7, <2>1
<1>9. \A j \in 1 .. n : M[j] = OneMoved(M[j - 1], t, f, d + at[j], s + at[j])
  BY <1>8 DEF Next1
<1>10. M[0] = tables[t].cells
  BY <1>8
<1> QED
  BY <1>6, <1>9, <1>10 DEF M

LEMMA StagesFirst ==
  ASSUME NEW t, NEW f, NEW d, NEW s, NEW n \in Nat, NEW at
  PROVE  Stages(t, f, d, s, n, at)[0] = tables[t].cells
BY MovedUnfolds

LEMMA StagesNext ==
  ASSUME NEW t, NEW f, NEW d, NEW s, NEW n \in Nat, NEW at, NEW j \in 1 .. n
  PROVE  Stages(t, f, d, s, n, at)[j] =
           OneMoved(Stages(t, f, d, s, n, at)[j - 1], t, f, d + at[j], s + at[j])
BY MovedUnfolds

LEMMA StagesLast ==
  ASSUME NEW t, NEW f, NEW d, NEW s, NEW n \in Nat, NEW at
  PROVE  Moved(t, f, d, s, n, at) = Stages(t, f, d, s, n, at)[n]
BY MovedUnfolds

\* Whatever is moved where, slots are written with slots.
LEMMA MovedTyped ==
  ASSUME ContentsInv, NEW t \in DOMAIN tables, NEW f \in DOMAIN tables, NEW d, NEW s, NEW n \in Nat, NEW at
  PROVE  Moved(t, f, d, s, n, at) \in [0 .. (tables[t].len - 1) -> Slot]
<1> DEFINE S == [0 .. (tables[t].len - 1) -> Slot]
<1> DEFINE M == Stages(t, f, d, s, n, at)
<1>1. /\ M[0] = tables[t].cells
      /\ \A j \in 1 .. n : M[j] = OneMoved(M[j - 1], t, f, d + at[j], s + at[j])
      /\ Moved(t, f, d, s, n, at) = M[n]
  <2>1. M[0] = tables[t].cells
    BY StagesFirst
  <2>2. \A j \in 1 .. n : M[j] = OneMoved(M[j - 1], t, f, d + at[j], s + at[j])
    BY StagesNext
  <2>3. Moved(t, f, d, s, n, at) = M[n]
    BY StagesLast
  <2> QED
    BY <2>1, <2>2, <2>3
<1> HIDE DEF M
<1>2. tables[t] \in TableShape /\ tables[f] \in TableShape
  BY ExceptShape DEF ContentsInv
<1>3. tables[t].cells \in S /\ tables[f].cells \in [0 .. (tables[f].len - 1) -> Slot]
  BY <1>2, TableParts
<1>4. Cell(Null) \in Slot
  BY CellIsSlot, StoreAssumption
<1>5. ASSUME NEW cells \in S, NEW to, NEW from
      PROVE  OneMoved(cells, t, f, to, from) \in S
  <2> DEFINE source == IF t = f THEN cells ELSE tables[f].cells
             x == At(source, from, Cell(Null))
  <2>1. \A i \in DOMAIN source : source[i] \in Slot
    BY <1>3
  <2>2. x \in Slot
    <3> HIDE DEF source
    <3> QED
      BY <1>4, <2>1 DEF At
  <2> HIDE DEF x
  <2>3. [cells EXCEPT ![to] = x] \in S
    BY <2>2
  <2> QED
    BY <2>3 DEF OneMoved, x
<1> DEFINE bad == {j \in 0 .. n : M[j] \notin S}
<1> HIDE DEF S
<1>6. ASSUME NEW m \in bad, \A k \in bad : m <= k
      PROVE  FALSE
  <2>1. m \in 1 .. n
    BY <1>1, <1>3
  <2>2. m - 1 \in 0 .. n /\ m - 1 \notin bad
    <3>1. m - 1 \in 0 .. n /\ ~ (m <= m - 1)
      BY <2>1
    <3> HIDE DEF bad
    <3> QED
      BY <1>6, <3>1
  <2>3. M[m - 1] \in S
    BY <2>2
  <2> QED
    BY <1>1, <1>5, <2>1, <2>3
<1>7. bad = {}
  <2>1. bad \in SUBSET Nat
    OBVIOUS
  <2> HIDE DEF bad
  <2> QED
    BY <1>6, <2>1, LeastNumber
<1>8. M[n] \in S
  <2>1. n \in 0 .. n
    OBVIOUS
  <2> QED
    BY <1>7, <2>1
<1> QED
  BY <1>1, <1>8 DEF S

\* The items of a segment are slots.
LEMMA ItemsTyped ==
  ASSUME NEW x \in DOMAIN ElemSegs, NEW s \in Nat, NEW n \in Nat, s + n <= ElemSegs[x].len
  PROVE  \A k \in 0 .. (n - 1) : Items(x, s, n)[k] \in Slot
<1>1. ElemSegs[x].len \in Nat /\ ElemSegs[x].cells \in [0 .. (ElemSegs[x].len - 1) -> Ref]
  BY StoreAssumption
<1>2. ASSUME NEW k \in 0 .. (n - 1)
      PROVE  Cell(ElemSegs[x].cells[s + k]) \in Slot
  <2>1. s + k \in 0 .. (ElemSegs[x].len - 1)
    BY <1>1
  <2>2. ElemSegs[x].cells[s + k] \in Ref
    BY <1>1, <2>1
  <2> QED
    BY <2>2, CellIsSlot
<1> QED
  BY <1>2 DEF Items

LEMMA TablesKeepContents ==
  ASSUME ContentsInv,
         TableGet \/ TableSet \/ HostTableWrite \/ TableFill \/ TableCopy \/ TableInit \/ DropElem \/ ActiveElem
  PROVE  ContentsInv'
<1>0. CallsInv
  BY DEF ContentsInv
<1>1. CASE TableGet
  BY <1>1, KeepContents DEF TableGet, Perform, Fails
<1>2. CASE TableSet \/ HostTableWrite
  <2>1. call.t \in DOMAIN tables /\ call' = NoCall /\ TableOperands(call.t, call)
        /\ call.op \in {"table_set", "wasm_table_set"}
    BY <1>0, <1>2, TableCallUnderWay DEF TableSet, HostTableWrite, Perform
  <2>2. call.d \in Nat /\ 1 \in Nat /\ Cell(call.v) \in Slot
    BY <2>1, CellIsSlot, StoreAssumption DEF TableOperands
  <2> DEFINE g == Array(1, Cell(call.v))
  <2>3. \A k \in 0 .. (1 - 1) : g[k] \in Slot
    BY <2>2, ArrayTyped
  <2> HIDE DEF g
  <2>4. CASE \E a : Fails(a)
    BY <2>1, <2>4, FailsKeepsContents
  <2>5. CASE PutTable(call.d, 1, g)
    BY <2>1, <2>2, <2>3, <2>5, PutTableKeepsContents
  <2> QED
    BY <1>2, <2>4, <2>5 DEF TableSet, HostTableWrite, g
<1>3. CASE TableFill
  <2>1. call.t \in DOMAIN tables /\ call' = NoCall /\ TableOperands(call.t, call) /\ call.op = "table_fill"
    BY <1>0, <1>3, TableCallUnderWay DEF TableFill, Perform
  <2>2. call.d \in Nat /\ call.n \in Nat /\ Cell(call.v) \in Slot
    BY <2>1, CellIsSlot, StoreAssumption DEF TableOperands
  <2> DEFINE g == Array(call.n, Cell(call.v))
  <2>3. \A k \in 0 .. (call.n - 1) : g[k] \in Slot
    BY <2>2, ArrayTyped
  <2> HIDE DEF g
  <2>4. CASE Fails(TrapResult)
    BY <2>1, <2>4, FailsKeepsContents
  <2>5. CASE PutTable(call.d, call.n, g)
    BY <2>1, <2>2, <2>3, <2>5, PutTableKeepsContents
  <2> QED
    BY <1>3, <2>4, <2>5 DEF TableFill, g
<1>4. CASE TableCopy
  <2>1. call.t \in DOMAIN tables /\ call' = NoCall /\ TableOperands(call.t, call) /\ call.op = "table_copy"
    BY <1>0, <1>4, TableCallUnderWay DEF TableCopy, Perform
  <2>2. call.f \in DOMAIN tables /\ call.n \in Nat
    BY <2>1, StoreAssumption DEF TableOperands
  <2> DEFINE h == CopiedTable(call.t, call.f, call.d, call.s, call.n)
  <2>3. h \in [0 .. (tables[call.t].len - 1) -> Slot]
    <3> DEFINE at == IF call.d <= call.s THEN [j \in 1 .. call.n |-> j - 1] ELSE [j \in 1 .. call.n |-> call.n - j]
    <3>1. h = Moved(call.t, call.f, call.d, call.s, call.n, at)
      BY DEF CopiedTable
    <3> HIDE DEF h, at
    <3> QED
      BY <2>1, <2>2, <3>1, MovedTyped
  <2>4. CASE Fails(TrapResult)
    BY <2>1, <2>4, FailsKeepsContents
  <2>5. CASE tables' = [tables EXCEPT ![call.t].cells = h] /\ UNCHANGED <<todo, mems>>
    <3> HIDE DEF h
    <3> QED
      BY <2>1, <2>3, <2>5, TableCellsKeepContents
  <2> QED
    BY <1>4, <2>4, <2>5 DEF TableCopy
<1>5. CASE TableInit
  <2> DEFINE s == Signed4(call.s)
             n == Signed4(call.n)
             x == call.x
  <2>1. call.t \in DOMAIN tables /\ call' = NoCall /\ TableOperands(call.t, call) /\ call.op = "table_init"
    BY <1>0, <1>5, TableCallUnderWay DEF TableInit, Perform
  <2>2. call.d \in Nat /\ s \in Int /\ n \in Int /\ x \in DOMAIN ElemSegs /\ ElemSegs[x].len \in Nat
    <3>1. call.d \in 0 .. (U8 - 1) /\ call.x \in DOMAIN ElemSegs
          /\ call.s \in 0 .. (U4 - 1) /\ call.n \in 0 .. (U4 - 1)
      BY <2>1 DEF TableOperands
    <3>2. s \in Int /\ n \in Int
      BY <3>1, Signed4Type
    <3> QED
      BY <3>1, <3>2, StoreAssumption
  <2>3. CASE Fails(TrapResult)
    BY <2>1, <2>3, FailsKeepsContents
  <2>4. CASE /\ SegmentOk(SegLen(ElemSegs, elem_dropped, x), s, n)
             /\ PutTable(call.d, n, Items(x, s, n))
    <3>1. s \in Nat /\ n \in Nat /\ s + n <= ElemSegs[x].len
      BY <2>2, <2>4, SegmentInside
    <3> HIDE DEF s, n, x
    <3>2. \A k \in 0 .. (n - 1) : Items(x, s, n)[k] \in Slot
      BY <2>2, <3>1, ItemsTyped
    <3> QED
      BY <2>1, <2>2, <2>4, <3>1, <3>2, PutTableKeepsContents
  <2> QED
    BY <1>5, <2>3, <2>4 DEF TableInit
<1>6. CASE DropElem
  BY <1>6, KeepContents DEF DropElem, Perform
<1>7. CASE ActiveElem
  <2> DEFINE x == call.x
             len == ElemSegs[x].len
  <2>1. call.t \in DOMAIN tables /\ call' = NoCall /\ TableOperands(call.t, call) /\ call.op = "active_elem"
    BY <1>0, <1>7, TableCallUnderWay DEF ActiveElem, Perform
  <2>2. call.d \in Nat /\ x \in DOMAIN ElemSegs /\ len \in Nat /\ 0 \in Nat /\ 0 + len <= len
    BY <2>1, StoreAssumption DEF TableOperands
  <2>3. CASE Fails(TrapResult)
    BY <2>1, <2>3, FailsKeepsContents
  <2>4. CASE PutTable(call.d, len, Items(x, 0, len))
    <3>1. \A k \in 0 .. (len - 1) : Items(x, 0, len)[k] \in Slot
      BY <2>2, ItemsTyped
    <3> HIDE DEF x, len
    <3> QED
      BY <2>1, <2>2, <2>4, <3>1, PutTableKeepsContents
  <2> QED
    BY <1>7, <2>3, <2>4 DEF ActiveElem
<1> QED
  BY <1>1, <1>2, <1>3, <1>4, <1>5, <1>6, <1>7

\* An array that has grown.
LEMMA TableGrown ==
  ASSUME NEW t \in TableShape, NEW n \in Nat, NEW v \in Slot
  PROVE  [t EXCEPT !.len = @ + n, !.cells = Extended(@, t.len, n, v)] \in TableShape
<1> DEFINE g == Extended(t.cells, t.len, n, v)
           e == [t EXCEPT !.len = @ + n, !.cells = g]
<1>1. t.len \in Nat /\ t.cells \in [0 .. (t.len - 1) -> Slot]
  BY TableParts
<1>2. g \in [0 .. (t.len + n - 1) -> Slot]
  BY <1>1, ExtendedTyped
<1>3. g \in SlotArray
  <2>1. \A k \in Nat : [0 .. (k - 1) -> Slot] \subseteq SlotArray
    BY DEF SlotArray
  <2> DEFINE len == t.len + n
  <2>2. len \in Nat /\ g \in [0 .. (len - 1) -> Slot]
    BY <1>1, <1>2
  <2> HIDE DEF g, len
  <2> QED
    BY <2>1, <2>2
<1>4. t \in [len : Nat, cells : SlotArray, has_max : BOOLEAN, max : Nat, is64 : BOOLEAN]
  BY DEF TableShape
<1> HIDE DEF g
<1>5. e \in [len : Nat, cells : SlotArray, has_max : BOOLEAN, max : Nat, is64 : BOOLEAN]
  <2> DEFINE len == t.len + n
  <2>1. len \in Nat /\ e = [t EXCEPT !.len = len, !.cells = g]
    BY <1>1
  <2> HIDE DEF len, e
  <2> QED
    BY <1>3, <1>4, <2>1
<1>6. e.len = t.len + n /\ e.cells = g
  BY <1>4
<1>7. e \in TableShape
  <2> HIDE DEF e
  <2> QED
    BY <1>2, <1>5, <1>6 DEF TableShape
<1> QED
  BY <1>7 DEF g

LEMMA MemGrown ==
  ASSUME NEW m \in MemShape, NEW size \in Nat, m.size <= size, WholePages(size)
  PROVE  [m EXCEPT !.size = size, !.cells = Extended(@, m.size, size - m.size, 0)] \in MemShape
<1> DEFINE n == size - m.size
           g == Extended(m.cells, m.size, n, 0)
           e == [m EXCEPT !.size = size, !.cells = g]
<1>1. m.size \in Nat /\ m.cells \in [0 .. (m.size - 1) -> Byte] /\ n \in Nat /\ m.size + n = size
  BY MemParts
<1>2. g \in [0 .. (size - 1) -> Byte]
  <2>1. g \in [0 .. (m.size + n - 1) -> Byte]
    <3> HIDE DEF n
    <3> QED
      BY <1>1, ExtendedTyped, StoreAssumption
  <2> HIDE DEF g, n
  <2> QED
    BY <1>1, <2>1
<1>3. g \in ByteArray
  <2> HIDE DEF g
  <2> QED
    BY <1>2 DEF ByteArray
<1>4. m \in [size : Nat, cells : ByteArray, has_max : BOOLEAN, max : Nat, is64 : BOOLEAN]
  BY DEF MemShape
<1> HIDE DEF g, n
<1>5. e \in [size : Nat, cells : ByteArray, has_max : BOOLEAN, max : Nat, is64 : BOOLEAN]
  BY <1>3, <1>4
<1>6. e.size = size /\ e.cells = g
  BY <1>4
<1>7. e \in MemShape
  <2> HIDE DEF e
  <2> QED
    BY <1>2, <1>5, <1>6 DEF MemShape
<1> QED
  BY <1>7 DEF g, n

LEMMA TableGrowKeepsContents == ContentsInv /\ TableGrow => ContentsInv'
<1> SUFFICES ASSUME ContentsInv, TableGrow PROVE ContentsInv'
  OBVIOUS
<1> DEFINE t == tables[call.t]
           e == [t EXCEPT !.len = @ + call.n, !.cells = Extended(@, t.len, call.n, Cell(call.v))]
<1>1. call.t \in DOMAIN tables /\ call' = NoCall /\ TableOperands(call.t, call) /\ call.op = "table_grow"
  BY TableCallUnderWay DEF TableGrow, Perform, ContentsInv
<1>2. call.n \in Nat /\ Cell(call.v) \in Slot
  BY <1>1, CellIsSlot, StoreAssumption DEF TableOperands
<1>3. CASE Fails(Refused)
  BY <1>1, <1>3, FailsKeepsContents
<1>4. CASE tables' = [tables EXCEPT ![call.t] = e] /\ UNCHANGED <<todo, mems>>
  <2>1. t \in TableShape
    BY <1>1, ExceptShape DEF ContentsInv
  <2>2. e \in TableShape
    <3> HIDE DEF t
    <3> QED
      BY <1>2, <2>1, TableGrown
  <2> HIDE DEF e
  <2>3. tables' \in Seq(TableShape)
    BY <1>1, <1>4, <2>2, ExceptShape DEF ContentsInv
  <2> QED
    BY <1>1, <1>4, <2>3 DEF ContentsInv, CallsInv
<1> QED
  BY <1>3, <1>4 DEF TableGrow

\* The number of pages of a whole number of pages.
LEMMA PagesOf ==
  ASSUME NEW p \in Nat
  PROVE  (p * PageSize) \div PageSize = p /\ (p * PageSize) % PageSize = 0
<1> DEFINE x == p * PageSize
           q == x \div PageSize
           r == x % PageSize
<1>1. PageSize \in Nat \ {0} /\ x \in Nat
  BY StoreAssumption
<1>2. q \in Nat /\ r \in 0 .. (PageSize - 1) /\ x = q * PageSize + r
  <2> HIDE DEF x
  <2> QED
    BY <1>1
<1> HIDE DEF q, r
<1>3. (p - q) * PageSize = r
  BY <1>1, <1>2
<1>4. CASE p - q >= 1
  <2>1. (p - q) * PageSize = PageSize + (p - q - 1) * PageSize
    BY <1>1, <1>2
  <2>2. (p - q - 1) * PageSize \in Nat
    BY <1>1, <1>2, <1>4, p - q - 1 \in Nat
  <2> QED
    BY <1>1, <1>2, <1>3, <2>1, <2>2
<1>5. CASE p - q <= -1
  <2>1. (q - p) * PageSize = PageSize + (q - p - 1) * PageSize
    BY <1>1, <1>2
  <2>2. (q - p - 1) * PageSize \in Nat
    BY <1>1, <1>2, <1>5, q - p - 1 \in Nat
  <2>3. (p - q) * PageSize + (q - p) * PageSize = 0
    BY <1>1, <1>2
  <2>4. (p - q) * PageSize \in Int /\ (q - p) * PageSize \in Int
    BY <1>1, <1>2
  <2> QED
    BY <1>1, <1>2, <1>3, <2>1, <2>2, <2>3, <2>4
<1>6. CASE p = q
  <2>1. r = 0
    BY <1>1, <1>3, <1>6
  <2> QED
    BY <1>6, <2>1 DEF q, r
<1> QED
  BY <1>2, <1>4, <1>5, <1>6

\* As many pages as one allocation can back are a word of bytes.
LEMMA PagesAreWord ==
  ASSUME NEW p \in 0 .. JAV_MAX_MEMORY_PAGES
  PROVE  /\ Word(p * PageSize) = p * PageSize /\ p * PageSize \in Nat
         /\ WholePages(p * PageSize)
         /\ p * PageSize <= MaxBytes
<1> DEFINE k == JAV_MAX_MEMORY_PAGES - p
           x == p * PageSize
<1>1. k \in Nat /\ p \in Nat /\ p + k = JAV_MAX_MEMORY_PAGES
  BY StoreAssumption
<1>2. (p + k) * PageSize = p * PageSize + k * PageSize
  BY <1>1, StoreAssumption
<1>3. p * PageSize \in Nat /\ k * PageSize \in Nat
  BY <1>1, StoreAssumption
<1>4. x <= MaxBytes /\ x \in Nat
  BY <1>1, <1>2, <1>3, StoreAssumption DEF MaxBytes
<1>5. WholePages(x)
  BY DEF WholePages
<1> HIDE DEF x
<1>6. x \in 0 .. (U8 - 1)
  BY <1>4, MaxBytesType, StoreAssumption
<1>7. Word(x) = x
  BY <1>6, WordSmall
<1> QED
  BY <1>4, <1>5, <1>7 DEF x

\* The pages of a memory before and after it grows.
LEMMA GrownPages ==
  ASSUME NEW m \in MemShape, NEW n \in 0 .. (U8 - 1), Signed(n) >= 0,
         Word(m.size \div PageSize + Signed(n)) <= PagesAllowed(m)
  PROVE  \E p \in 0 .. JAV_MAX_MEMORY_PAGES :
           /\ m.size = p * PageSize /\ m.size \div PageSize = p
           /\ Signed(n) = n
           /\ Word(m.size \div PageSize + Signed(n)) = p + n
           /\ p + n \in 0 .. JAV_MAX_MEMORY_PAGES /\ p + n <= PagesDeclared(m)
<1>1. PICK p \in 0 .. JAV_MAX_MEMORY_PAGES : m.size = p * PageSize
  BY MemParts DEF WholePages
<1>2. p \in Nat /\ m.size \div PageSize = p
  BY <1>1, PagesOf, StoreAssumption
<1>3. n < U8 \div 2 /\ Signed(n) = n
  BY StoreAssumption DEF Signed
<1>4. p + n \in 0 .. (U8 - 1)
  <2>1. U8 \div 2 \in Int /\ 2 * (U8 \div 2) <= U8
    BY StoreAssumption
  <2>2. p <= JAV_MAX_MEMORY_PAGES /\ 2 * JAV_MAX_MEMORY_PAGES < U8 /\ JAV_MAX_MEMORY_PAGES \in Nat /\ U8 \in Nat
    BY StoreAssumption
  <2> QED
    BY <1>2, <1>3, <2>1, <2>2
<1>5. Word(p + n) = p + n
  BY <1>4, WordSmall
<1>6. p + n <= PagesAllowed(m)
  BY <1>2, <1>3, <1>5
<1>7. PagesDeclared(m) \in Int
  BY MemParts, StoreAssumption DEF PagesDeclared
<1>8. p + n <= JAV_MAX_MEMORY_PAGES /\ p + n <= PagesDeclared(m)
  BY <1>2, <1>6, <1>7, StoreAssumption DEF PagesAllowed
<1> QED
  BY <1>1, <1>2, <1>3, <1>4, <1>5, <1>8, StoreAssumption

LEMMA MemGrowKeepsContents == ContentsInv /\ MemGrow => ContentsInv'
<1> SUFFICES ASSUME ContentsInv, MemGrow PROVE ContentsInv'
  OBVIOUS
<1> DEFINE m == mems[call.m]
           newpages == Word(m.size \div PageSize + Signed(call.n))
           newsize == Word(newpages * PageSize)
           e == [m EXCEPT !.size = newsize, !.cells = Extended(@, m.size, newsize - m.size, 0)]
<1>1. call.m \in DOMAIN mems /\ call' = NoCall /\ MemOperands(call.m, call) /\ call.op = "memory_grow"
  BY MemCallUnderWay DEF MemGrow, Perform, ContentsInv
<1>2. call.n \in 0 .. (U8 - 1)
  BY <1>1 DEF MemOperands
<1>3. CASE Fails(Refused)
  BY <1>1, <1>3, FailsKeepsContents
<1>4. CASE /\ Signed(call.n) >= 0
           /\ newpages <= PagesAllowed(m)
           /\ mems' = [mems EXCEPT ![call.m] = e]
           /\ UNCHANGED <<todo, tables>>
  <2>1. m \in MemShape
    BY <1>1, ExceptShape DEF ContentsInv
  <2> HIDE DEF m
  <2>2. PICK p \in 0 .. JAV_MAX_MEMORY_PAGES :
          /\ m.size = p * PageSize /\ newpages = p + call.n /\ p + call.n \in 0 .. JAV_MAX_MEMORY_PAGES
    BY <1>2, <1>4, <2>1, GrownPages
  <2> HIDE DEF newpages
  <2>3. newpages \in 0 .. JAV_MAX_MEMORY_PAGES
    BY <2>2
  <2>4. newsize = newpages * PageSize /\ newsize \in Nat /\ WholePages(newsize)
    BY <2>3, PagesAreWord
  <2> HIDE DEF newsize
  <2>5. m.size <= newsize
    <3> DEFINE n == call.n
    <3>1. n \in Nat /\ p \in Nat /\ PageSize \in Nat
      BY <1>2, StoreAssumption
    <3>2. newpages = p + n /\ newsize = newpages * PageSize
      BY <2>2, <2>4
    <3> HIDE DEF n
    <3>3. (p + n) * PageSize = p * PageSize + n * PageSize
      BY <3>1
    <3>4. n * PageSize \in Nat /\ p * PageSize \in Nat
      BY <3>1
    <3> QED
      BY <2>2, <3>2, <3>3, <3>4
  <2>6. e \in MemShape
    BY <2>1, <2>4, <2>5, MemGrown
  <2> HIDE DEF e
  <2>7. mems' \in Seq(MemShape)
    BY <1>1, <1>4, <2>6, ExceptShape DEF ContentsInv
  <2> QED
    BY <1>1, <1>4, <2>7 DEF ContentsInv, CallsInv
<1> QED
  BY <1>3, <1>4 DEF MemGrow

LEMMA AllocateKeepsContents == ContentsInv /\ Allocate => ContentsInv'
<1> SUFFICES ASSUME ContentsInv, Allocate PROVE ContentsInv'
  OBVIOUS
<1> DEFINE o == Head(todo)
<1>1. o \in ObjType /\ Tail(todo) \in Seq(ObjType) /\ <<>> \in Seq(ObjType)
  BY HeadTailProperties DEF ContentsInv, Allocate
<1>2. o.min \in Nat /\ o.max \in Nat /\ o.max % U4 \in Nat
      /\ o.has_max \in BOOLEAN /\ o.is64 \in BOOLEAN /\ o.fill \in Ref
  BY <1>1, StoreAssumption DEF ObjType
<1>3. call = NoCall /\ call' = NoCall
  BY DEF Allocate
<1> HIDE DEF o
<1>4. CASE MemAdd(o) /\ UNCHANGED tables
  <2>1. todo' \in Seq(ObjType)
    BY <1>1, <1>4 DEF MemAdd, o
  <2>2. CASE mems' = mems
    BY <1>3, <1>4, <2>1, <2>2 DEF ContentsInv, CallsInv
  <2>3. CASE o.min <= JAV_MAX_MEMORY_PAGES /\ mems' # mems
    <3> DEFINE size == Word(o.min * PageSize)
               e == [size |-> size, cells |-> Array(size, 0),
                     has_max |-> o.has_max, max |-> o.max, is64 |-> o.is64]
    <3>1. size \in Nat /\ WholePages(size)
      <4>1. o.min \in 0 .. JAV_MAX_MEMORY_PAGES
        BY <1>2, <2>3, StoreAssumption
      <4> QED
        BY <4>1, PagesAreWord
    <3>2. mems' = Append(mems, e)
      BY <1>4, <2>3 DEF MemAdd
    <3> HIDE DEF size
    <3>3. Array(size, 0) \in [0 .. (size - 1) -> Byte]
      BY <3>1, ArrayTyped, StoreAssumption
    <3>4. e \in MemShape
      BY <1>2, <3>1, <3>3, MemOf
    <3> HIDE DEF e
    <3>5. mems' \in Seq(MemShape)
      BY <3>2, <3>4, AppendShape DEF ContentsInv
    <3> QED
      BY <1>3, <1>4, <2>1, <3>5 DEF ContentsInv, CallsInv
  <2> QED
    BY <1>4, <2>2, <2>3 DEF MemAdd
<1>5. CASE TableAdd(o) /\ UNCHANGED mems
  <2>1. todo' \in Seq(ObjType)
    BY <1>1, <1>5 DEF TableAdd, o
  <2>2. CASE tables' = tables
    BY <1>3, <1>5, <2>1, <2>2 DEF ContentsInv, CallsInv
  <2>3. CASE o.min <= JAV_MAX_TABLE_ELEMS /\ tables' # tables
    <3> DEFINE cells == Array(o.min, Cell(o.fill))
               e == [len |-> o.min, cells |-> cells,
                     has_max |-> o.has_max, max |-> o.max % U4, is64 |-> o.is64]
    <3>1. tables' = Append(tables, e)
      BY <1>5, <2>3 DEF TableAdd
    <3>2. cells \in [0 .. (o.min - 1) -> Slot]
      BY <1>2, ArrayTyped, CellIsSlot
    <3> HIDE DEF cells
    <3>3. e \in TableShape
      BY <1>2, <3>2, TableOf
    <3> HIDE DEF e
    <3>4. tables' \in Seq(TableShape)
      BY <3>1, <3>3, AppendShape DEF ContentsInv
    <3> QED
      BY <1>3, <1>5, <2>1, <3>4 DEF ContentsInv, CallsInv
  <2> QED
    BY <1>5, <2>2, <2>3 DEF TableAdd
<1> QED
  BY <1>4, <1>5 DEF Allocate, o

LEMMA ContentsInit == Init => ContentsInv
BY StoreAssumption DEF Init, ContentsInv, CallsInv

LEMMA ContentsStep == ContentsInv /\ [Next]_vars => ContentsInv'
<1> SUFFICES ASSUME ContentsInv, [Next]_vars PROVE ContentsInv'
  OBVIOUS
<1>1. CASE UNCHANGED vars
  BY <1>1, KeepContents DEF vars
<1>2. CASE Invoke
  BY <1>2, KeepContents DEF Invoke
<1> QED
  BY <1>1, <1>2, AllocateKeepsContents, MemsKeepContents, MemGrowKeepsContents, TablesKeepContents,
     TableGrowKeepsContents DEF Next

LEMMA ContentsTyped ==
  ASSUME ContentsInv
  PROVE  /\ \A m \in DOMAIN mems : /\ mems[m].size \in Nat /\ mems[m].size % PageSize = 0
                                   /\ mems[m].cells \in [0 .. (mems[m].size - 1) -> Byte]
         /\ \A t \in DOMAIN tables : /\ tables[t].len \in Nat
                                     /\ tables[t].cells \in [0 .. (tables[t].len - 1) -> Slot]
<1>1. ASSUME NEW m \in DOMAIN mems
      PROVE  /\ mems[m].size \in Nat /\ mems[m].size % PageSize = 0
             /\ mems[m].cells \in [0 .. (mems[m].size - 1) -> Byte]
  <2> DEFINE e == mems[m]
  <2>1. e \in MemShape
    BY ExceptShape DEF ContentsInv
  <2> HIDE DEF e
  <2>2. PICK p \in 0 .. JAV_MAX_MEMORY_PAGES : e.size = p * PageSize
    BY <2>1, MemParts DEF WholePages
  <2>3. p \in Nat
    BY <2>2, StoreAssumption
  <2>4. e.size \in Nat /\ e.cells \in [0 .. (e.size - 1) -> Byte] /\ e.size % PageSize = 0
    BY <2>1, <2>2, <2>3, MemParts, PagesOf
  <2> QED
    BY <2>4 DEF e
<1>2. ASSUME NEW t \in DOMAIN tables
      PROVE  tables[t].len \in Nat /\ tables[t].cells \in [0 .. (tables[t].len - 1) -> Slot]
  <2> DEFINE e == tables[t]
  <2>1. e \in TableShape
    BY ExceptShape DEF ContentsInv
  <2> HIDE DEF e
  <2>2. e.len \in Nat /\ e.cells \in [0 .. (e.len - 1) -> Slot]
    BY <2>1, TableParts
  <2> QED
    BY <2>2 DEF e
<1> QED
  BY <1>1, <1>2

LEMMA ContentsHonest == ContentsInv => TagsHonest
<1> SUFFICES ASSUME ContentsInv, NEW t \in DOMAIN tables, NEW k \in DOMAIN tables[t].cells
             PROVE  tables[t].cells[k].kind = Cell(tables[t].cells[k].ref).kind
  BY DEF TagsHonest
<1> DEFINE c == tables[t].cells[k]
<1>1. c \in Slot
  <2>1. tables[t].cells \in [0 .. (tables[t].len - 1) -> Slot]
    BY ContentsTyped
  <2> QED
    BY <2>1
<1> HIDE DEF c
<1>2. c.kind = Cell(c.ref).kind
  BY <1>1 DEF Slot
<1> QED
  BY <1>2 DEF c

\* The tag of a table slot tells a managed reference from any other, whichever way the
\* slot came to be written: table.set, table.fill, table.copy within a table and between
\* two, table.init, an active segment, table.grow, wasm_table_set or the table's
\* allocation (jav_tableinst_write, jav_table_add); nothing is assumed of the embedder.
THEOREM TagsCorrect == Spec => []TagsHonest
BY ContentsInit, ContentsStep, ContentsHonest, PTL DEF Spec

LEMMA ContentsSized == StoreInv /\ ContentsInv => StoreTypeOK
<1> SUFFICES ASSUME StoreInv, ContentsInv PROVE StoreTypeOK
  OBVIOUS
<1>1. Slot \subseteq [ref : Ref, kind : {"T_REF", "T_GCREF"}]
  BY DEF Slot
<1>2. ASSUME NEW m \in DOMAIN mems
      PROVE  /\ mems[m].size \in 0 .. (U8 - 1) /\ mems[m].size % PageSize = 0
             /\ mems[m].cells \in [0 .. (mems[m].size - 1) -> Byte]
  BY ContentsTyped, MemSize
<1>3. ASSUME NEW t \in DOMAIN tables
      PROVE  /\ tables[t].len \in 0 .. (U8 - 1)
             /\ tables[t].cells \in [0 .. (tables[t].len - 1) -> [ref : Ref, kind : {"T_REF", "T_GCREF"}]]
  <2>1. tables[t].len \in 0 .. (U8 - 1)
    BY TableLen
  <2>2. tables[t].cells \in [0 .. (tables[t].len - 1) -> Slot]
    BY ContentsTyped
  <2> QED
    BY <1>1, <2>1, <2>2
<1> QED
  BY <1>2, <1>3 DEF StoreTypeOK

\* Every memory is a whole number of pages, and every memory and table has exactly the
\* cells that its length says, whatever is allocated, written and grown (jav_mem_add,
\* mem_grow_inst, jav_table_add, jav_tableinst_grow).
THEOREM StoreTyped ==
  ASSUME HostGrowthSmall
  PROVE  Spec => []StoreTypeOK
BY StoreInit, StoreStep, ContentsInit, ContentsStep, ContentsSized, HostGrowthSmall, PTL DEF Spec

-----------------------------------------------------------------------------
(* The abstract store                                                      *)

\* What the refinement makes of a memory and of a table.
AbsMem(m) == [len |-> m.size, cells |-> m.cells, is64 |-> m.is64, limit |-> PagesDeclared(m)]
AbsTable(t) == [len |-> t.len, is64 |-> t.is64, limit |-> SlotsDeclared(t),
                cells |-> [k \in DOMAIN t.cells |-> t.cells[k].ref]]
AbsMems == [m \in DOMAIN mems |-> AbsMem(mems[m])]
AbsTables == [t \in DOMAIN tables |-> AbsTable(tables[t])]

\* What a write and a failure are in the abstract store.
MemWrite(op, d, n, g) ==
  /\ Perform(op) /\ result' = Ok
  /\ AbsMems' = [AbsMems EXCEPT ![call.m] = Abstract!Put(@, d, n, g)]
  /\ UNCHANGED <<todo, AbsTables, segments>>
TableWrite(op, d, n, g) ==
  /\ Perform(op) /\ result' = Ok
  /\ AbsTables' = [AbsTables EXCEPT ![call.t] = Abstract!Put(@, d, n, g)]
  /\ UNCHANGED <<todo, AbsMems, segments>>
Failure(op, a) ==
  /\ Perform(op) /\ result' = a
  /\ UNCHANGED <<todo, AbsMems, AbsTables, segments>>

\* What does not change maps to the same.
LEMMA AbsUnchanged ==
  /\ mems' = mems => AbsMems' = AbsMems
  /\ tables' = tables => AbsTables' = AbsTables
BY DEF AbsMems, AbsMem, AbsTables, AbsTable, PagesDeclared, SlotsDeclared

LEMMA FailsRefines ==
  ASSUME NEW op, Perform(op), NEW a, Fails(a)
  PROVE  Failure(op, a)
BY AbsUnchanged DEF Fails, Failure

\* One object replaced by another.
LEMMA MemReplaced ==
  ASSUME NEW i \in DOMAIN mems, NEW e, mems' = [mems EXCEPT ![i] = e]
  PROVE  AbsMems' = [AbsMems EXCEPT ![i] = AbsMem(e)]
<1>1. mems' = [j \in DOMAIN mems |-> IF j = i THEN e ELSE mems[j]]
  OBVIOUS
<1>2. AbsMems' = [j \in DOMAIN mems' |-> AbsMem(mems'[j])]
  BY DEF AbsMems, AbsMem, PagesDeclared
<1>3. AbsMems' = [j \in DOMAIN mems |-> AbsMem(IF j = i THEN e ELSE mems[j])]
  BY <1>1, <1>2
<1> QED
  BY <1>3 DEF AbsMems

LEMMA TableReplaced ==
  ASSUME NEW i \in DOMAIN tables, NEW e, tables' = [tables EXCEPT ![i] = e]
  PROVE  AbsTables' = [AbsTables EXCEPT ![i] = AbsTable(e)]
<1>1. tables' = [j \in DOMAIN tables |-> IF j = i THEN e ELSE tables[j]]
  OBVIOUS
<1>2. AbsTables' = [j \in DOMAIN tables' |-> AbsTable(tables'[j])]
  BY DEF AbsTables, AbsTable, SlotsDeclared
<1>3. AbsTables' = [j \in DOMAIN tables |-> AbsTable(IF j = i THEN e ELSE tables[j])]
  BY <1>1, <1>2
<1> QED
  BY <1>3 DEF AbsTables

\* A write of n cells, the same to both.
LEMMA PutMemRefines ==
  ASSUME ContentsInv, call.m \in DOMAIN mems, NEW op, Perform(op),
         NEW d, NEW n, NEW g, PutMem(d, n, g)
  PROVE  MemWrite(op, d, n, g)
<1> DEFINE m == mems[call.m]
           h == Put(m.cells, d, n, g)
           e == [m EXCEPT !.cells = h]
<1>1. m \in MemShape
  BY ExceptShape DEF ContentsInv
<1>2. mems' = [mems EXCEPT ![call.m] = e]
  BY DEF PutMem
<1>3. AbsMem(e) = Abstract!Put(AbsMem(m), d, n, g)
  <2>1. h = [k \in DOMAIN m.cells |-> IF d <= k /\ k < d + n THEN g[k - d] ELSE m.cells[k]]
    BY DEF Put
  <2> HIDE DEF m, h
  <2>2. Abstract!Put(AbsMem(m), d, n, g) = [AbsMem(m) EXCEPT !.cells = h]
    BY <2>1 DEF Abstract!Put, AbsMem
  <2>3. e.size = m.size /\ e.cells = h /\ e.is64 = m.is64 /\ e.has_max = m.has_max /\ e.max = m.max
    BY <1>1, MemParts
  <2>4. PagesDeclared(e) = PagesDeclared(m)
    BY <2>3 DEF PagesDeclared
  <2> HIDE DEF e
  <2>5. AbsMem(e) = [len |-> m.size, cells |-> h, is64 |-> m.is64, limit |-> PagesDeclared(m)]
    BY <2>3, <2>4 DEF AbsMem
  <2> QED
    BY <2>2, <2>5 DEF AbsMem
<1> HIDE DEF e
<1>4. AbsMems' = [AbsMems EXCEPT ![call.m] = AbsMem(e)]
  BY <1>2, MemReplaced
<1>5. AbsMems' = [AbsMems EXCEPT ![call.m] = Abstract!Put(@, d, n, g)]
  BY <1>3, <1>4 DEF AbsMems, m
<1> QED
  BY <1>5, AbsUnchanged DEF PutMem, MemWrite

LEMMA TableCellsRefine ==
  ASSUME ContentsInv, call.t \in DOMAIN tables, NEW op, Perform(op),
         NEW d \in Nat, NEW n \in Nat, NEW g, NEW v, \A k \in 0 .. (n - 1) : v[k] = g[k].ref,
         tables' = [tables EXCEPT ![call.t].cells = Put(@, d, n, g)],
         result' = Ok, UNCHANGED <<todo, mems, segments>>
  PROVE  TableWrite(op, d, n, v)
<1> DEFINE t == tables[call.t]
           h == Put(t.cells, d, n, g)
           e == [t EXCEPT !.cells = h]
<1>1. t \in TableShape
  BY ExceptShape DEF ContentsInv
<1>2. tables' = [tables EXCEPT ![call.t] = e]
  OBVIOUS
<1>3. AbsTable(e) = Abstract!Put(AbsTable(t), d, n, v)
  <2>1. h = [k \in DOMAIN t.cells |-> IF d <= k /\ k < d + n THEN g[k - d] ELSE t.cells[k]]
    BY DEF Put
  <2> HIDE DEF t, h
  <2> DEFINE w == [k \in DOMAIN t.cells |-> h[k].ref]
  <2>2. Abstract!Put(AbsTable(t), d, n, v) = [AbsTable(t) EXCEPT !.cells = w]
    <3>1. t.len \in Nat /\ t.cells \in [0 .. (t.len - 1) -> Slot]
      BY <1>1, TableParts
    <3>2. ASSUME NEW k \in DOMAIN t.cells
          PROVE  h[k].ref = IF d <= k /\ k < d + n THEN v[k - d] ELSE t.cells[k].ref
      <4>1. k \in Nat
        BY <3>1
      <4>2. d <= k /\ k < d + n => k - d \in 0 .. (n - 1)
        BY <4>1
      <4> QED
        BY <2>1, <4>2
    <3>3. w = [k \in DOMAIN t.cells |-> IF d <= k /\ k < d + n THEN v[k - d] ELSE t.cells[k].ref]
      BY <3>2
    <3> HIDE DEF w
    <3> QED
      BY <3>3 DEF Abstract!Put, AbsTable
  <2>3. e.len = t.len /\ e.cells = h /\ e.is64 = t.is64 /\ e.has_max = t.has_max /\ e.max = t.max
    BY <1>1, TableParts
  <2>4. SlotsDeclared(e) = SlotsDeclared(t)
    BY <2>3 DEF SlotsDeclared
  <2>5. DOMAIN h = DOMAIN t.cells
    BY <2>1
  <2> HIDE DEF e
  <2>6. AbsTable(e) = [len |-> t.len, is64 |-> t.is64, limit |-> SlotsDeclared(t), cells |-> w]
    BY <2>3, <2>4, <2>5 DEF AbsTable
  <2> HIDE DEF w
  <2> QED
    BY <2>2, <2>6 DEF AbsTable
<1> HIDE DEF e
<1>4. AbsTables' = [AbsTables EXCEPT ![call.t] = AbsTable(e)]
  BY <1>2, TableReplaced
<1>5. AbsTables' = [AbsTables EXCEPT ![call.t] = Abstract!Put(@, d, n, v)]
  BY <1>3, <1>4 DEF AbsTables, t
<1> QED
  BY <1>5, AbsUnchanged DEF TableWrite

LEMMA PutTableRefines ==
  ASSUME ContentsInv, call.t \in DOMAIN tables, NEW op, Perform(op),
         NEW d \in Nat, NEW n \in Nat, NEW g, NEW v, \A k \in 0 .. (n - 1) : v[k] = g[k].ref,
         PutTable(d, n, g)
  PROVE  TableWrite(op, d, n, v)
BY TableCellsRefine DEF PutTable

-----------------------------------------------------------------------------
(* What a copy between tables copies                                       *)

\* The slots that the first j moves have written.
Written(d, at, j) == {d + at[i] : i \in 1 .. j}
\* The target, with what the source held to begin with in those slots.
Exact(t, f, d, s, at, j) ==
  [i \in DOMAIN tables[t].cells |->
     IF i \in Written(d, at, j) THEN tables[f].cells[s + (i - d)] ELSE tables[t].cells[i]]

\* No move reads, in the target itself, a slot that an earlier one wrote.
Undisturbed(t, f, d, s, n, at) ==
  /\ \A j \in 1 .. n : at[j] \in 0 .. (n - 1)
  /\ t = f => \A j \in 1 .. n : s + at[j] \notin Written(d, at, j - 1)

\* Then each writes what the source held to begin with.
LEMMA MovesAreExact ==
  ASSUME ContentsInv, NEW t \in DOMAIN tables, NEW f \in DOMAIN tables,
         NEW d \in Nat, NEW s \in Nat, NEW n \in Nat, NEW at,
         s + n <= tables[f].len, Undisturbed(t, f, d, s, n, at)
  PROVE  Moved(t, f, d, s, n, at) = Exact(t, f, d, s, at, n)
<1> DEFINE T == tables[t].cells
           F == tables[f].cells
           D == DOMAIN T
           E(j) == [i \in D |-> IF i \in Written(d, at, j) THEN F[s + (i - d)] ELSE T[i]]
           M == Stages(t, f, d, s, n, at)
           bad == {j \in 0 .. n : M[j] # E(j)}
<1>0. /\ \A j \in 1 .. n : at[j] \in 0 .. (n - 1)
      /\ t = f => \A j \in 1 .. n : s + at[j] \notin Written(d, at, j - 1)
  BY DEF Undisturbed
<1>1. M[0] = T
  BY StagesFirst
<1>2. \A j \in 1 .. n : M[j] = OneMoved(M[j - 1], t, f, d + at[j], s + at[j])
  BY StagesNext
<1>3. Moved(t, f, d, s, n, at) = M[n]
  BY StagesLast
<1> HIDE DEF M
<1>4. /\ tables[t].len \in Nat /\ T \in [0 .. (tables[t].len - 1) -> Slot]
      /\ tables[f].len \in Nat /\ F \in [0 .. (tables[f].len - 1) -> Slot]
  BY ContentsTyped
<1>5. E(0) = T
  <2>1. Written(d, at, 0) = {}
    BY DEF Written
  <2>2. T = [i \in D |-> T[i]]
    BY <1>4
  <2> HIDE DEF T
  <2> QED
    BY <2>1, <2>2
<1>6. ASSUME NEW j \in 1 .. n, M[j - 1] = E(j - 1)
      PROVE  M[j] = E(j)
  <2> DEFINE to == d + at[j]
             from == s + at[j]
             W == Written(d, at, j - 1)
  <2>1. Written(d, at, j) = W \cup {to}
    <3>1. 1 .. j = (1 .. (j - 1)) \cup {j}
      OBVIOUS
    <3> QED
      BY <3>1 DEF Written
  <2>2. at[j] \in 0 .. (n - 1) /\ from \in 0 .. (tables[f].len - 1) /\ to \in Nat
    <3>1. at[j] \in 0 .. (n - 1)
      BY <1>0
    <3> QED
      BY <1>4, <3>1
  <2>3. from = s + (to - d)
    <3>1. at[j] \in Int
      BY <2>2
    <3> QED
      BY <3>1
  <2>4. At(IF t = f THEN M[j - 1] ELSE F, from, Cell(Null)) = F[from]
    <3>1. CASE t # f
      BY <1>4, <2>2, <3>1 DEF At
    <3>2. CASE t = f
      <4>1. from \in D /\ from \notin W /\ T = F
        BY <1>0, <1>4, <2>2, <3>2
      <4>2. M[j - 1][from] = F[from] /\ from \in DOMAIN M[j - 1]
        <5> HIDE DEF T, F, W, from
        <5> QED
          BY <1>6, <4>1 DEF W
      <4> QED
        BY <3>2, <4>2 DEF At
    <3> QED
      BY <3>1, <3>2
  <2>5. M[j] = [M[j - 1] EXCEPT ![to] = F[from]]
    BY <1>2, <2>4 DEF OneMoved
  <2> HIDE DEF T, F, W, to, from
  <2>6. M[j] = [E(j - 1) EXCEPT ![to] = F[s + (to - d)]]
    BY <1>6, <2>3, <2>5
  <2>7. [E(j - 1) EXCEPT ![to] = F[s + (to - d)]] = E(j)
    <3>1. E(j - 1) = [i \in D |-> IF i \in W THEN F[s + (i - d)] ELSE T[i]]
      BY DEF W
    <3>2. E(j) = [i \in D |-> IF i \in W \cup {to} THEN F[s + (i - d)] ELSE T[i]]
      BY <2>1
    <3> HIDE DEF E, D
    <3>3. [E(j - 1) EXCEPT ![to] = F[s + (to - d)]]
            = [i \in D |-> IF i = to THEN F[s + (to - d)] ELSE IF i \in W THEN F[s + (i - d)] ELSE T[i]]
      BY <3>1
    <3> QED
      BY <3>2, <3>3
  <2> QED
    BY <2>6, <2>7
<1> HIDE DEF E
<1>7. ASSUME NEW m \in bad, \A k \in bad : m <= k
      PROVE  FALSE
  <2>1. m \in 1 .. n
    BY <1>1, <1>5
  <2>2. m - 1 \in 0 .. n /\ m - 1 \notin bad
    <3>1. m - 1 \in 0 .. n /\ ~ (m <= m - 1)
      BY <2>1
    <3> HIDE DEF bad
    <3> QED
      BY <1>7, <3>1
  <2>3. M[m - 1] = E(m - 1)
    BY <2>2
  <2> QED
    BY <1>6, <2>1, <2>3
<1>8. bad = {}
  <2>1. bad \in SUBSET Nat
    OBVIOUS
  <2> HIDE DEF bad
  <2> QED
    BY <1>7, <2>1, LeastNumber
<1>9. M[n] = E(n)
  <2>1. n \in 0 .. n
    OBVIOUS
  <2> QED
    BY <1>8, <2>1
<1> QED
  BY <1>3, <1>9 DEF E, Exact

\* Upwards when the target lies below the source, else downwards: a copy within a table is
\* that of a table which is read before it is written.
LEMMA CopiedTableExact ==
  ASSUME ContentsInv, NEW t \in DOMAIN tables, NEW f \in DOMAIN tables,
         NEW d \in Nat, NEW s \in Nat, NEW n \in Nat, s + n <= tables[f].len,
         NEW g, \A k \in 0 .. (n - 1) : g[k] = tables[f].cells[s + k]
  PROVE  CopiedTable(t, f, d, s, n) = Put(tables[t].cells, d, n, g)
<1> DEFINE at == IF d <= s THEN [j \in 1 .. n |-> j - 1] ELSE [j \in 1 .. n |-> n - j]
<1>1. CopiedTable(t, f, d, s, n) = Moved(t, f, d, s, n, at)
  BY DEF CopiedTable
<1>2. \A j \in 1 .. n : at[j] = IF d <= s THEN j - 1 ELSE n - j
  OBVIOUS
<1> HIDE DEF at
<1>3. \A j \in 1 .. n : at[j] \in 0 .. (n - 1)
  BY <1>2
<1>4. \A j \in 1 .. n : s + at[j] \notin Written(d, at, j - 1)
  <2> SUFFICES ASSUME NEW j \in 1 .. n, NEW i \in 1 .. (j - 1), s + at[j] = d + at[i] PROVE FALSE
    BY DEF Written
  <2>1. i \in 1 .. n /\ i < j
    OBVIOUS
  <2>2. CASE d <= s
    <3>1. at[j] = j - 1 /\ at[i] = i - 1
      BY <1>2, <2>1, <2>2
    <3> QED
      BY <2>1, <2>2, <3>1
  <2>3. CASE ~(d <= s)
    <3>1. at[j] = n - j /\ at[i] = n - i
      BY <1>2, <2>1, <2>3
    <3> QED
      BY <2>1, <2>3, <3>1
  <2> QED
    BY <2>2, <2>3
<1>5. tables[t].len \in Nat /\ tables[t].cells \in [0 .. (tables[t].len - 1) -> Slot]
  BY ContentsTyped
<1>6. ASSUME NEW i \in DOMAIN tables[t].cells
      PROVE  i \in Written(d, at, n) <=> d <= i /\ i < d + n
  <2>1. i \in Nat
    BY <1>5
  <2>2. ASSUME NEW j \in 1 .. n, i = d + at[j] PROVE d <= i /\ i < d + n
    <3>1. at[j] \in 0 .. (n - 1)
      BY <1>3
    <3> QED
      BY <2>2, <3>1
  <2>3. ASSUME d <= i, i < d + n PROVE \E j \in 1 .. n : i = d + at[j]
    <3>1. CASE d <= s
      <4>1. i - d + 1 \in 1 .. n
        BY <2>1, <2>3
      <4>2. at[i - d + 1] = (i - d + 1) - 1
        BY <1>2, <3>1, <4>1
      <4> QED
        BY <2>1, <4>1, <4>2
    <3>2. CASE ~(d <= s)
      <4>1. n - (i - d) \in 1 .. n
        BY <2>1, <2>3
      <4>2. at[n - (i - d)] = n - (n - (i - d))
        BY <1>2, <3>2, <4>1
      <4> QED
        BY <2>1, <4>1, <4>2
    <3> QED
      BY <3>1, <3>2
  <2> QED
    BY <2>2, <2>3 DEF Written
<1>7. ASSUME NEW i \in DOMAIN tables[t].cells, d <= i, i < d + n
      PROVE  g[i - d] = tables[f].cells[s + (i - d)]
  <2>1. i - d \in 0 .. (n - 1)
    BY <1>5, <1>7
  <2> QED
    BY <2>1
<1>8. Moved(t, f, d, s, n, at) = Exact(t, f, d, s, at, n)
  <2>1. Undisturbed(t, f, d, s, n, at)
    BY <1>3, <1>4 DEF Undisturbed
  <2> QED
    BY <2>1, MovesAreExact
<1> QED
  BY <1>1, <1>6, <1>7, <1>8 DEF Put, Exact

-----------------------------------------------------------------------------
(* Every step is one of the abstract store                                 *)

\* No access has an effective address past the words.
OffsetsSmall == \A a \in Addr : \A o \in Offset : a + o < U8
\* No table declares a maximum that its 32-bit field would not hold.
MaximumSmall(o) == o.kind = "table" /\ o.has_max => o.max < U4
TableMaximaSmall == \A p \in Stores : \A i \in DOMAIN p : MaximumSmall(p[i])

\* Tests on words are tests on numbers.
LEMMA MemRange ==
  ASSUME StoreInv, NEW m \in DOMAIN mems, NEW d \in 0 .. (U8 - 1), NEW n \in Nat
  PROVE  /\ RangeOk(mems[m].size, d, n) <=> d + n <= mems[m].size
         /\ Abstract!Fits(AbsMems[m], d, n) <=> d + n <= mems[m].size
<1>1. mems[m].size \in 0 .. (U8 - 1)
  BY MemSize
<1> QED
  BY <1>1, RangeOkExact DEF Abstract!Fits, AbsMems, AbsMem

LEMMA TableRange ==
  ASSUME StoreInv, NEW t \in DOMAIN tables, NEW d \in 0 .. (U8 - 1), NEW n \in Nat
  PROVE  /\ RangeOk(tables[t].len, d, n) <=> d + n <= tables[t].len
         /\ Abstract!Fits(AbsTables[t], d, n) <=> d + n <= tables[t].len
<1>1. tables[t].len \in 0 .. (U8 - 1)
  BY TableLen
<1> QED
  BY <1>1, RangeOkExact DEF Abstract!Fits, AbsTables, AbsTable

\* What a copy reads of a memory that has the range.
LEMMA BlockIsSlice ==
  ASSUME ContentsInv, NEW m \in DOMAIN mems, NEW s \in Nat, NEW n \in Nat, s + n <= mems[m].size
  PROVE  Block(mems[m].cells, s, n) = Abstract!Slice(AbsMems[m], s, n)
<1>1. mems[m].size \in Nat /\ mems[m].cells \in [0 .. (mems[m].size - 1) -> Byte]
  BY ContentsTyped
<1>2. \A k \in 0 .. (n - 1) : At(mems[m].cells, s + k, 0) = AbsMems[m].cells[s + k]
  BY <1>1 DEF At, AbsMems, AbsMem
<1> HIDE DEF AbsMems
<1> QED
  BY <1>2 DEF Block, Abstract!Slice

\* The test of a segment's range, on signed 32-bit words, and what is read there.
LEMMA SegmentRange ==
  ASSUME NEW segs, NEW dropped, NEW x, dropped[x] \in BOOLEAN,
         segs[x].len \in Nat, segs[x].len < U4 \div 2,
         NEW s \in 0 .. (U4 - 1), NEW n \in 0 .. (U4 - 1)
  PROVE  LET seg == Abstract!Segment(segs, dropped, x) IN
         /\ SegmentOk(SegLen(segs, dropped, x), Signed4(s), Signed4(n)) <=> Abstract!Fits(seg, s, n)
         /\ Abstract!Fits(seg, s, n) => /\ Signed4(s) = s /\ Signed4(n) = n /\ s + n <= segs[x].len
                                        /\ n = 0 \/ seg = segs[x]
<1> DEFINE len == SegLen(segs, dropped, x)
           seg == Abstract!Segment(segs, dropped, x)
<1>1. len \in Nat /\ len <= segs[x].len /\ seg.len = len /\ (seg = segs[x] \/ len = 0)
  BY DEF SegLen, Abstract!Segment
<1>2. Abstract!Fits(seg, s, n) <=> s + n <= len
  BY <1>1 DEF Abstract!Fits
<1> HIDE DEF len, seg
<1>3. U4 \in Nat /\ U4 \div 2 \in Nat
  BY StoreAssumption
<1>4. SegmentOk(len, Signed4(s), Signed4(n)) <=> s + n <= len
  <2>1. CASE s < U4 \div 2 /\ n < U4 \div 2
    BY <1>1, <1>3, <2>1 DEF SegmentOk, Signed4
  <2>2. CASE ~(s < U4 \div 2)
    BY <1>1, <1>3, <2>2 DEF SegmentOk, Signed4
  <2>3. CASE ~(n < U4 \div 2)
    BY <1>1, <1>3, <2>3 DEF SegmentOk, Signed4
  <2> QED
    BY <2>1, <2>2, <2>3
<1>5. s + n <= len => Signed4(s) = s /\ Signed4(n) = n /\ s + n <= segs[x].len /\ (n = 0 \/ seg = segs[x])
  BY <1>1, <1>3 DEF Signed4
<1> QED
  BY <1>2, <1>4, <1>5 DEF len, seg

\* Each operation on a memory: the same test, the same bytes written, the same answer.
LEMMA MemLoadRefines ==
  ASSUME OffsetsSmall, StoreInv, ContentsInv, MemLoad
  PROVE  Abstract!MemLoad
<1> DEFINE ea == call.d + call.o
           n == call.n
           m == call.m
           fits == Abstract!Fits(AbsMems[m], ea, n)
<1>1. m \in DOMAIN mems /\ Perform("load") /\ MemOperands(m, call) /\ call.op = "load"
  BY PerformMem DEF MemLoad
<1>2. ea \in 0 .. (U8 - 1) /\ n \in Nat /\ EffectiveAddr = ea
  <2>1. ea \in 0 .. (U8 - 1) /\ n \in Nat
    BY <1>1, StoreAssumption DEF MemOperands, OffsetsSmall
  <2> QED
    BY <2>1, WordSmall DEF EffectiveAddr
<1>3. RangeOk(mems[m].size, ea, n) <=> fits
  BY <1>1, <1>2, MemRange
<1>4. CASE ~fits /\ Fails(TrapResult)
  <2>1. Failure("load", TrapResult)
    BY <1>1, <1>4, FailsRefines
  <2> QED
    BY <1>4, <2>1 DEF Abstract!MemLoad, Failure, AbsMems, AbsMem, AbsTables, AbsTable, Perform, Abstract!Perform, NoCall,
         segments, Abstract!segments, Ok, Abstract!Ok, TrapResult, Abstract!TrapResult, Refused, Abstract!Refused
<1>5. CASE /\ fits /\ result' = Cells(Block(mems[m].cells, ea, n))
           /\ UNCHANGED <<todo, mems, tables, segments>>
  <2>1. Block(mems[m].cells, ea, n) = Abstract!Slice(AbsMems[m], ea, n)
    <3>1. ea + n <= mems[m].size
      BY <1>1, <1>2, <1>5, MemRange
    <3> HIDE DEF ea, n, m
    <3> QED
      BY <1>1, <1>2, <3>1, BlockIsSlice
  <2>2. result' = Abstract!Cells(Abstract!Slice(AbsMems[m], ea, n))
    BY <1>5, <2>1 DEF Cells, Abstract!Cells
  <2>3. AbsMems' = AbsMems /\ AbsTables' = AbsTables
    BY <1>5, AbsUnchanged
  <2> QED
    BY <1>1, <1>5, <2>2, <2>3 DEF Abstract!MemLoad, AbsMems, AbsMem, AbsTables, AbsTable, Perform, Abstract!Perform, NoCall,
         segments, Abstract!segments, Ok, Abstract!Ok, TrapResult, Abstract!TrapResult, Refused, Abstract!Refused
<1> QED
  BY <1>2, <1>3, <1>4, <1>5 DEF MemLoad

LEMMA MemStoreRefines ==
  ASSUME OffsetsSmall, StoreInv, ContentsInv, MemStore
  PROVE  Abstract!MemStore
<1> DEFINE m == call.m
           d == call.d + call.o
           n == call.n
           fits == Abstract!Fits(AbsMems[m], d, n)
           g == Array(n, call.v)
<1>1. m \in DOMAIN mems /\ Perform("store") /\ MemOperands(m, call) /\ call.op = "store"
  BY PerformMem DEF MemStore
<1>2. d \in 0 .. (U8 - 1) /\ n \in Nat /\ EffectiveAddr = d
  <2>1. d \in 0 .. (U8 - 1) /\ n \in Nat
    BY <1>1, StoreAssumption DEF MemOperands, OffsetsSmall
  <2> QED
    BY <2>1, WordSmall DEF EffectiveAddr
<1>3. RangeOk(mems[m].size, d, n) <=> fits
  BY <1>1, <1>2, MemRange
<1>4. (fits /\ PutMem(d, n, g)) \/ (~fits /\ Fails(TrapResult))
  BY <1>2, <1>3 DEF MemStore
<1>5. CASE fits /\ PutMem(d, n, g)
  <2>1. MemWrite("store", d, n, g)
    <3> HIDE DEF d, fits, g, n
    <3> QED
      BY <1>1, <1>2, <1>5, PutMemRefines
  <2> QED
    BY <1>2, <1>5, <2>1 DEF Abstract!MemStore, Abstract!WriteMem, MemWrite, Array, Abstract!Array,
         AbsMems, AbsMem, AbsTables, AbsTable, Perform, Abstract!Perform, NoCall,
         segments, Abstract!segments, Ok, Abstract!Ok, TrapResult, Abstract!TrapResult, Refused, Abstract!Refused
<1>6. CASE ~fits /\ Fails(TrapResult)
  <2>1. Failure("store", TrapResult)
    BY <1>1, <1>6, FailsRefines
  <2> QED
    BY <1>2, <1>6, <2>1 DEF Abstract!MemStore, Abstract!WriteMem, Failure,
         AbsMems, AbsMem, AbsTables, AbsTable, Perform, Abstract!Perform, NoCall,
         segments, Abstract!segments, Ok, Abstract!Ok, TrapResult, Abstract!TrapResult, Refused, Abstract!Refused
<1> QED
  BY <1>4, <1>5, <1>6

LEMMA MemFillRefines ==
  ASSUME StoreInv, ContentsInv, MemFill
  PROVE  Abstract!MemFill
<1> DEFINE m == call.m
           d == call.d
           n == call.n
           fits == Abstract!Fits(AbsMems[m], d, n)
           g == Array(n, call.v)
<1>1. m \in DOMAIN mems /\ Perform("memory_fill") /\ MemOperands(m, call) /\ call.op = "memory_fill"
  BY PerformMem DEF MemFill
<1>2. d \in 0 .. (U8 - 1) /\ n \in Nat
  BY <1>1, StoreAssumption DEF MemOperands
<1>3. RangeOk(mems[m].size, d, n) <=> fits
  BY <1>1, <1>2, MemRange
<1>4. (fits /\ PutMem(d, n, g)) \/ (~fits /\ Fails(TrapResult))
  BY <1>3 DEF MemFill
<1>5. CASE fits /\ PutMem(d, n, g)
  <2>1. MemWrite("memory_fill", d, n, g)
    <3> HIDE DEF d, fits, g, n
    <3> QED
      BY <1>1, <1>2, <1>5, PutMemRefines
  <2> QED
    BY <1>2, <1>5, <2>1 DEF Abstract!MemFill, Abstract!WriteMem, MemWrite, Array, Abstract!Array,
         AbsMems, AbsMem, AbsTables, AbsTable, Perform, Abstract!Perform, NoCall,
         segments, Abstract!segments, Ok, Abstract!Ok, TrapResult, Abstract!TrapResult, Refused, Abstract!Refused
<1>6. CASE ~fits /\ Fails(TrapResult)
  <2>1. Failure("memory_fill", TrapResult)
    BY <1>1, <1>6, FailsRefines
  <2> QED
    BY <1>2, <1>6, <2>1 DEF Abstract!MemFill, Abstract!WriteMem, Failure,
         AbsMems, AbsMem, AbsTables, AbsTable, Perform, Abstract!Perform, NoCall,
         segments, Abstract!segments, Ok, Abstract!Ok, TrapResult, Abstract!TrapResult, Refused, Abstract!Refused
<1> QED
  BY <1>4, <1>5, <1>6

LEMMA MemCopyRefines ==
  ASSUME StoreInv, ContentsInv, MemCopy
  PROVE  Abstract!MemCopy
<1> DEFINE m == call.m
           f == call.f
           d == call.d
           s == call.s
           n == call.n
           fits == Abstract!Fits(AbsMems[m], d, n) /\ Abstract!Fits(AbsMems[f], s, n)
           g == Block(mems[f].cells, s, n)
<1>1. m \in DOMAIN mems /\ Perform("memory_copy") /\ MemOperands(m, call) /\ call.op = "memory_copy"
  BY PerformMem DEF MemCopy
<1>2. /\ d \in 0 .. (U8 - 1) /\ n \in Nat
      /\ f \in DOMAIN mems /\ s \in 0 .. (U8 - 1) /\ s \in Nat
  BY <1>1, StoreAssumption DEF MemOperands
<1>3. /\ RangeOk(mems[m].size, d, n) <=> Abstract!Fits(AbsMems[m], d, n)
      /\ RangeOk(mems[f].size, s, n) <=> Abstract!Fits(AbsMems[f], s, n)
  BY <1>1, <1>2, MemRange
<1>4. (fits /\ PutMem(d, n, g)) \/ (~fits /\ Fails(TrapResult))
  BY <1>3 DEF MemCopy
<1>5. CASE fits /\ PutMem(d, n, g)
  <2>1. MemWrite("memory_copy", d, n, g)
    <3> HIDE DEF d, fits, g, n
    <3> QED
      BY <1>1, <1>2, <1>5, PutMemRefines
  <2>2. g = Abstract!Slice(AbsMems[f], s, n)
    <3>1. s + n <= mems[f].size
      BY <1>2, <1>5, MemRange
    <3> HIDE DEF f, s, n
    <3> QED
      BY <1>2, <3>1, BlockIsSlice
  <2> QED
    BY <1>2, <1>5, <2>1, <2>2 DEF Abstract!MemCopy, Abstract!WriteMem, MemWrite,
         AbsMems, AbsMem, AbsTables, AbsTable, Perform, Abstract!Perform, NoCall,
         segments, Abstract!segments, Ok, Abstract!Ok, TrapResult, Abstract!TrapResult, Refused, Abstract!Refused
<1>6. CASE ~fits /\ Fails(TrapResult)
  <2>1. Failure("memory_copy", TrapResult)
    BY <1>1, <1>6, FailsRefines
  <2> QED
    BY <1>2, <1>6, <2>1 DEF Abstract!MemCopy, Abstract!WriteMem, Failure,
         AbsMems, AbsMem, AbsTables, AbsTable, Perform, Abstract!Perform, NoCall,
         segments, Abstract!segments, Ok, Abstract!Ok, TrapResult, Abstract!TrapResult, Refused, Abstract!Refused
<1> QED
  BY <1>4, <1>5, <1>6

LEMMA MemInitRefines ==
  ASSUME StoreInv, ContentsInv, data_dropped \in [DOMAIN DataSegs -> BOOLEAN], MemInit
  PROVE  Abstract!MemInit
<1> DEFINE m == call.m
           x == call.x
           seg == Abstract!Segment(DataSegs, data_dropped, x)
           d == call.d
           s == call.s
           n == call.n
           fits == Abstract!Fits(AbsMems[m], d, n) /\ Abstract!Fits(seg, s, n)
           g == Block(DataSegs[x].cells, s, n)
<1>1. m \in DOMAIN mems /\ Perform("memory_init") /\ MemOperands(m, call) /\ call.op = "memory_init"
  BY PerformMem DEF MemInit
<1>2. d \in 0 .. (U8 - 1) /\ s \in 0 .. (U4 - 1) /\ n \in 0 .. (U4 - 1)
      /\ x \in DOMAIN DataSegs /\ s \in Nat /\ n \in Nat
  BY <1>1, StoreAssumption DEF MemOperands
<1>3. /\ SegmentOk(SegLen(DataSegs, data_dropped, x), Signed4(s), Signed4(n)) <=> Abstract!Fits(seg, s, n)
      /\ Abstract!Fits(seg, s, n) => /\ Signed4(s) = s /\ Signed4(n) = n /\ s + n <= DataSegs[x].len
                                     /\ n = 0 \/ seg = DataSegs[x]
  <2>1. DataSegs[x].len \in Nat /\ DataSegs[x].len < U4 \div 2 /\ data_dropped[x] \in BOOLEAN
    BY <1>2, StoreAssumption
  <2> HIDE DEF x, s, n
  <2> QED
    BY <1>2, <2>1, SegmentRange DEF x
<1>4. (fits /\ PutMem(d, n, g)) \/ (~fits /\ Fails(TrapResult))
  <2>1. RangeOk(mems[m].size, d, n) <=> Abstract!Fits(AbsMems[m], d, n)
    BY <1>1, <1>2, MemRange
  <2> QED
    BY <1>3, <2>1 DEF MemInit
<1>5. CASE fits /\ PutMem(d, n, g)
  <2>1. MemWrite("memory_init", d, n, g)
    <3> HIDE DEF d, fits, g, n
    <3> QED
      BY <1>1, <1>2, <1>5, PutMemRefines
  <2>2. g = Abstract!Slice(seg, s, n)
    <3>1. DataSegs[x].len \in Nat /\ DataSegs[x].cells \in [0 .. (DataSegs[x].len - 1) -> Byte]
      BY <1>2, StoreAssumption
    <3>2. s + n <= DataSegs[x].len /\ (n = 0 \/ seg = DataSegs[x])
      BY <1>3, <1>5
    <3> HIDE DEF x, s, n, seg
    <3>3. \A k \in 0 .. (n - 1) : At(DataSegs[x].cells, s + k, 0) = seg.cells[s + k]
      BY <1>2, <3>1, <3>2 DEF At
    <3> QED
      BY <3>3 DEF Block, Abstract!Slice, g
  <2> QED
    BY <1>2, <1>5, <2>1, <2>2 DEF Abstract!MemInit, Abstract!WriteMem, MemWrite,
         AbsMems, AbsMem, AbsTables, AbsTable, Perform, Abstract!Perform, NoCall,
         segments, Abstract!segments, Ok, Abstract!Ok, TrapResult, Abstract!TrapResult, Refused, Abstract!Refused
<1>6. CASE ~fits /\ Fails(TrapResult)
  <2>1. Failure("memory_init", TrapResult)
    BY <1>1, <1>6, FailsRefines
  <2> QED
    BY <1>2, <1>6, <2>1 DEF Abstract!MemInit, Abstract!WriteMem, Failure,
         AbsMems, AbsMem, AbsTables, AbsTable, Perform, Abstract!Perform, NoCall,
         segments, Abstract!segments, Ok, Abstract!Ok, TrapResult, Abstract!TrapResult, Refused, Abstract!Refused
<1> QED
  BY <1>4, <1>5, <1>6

LEMMA ActiveDataRefines ==
  ASSUME ActiveSmall, StoreInv, ContentsInv, ActiveData
  PROVE  Abstract!ActiveData
<1> DEFINE m == call.m
           seg == DataSegs[call.x]
           d == call.d
           n == seg.len
           fits == Abstract!Fits(AbsMems[m], d, n)
           g == seg.cells
<1>1. m \in DOMAIN mems /\ Perform("active_data") /\ MemOperands(m, call) /\ call.op = "active_data"
  BY PerformMem DEF ActiveData
<1>2. d \in Nat /\ n \in Nat /\ d + n < U8
  <2>1. call.x \in DOMAIN DataSegs /\ d \in ActiveAt
    BY <1>1 DEF MemOperands
  <2>2. d \in 0 .. (U8 - 1) /\ U8 \in Nat
    BY <2>1, StoreAssumption
  <2>3. d \in Nat
    BY <2>2
  <2> QED
    BY <2>1, <2>3, StoreAssumption DEF ActiveSmall
<1>3. RangeOkSum(mems[m].size, d, n) <=> fits
  <2>1. mems[m].size \in 0 .. (U8 - 1)
    BY <1>1, MemSize
  <2>2. fits <=> d + n <= mems[m].size
    BY <1>1 DEF Abstract!Fits, AbsMems, AbsMem
  <2> QED
    BY <1>2, <2>1, <2>2, RangeOkSumExact
<1>4. (fits /\ PutMem(d, n, g)) \/ (~fits /\ Fails(TrapResult))
  BY <1>3 DEF ActiveData
<1>5. CASE fits /\ PutMem(d, n, g)
  <2>1. MemWrite("active_data", d, n, g)
    <3> HIDE DEF d, fits, g, n
    <3> QED
      BY <1>1, <1>2, <1>5, PutMemRefines
  <2> QED
    BY <1>2, <1>5, <2>1 DEF Abstract!ActiveData, Abstract!WriteMem, MemWrite,
         AbsMems, AbsMem, AbsTables, AbsTable, Perform, Abstract!Perform, NoCall,
         segments, Abstract!segments, Ok, Abstract!Ok, TrapResult, Abstract!TrapResult, Refused, Abstract!Refused
<1>6. CASE ~fits /\ Fails(TrapResult)
  <2>1. Failure("active_data", TrapResult)
    BY <1>1, <1>6, FailsRefines
  <2> QED
    BY <1>2, <1>6, <2>1 DEF Abstract!ActiveData, Abstract!WriteMem, Failure,
         AbsMems, AbsMem, AbsTables, AbsTable, Perform, Abstract!Perform, NoCall,
         segments, Abstract!segments, Ok, Abstract!Ok, TrapResult, Abstract!TrapResult, Refused, Abstract!Refused
<1> QED
  BY <1>4, <1>5, <1>6

LEMMA HostMemWriteRefines ==
  ASSUME StoreInv, ContentsInv, HostMemWrite
  PROVE  Abstract!HostMemWrite
<1> DEFINE m == call.m
           d == call.d
           fits == Abstract!Fits(AbsMems[m], d, 1)
           g == Array(1, call.v)
<1>1. m \in DOMAIN mems /\ Perform("wasm_memory_write") /\ MemOperands(m, call) /\ call.op = "wasm_memory_write"
  BY PerformMem DEF HostMemWrite
<1>2. d \in Nat
  BY <1>1, StoreAssumption DEF MemOperands
<1>3. d < mems[m].size <=> fits
  <2>1. mems[m].size \in Nat
    BY <1>1, MemSize, StoreAssumption
  <2>2. fits <=> d + 1 <= mems[m].size
    BY <1>1 DEF Abstract!Fits, AbsMems, AbsMem
  <2> QED
    BY <1>2, <2>1, <2>2
<1>4. (fits /\ PutMem(d, 1, g)) \/ (~fits /\ Fails(Refused))
  <2>1. mems[m].size \in Nat
    BY <1>1, MemSize, StoreAssumption
  <2> QED
    BY <1>2, <1>3, <2>1 DEF HostMemWrite
<1>5. CASE fits /\ PutMem(d, 1, g)
  <2>1. MemWrite("wasm_memory_write", d, 1, g)
    <3> HIDE DEF d, fits, g
    <3> QED
      BY <1>1, <1>2, <1>5, PutMemRefines
  <2> QED
    BY <1>2, <1>5, <2>1 DEF Abstract!HostMemWrite, Abstract!WriteMem, MemWrite, Array, Abstract!Array,
         AbsMems, AbsMem, AbsTables, AbsTable, Perform, Abstract!Perform, NoCall,
         segments, Abstract!segments, Ok, Abstract!Ok, TrapResult, Abstract!TrapResult, Refused, Abstract!Refused
<1>6. CASE ~fits /\ Fails(Refused)
  <2>1. Failure("wasm_memory_write", Refused)
    BY <1>1, <1>6, FailsRefines
  <2> QED
    BY <1>2, <1>6, <2>1 DEF Abstract!HostMemWrite, Abstract!WriteMem, Failure,
         AbsMems, AbsMem, AbsTables, AbsTable, Perform, Abstract!Perform, NoCall,
         segments, Abstract!segments, Ok, Abstract!Ok, TrapResult, Abstract!TrapResult, Refused, Abstract!Refused
<1> QED
  BY <1>4, <1>5, <1>6

\* Each operation on a table.
LEMMA TableGetRefines ==
  ASSUME StoreInv, ContentsInv, TableGet
  PROVE  Abstract!TableGet
<1> DEFINE d == call.d
           t == call.t
           fits == Abstract!Fits(AbsTables[t], d, 1)
<1>1. t \in DOMAIN tables /\ Perform("table_get") /\ TableOperands(t, call) /\ call.op = "table_get"
  BY PerformTable DEF TableGet
<1>2. d \in 0 .. (U8 - 1) /\ d \in Nat /\ tables[t].len \in Nat
      /\ tables[t].cells \in [0 .. (tables[t].len - 1) -> Slot]
  BY <1>1, ContentsTyped, StoreAssumption DEF TableOperands
<1>3. d < tables[t].len <=> fits
  <2>1. fits <=> d + 1 <= tables[t].len
    BY <1>1, <1>2, TableRange
  <2> QED
    BY <1>2, <2>1
<1>4. CASE ~fits /\ Fails(TrapResult)
  <2>1. Failure("table_get", TrapResult)
    BY <1>1, <1>4, FailsRefines
  <2> QED
    BY <1>4, <2>1 DEF Abstract!TableGet, Failure, AbsMems, AbsMem, AbsTables, AbsTable, Perform, Abstract!Perform, NoCall,
         segments, Abstract!segments, Ok, Abstract!Ok, TrapResult, Abstract!TrapResult, Refused, Abstract!Refused
<1>5. CASE /\ fits /\ result' = Cells(Array(1, tables[t].cells[d].ref))
           /\ UNCHANGED <<todo, mems, tables, segments>>
  <2>1. Array(1, tables[t].cells[d].ref) = Abstract!Slice(AbsTables[t], d, 1)
    <3>1. d \in DOMAIN tables[t].cells
      BY <1>2, <1>3, <1>5
    <3>2. \A k \in 0 .. (1 - 1) : tables[t].cells[d].ref = AbsTables[t].cells[d + k]
      BY <1>1, <1>2, <3>1 DEF AbsTables, AbsTable
    <3> HIDE DEF d, t
    <3> QED
      BY <3>2 DEF Array, Abstract!Slice
  <2>2. result' = Abstract!Cells(Abstract!Slice(AbsTables[t], d, 1))
    BY <1>5, <2>1 DEF Cells, Abstract!Cells
  <2>3. AbsMems' = AbsMems /\ AbsTables' = AbsTables
    BY <1>5, AbsUnchanged
  <2> QED
    BY <1>1, <1>5, <2>2, <2>3 DEF Abstract!TableGet, AbsMems, AbsMem, AbsTables, AbsTable, Perform, Abstract!Perform, NoCall,
         segments, Abstract!segments, Ok, Abstract!Ok, TrapResult, Abstract!TrapResult, Refused, Abstract!Refused
<1> QED
  BY <1>2, <1>3, <1>4, <1>5 DEF TableGet

LEMMA TableSetRefines ==
  ASSUME StoreInv, ContentsInv, TableSet
  PROVE  Abstract!TableSet
<1> DEFINE t == call.t
           d == call.d
           v == call.v
           fits == Abstract!Fits(AbsTables[t], d, 1)
           g == Array(1, Cell(v))
           w == Array(1, v)
<1>1. t \in DOMAIN tables /\ Perform("table_set") /\ TableOperands(t, call) /\ call.op = "table_set"
  BY PerformTable DEF TableSet
<1>2. d \in 0 .. (U8 - 1) /\ d \in Nat /\ v \in Ref /\ tables[t].len \in Nat
  BY <1>1, TableLen, StoreAssumption DEF TableOperands
<1>3. d < tables[t].len <=> fits
  <2>1. fits <=> d + 1 <= tables[t].len
    BY <1>1, <1>2, TableRange
  <2> QED
    BY <1>2, <2>1
<1>4. (fits /\ PutTable(d, 1, g)) \/ (~fits /\ Fails(TrapResult))
  BY <1>2, <1>3 DEF TableSet
<1>5. CASE fits /\ PutTable(d, 1, g)
  <2>0. fits => \A k \in 0 .. (1 - 1) : w[k] = g[k].ref
    BY <1>2, CellIsSlot DEF Array
  <2>1. TableWrite("table_set", d, 1, w)
    <3> HIDE DEF d, fits, g, w
    <3> QED
      BY <1>1, <1>2, <1>5, <2>0, PutTableRefines
  <2> QED
    BY <1>2, <1>5, <2>1 DEF Abstract!TableSet, Abstract!WriteTable, TableWrite, Array, Abstract!Array,
         AbsMems, AbsMem, AbsTables, AbsTable, Perform, Abstract!Perform, NoCall,
         segments, Abstract!segments, Ok, Abstract!Ok, TrapResult, Abstract!TrapResult, Refused, Abstract!Refused
<1>6. CASE ~fits /\ Fails(TrapResult)
  <2>1. Failure("table_set", TrapResult)
    BY <1>1, <1>6, FailsRefines
  <2> QED
    BY <1>2, <1>6, <2>1 DEF Abstract!TableSet, Abstract!WriteTable, Failure,
         AbsMems, AbsMem, AbsTables, AbsTable, Perform, Abstract!Perform, NoCall,
         segments, Abstract!segments, Ok, Abstract!Ok, TrapResult, Abstract!TrapResult, Refused, Abstract!Refused
<1> QED
  BY <1>4, <1>5, <1>6

LEMMA HostTableWriteRefines ==
  ASSUME StoreInv, ContentsInv, HostTableWrite
  PROVE  Abstract!HostTableWrite
<1> DEFINE t == call.t
           d == call.d
           v == call.v
           fits == Abstract!Fits(AbsTables[t], d, 1)
           g == Array(1, Cell(v))
           w == Array(1, v)
<1>1. t \in DOMAIN tables /\ Perform("wasm_table_set") /\ TableOperands(t, call) /\ call.op = "wasm_table_set"
  BY PerformTable DEF HostTableWrite
<1>2. d \in 0 .. (U8 - 1) /\ d \in Nat /\ v \in Ref /\ tables[t].len \in Nat
  BY <1>1, TableLen, StoreAssumption DEF TableOperands
<1>3. d < tables[t].len <=> fits
  <2>1. fits <=> d + 1 <= tables[t].len
    BY <1>1, <1>2, TableRange
  <2> QED
    BY <1>2, <2>1
<1>4. (fits /\ PutTable(d, 1, g)) \/ (~fits /\ Fails(Refused))
  BY <1>2, <1>3 DEF HostTableWrite
<1>5. CASE fits /\ PutTable(d, 1, g)
  <2>0. fits => \A k \in 0 .. (1 - 1) : w[k] = g[k].ref
    BY <1>2, CellIsSlot DEF Array
  <2>1. TableWrite("wasm_table_set", d, 1, w)
    <3> HIDE DEF d, fits, g, w
    <3> QED
      BY <1>1, <1>2, <1>5, <2>0, PutTableRefines
  <2> QED
    BY <1>2, <1>5, <2>1 DEF Abstract!HostTableWrite, Abstract!WriteTable, TableWrite, Array, Abstract!Array,
         AbsMems, AbsMem, AbsTables, AbsTable, Perform, Abstract!Perform, NoCall,
         segments, Abstract!segments, Ok, Abstract!Ok, TrapResult, Abstract!TrapResult, Refused, Abstract!Refused
<1>6. CASE ~fits /\ Fails(Refused)
  <2>1. Failure("wasm_table_set", Refused)
    BY <1>1, <1>6, FailsRefines
  <2> QED
    BY <1>2, <1>6, <2>1 DEF Abstract!HostTableWrite, Abstract!WriteTable, Failure,
         AbsMems, AbsMem, AbsTables, AbsTable, Perform, Abstract!Perform, NoCall,
         segments, Abstract!segments, Ok, Abstract!Ok, TrapResult, Abstract!TrapResult, Refused, Abstract!Refused
<1> QED
  BY <1>4, <1>5, <1>6

LEMMA TableFillRefines ==
  ASSUME StoreInv, ContentsInv, TableFill
  PROVE  Abstract!TableFill
<1> DEFINE t == call.t
           d == call.d
           n == call.n
           v == call.v
           fits == Abstract!Fits(AbsTables[t], d, n)
           g == Array(n, Cell(v))
           w == Array(n, v)
<1>1. t \in DOMAIN tables /\ Perform("table_fill") /\ TableOperands(t, call) /\ call.op = "table_fill"
  BY PerformTable DEF TableFill
<1>2. d \in 0 .. (U8 - 1) /\ d \in Nat /\ n \in Nat /\ v \in Ref
  BY <1>1, StoreAssumption DEF TableOperands
<1>3. RangeOk(tables[t].len, d, n) <=> fits
  BY <1>1, <1>2, TableRange
<1>4. (fits /\ PutTable(d, n, g)) \/ (~fits /\ Fails(TrapResult))
  BY <1>3 DEF TableFill
<1>5. CASE fits /\ PutTable(d, n, g)
  <2>0. fits => \A k \in 0 .. (n - 1) : w[k] = g[k].ref
    BY <1>2, CellIsSlot DEF Array
  <2>1. TableWrite("table_fill", d, n, w)
    <3> HIDE DEF d, fits, g, n, w
    <3> QED
      BY <1>1, <1>2, <1>5, <2>0, PutTableRefines
  <2> QED
    BY <1>2, <1>5, <2>1 DEF Abstract!TableFill, Abstract!WriteTable, TableWrite, Array, Abstract!Array,
         AbsMems, AbsMem, AbsTables, AbsTable, Perform, Abstract!Perform, NoCall,
         segments, Abstract!segments, Ok, Abstract!Ok, TrapResult, Abstract!TrapResult, Refused, Abstract!Refused
<1>6. CASE ~fits /\ Fails(TrapResult)
  <2>1. Failure("table_fill", TrapResult)
    BY <1>1, <1>6, FailsRefines
  <2> QED
    BY <1>2, <1>6, <2>1 DEF Abstract!TableFill, Abstract!WriteTable, Failure,
         AbsMems, AbsMem, AbsTables, AbsTable, Perform, Abstract!Perform, NoCall,
         segments, Abstract!segments, Ok, Abstract!Ok, TrapResult, Abstract!TrapResult, Refused, Abstract!Refused
<1> QED
  BY <1>4, <1>5, <1>6

LEMMA TableInitRefines ==
  ASSUME StoreInv, ContentsInv, elem_dropped \in [DOMAIN ElemSegs -> BOOLEAN], TableInit
  PROVE  Abstract!TableInit
<1> DEFINE t == call.t
           x == call.x
           seg == Abstract!Segment(ElemSegs, elem_dropped, x)
           d == call.d
           s == call.s
           n == call.n
           fits == Abstract!Fits(AbsTables[t], d, n) /\ Abstract!Fits(seg, s, n)
           g == Items(x, s, n)
           w == Abstract!Slice(seg, s, n)
<1>1. t \in DOMAIN tables /\ Perform("table_init") /\ TableOperands(t, call) /\ call.op = "table_init"
  BY PerformTable DEF TableInit
<1>2. d \in 0 .. (U8 - 1) /\ d \in Nat /\ s \in 0 .. (U4 - 1) /\ n \in 0 .. (U4 - 1)
      /\ x \in DOMAIN ElemSegs /\ s \in Nat /\ n \in Nat
  BY <1>1, StoreAssumption DEF TableOperands
<1>3. /\ SegmentOk(SegLen(ElemSegs, elem_dropped, x), Signed4(s), Signed4(n)) <=> Abstract!Fits(seg, s, n)
      /\ Abstract!Fits(seg, s, n) => /\ Signed4(s) = s /\ Signed4(n) = n /\ s + n <= ElemSegs[x].len
                                     /\ n = 0 \/ seg = ElemSegs[x]
  <2>1. ElemSegs[x].len \in Nat /\ ElemSegs[x].len < U4 \div 2 /\ elem_dropped[x] \in BOOLEAN
    BY <1>2, StoreAssumption
  <2> HIDE DEF x, s, n
  <2> QED
    BY <1>2, <2>1, SegmentRange DEF x
<1>4. (fits /\ PutTable(d, n, g)) \/ (~fits /\ Fails(TrapResult))
  <2>1. RangeOk(tables[t].len, d, n) <=> Abstract!Fits(AbsTables[t], d, n)
    BY <1>1, <1>2, TableRange
  <2> QED
    BY <1>3, <2>1 DEF TableInit
<1>5. CASE fits /\ PutTable(d, n, g)
  <2>0. fits => \A k \in 0 .. (n - 1) : w[k] = g[k].ref
    <3>1. SUFFICES ASSUME fits, NEW k \in 0 .. (n - 1) PROVE w[k] = g[k].ref
      OBVIOUS
    <3>2. s + n <= ElemSegs[x].len /\ seg = ElemSegs[x]
      BY <1>2, <1>3, <3>1
    <3>3. ElemSegs[x].len \in Nat /\ ElemSegs[x].cells \in [0 .. (ElemSegs[x].len - 1) -> Ref]
      BY <1>2, StoreAssumption
    <3>4. ElemSegs[x].cells[s + k] \in Ref
      <4>1. s + k \in 0 .. (ElemSegs[x].len - 1)
        BY <1>2, <3>2, <3>3
      <4> QED
        BY <3>3, <4>1
    <3>5. w[k] = ElemSegs[x].cells[s + k] /\ g[k] = Cell(ElemSegs[x].cells[s + k])
      BY <3>2 DEF Items, Abstract!Slice
    <3> QED
      BY <3>4, <3>5, CellIsSlot
  <2>1. TableWrite("table_init", d, n, w)
    <3> HIDE DEF d, fits, g, n, w
    <3> QED
      BY <1>1, <1>2, <1>5, <2>0, PutTableRefines
  <2> QED
    BY <1>2, <1>5, <2>1 DEF Abstract!TableInit, Abstract!WriteTable, TableWrite,
         AbsMems, AbsMem, AbsTables, AbsTable, Perform, Abstract!Perform, NoCall,
         segments, Abstract!segments, Ok, Abstract!Ok, TrapResult, Abstract!TrapResult, Refused, Abstract!Refused
<1>6. CASE ~fits /\ Fails(TrapResult)
  <2>1. Failure("table_init", TrapResult)
    BY <1>1, <1>6, FailsRefines
  <2> QED
    BY <1>2, <1>6, <2>1 DEF Abstract!TableInit, Abstract!WriteTable, Failure,
         AbsMems, AbsMem, AbsTables, AbsTable, Perform, Abstract!Perform, NoCall,
         segments, Abstract!segments, Ok, Abstract!Ok, TrapResult, Abstract!TrapResult, Refused, Abstract!Refused
<1> QED
  BY <1>4, <1>5, <1>6

LEMMA ActiveElemRefines ==
  ASSUME StoreInv, ContentsInv, ActiveElem
  PROVE  Abstract!ActiveElem
<1> DEFINE t == call.t
           x == call.x
           seg == ElemSegs[x]
           d == call.d
           n == seg.len
           fits == Abstract!Fits(AbsTables[t], d, n)
           g == Items(x, 0, n)
           w == seg.cells
<1>1. t \in DOMAIN tables /\ Perform("active_elem") /\ TableOperands(t, call) /\ call.op = "active_elem"
  BY PerformTable DEF ActiveElem
<1>2. d \in 0 .. (U8 - 1) /\ d \in Nat /\ n \in Nat /\ x \in DOMAIN ElemSegs
  BY <1>1, StoreAssumption DEF TableOperands
<1>3. RangeOk(tables[t].len, d, n) <=> fits
  BY <1>1, <1>2, TableRange
<1>4. (fits /\ PutTable(d, n, g)) \/ (~fits /\ Fails(TrapResult))
  BY <1>3 DEF ActiveElem
<1>5. CASE fits /\ PutTable(d, n, g)
  <2>0. fits => \A k \in 0 .. (n - 1) : w[k] = g[k].ref
    <3>1. SUFFICES ASSUME NEW k \in 0 .. (n - 1) PROVE w[k] = g[k].ref
      OBVIOUS
    <3>2. seg.cells \in [0 .. (n - 1) -> Ref] /\ 0 + k = k
      BY <1>2, StoreAssumption
    <3>3. w[k] \in Ref
      BY <3>2
    <3>4. g[k] = Cell(w[k])
      BY <3>2 DEF Items
    <3> QED
      BY <3>3, <3>4, CellIsSlot
  <2>1. TableWrite("active_elem", d, n, w)
    <3> HIDE DEF d, fits, g, n, w
    <3> QED
      BY <1>1, <1>2, <1>5, <2>0, PutTableRefines
  <2> QED
    BY <1>2, <1>5, <2>1 DEF Abstract!ActiveElem, Abstract!WriteTable, TableWrite,
         AbsMems, AbsMem, AbsTables, AbsTable, Perform, Abstract!Perform, NoCall,
         segments, Abstract!segments, Ok, Abstract!Ok, TrapResult, Abstract!TrapResult, Refused, Abstract!Refused
<1>6. CASE ~fits /\ Fails(TrapResult)
  <2>1. Failure("active_elem", TrapResult)
    BY <1>1, <1>6, FailsRefines
  <2> QED
    BY <1>2, <1>6, <2>1 DEF Abstract!ActiveElem, Abstract!WriteTable, Failure,
         AbsMems, AbsMem, AbsTables, AbsTable, Perform, Abstract!Perform, NoCall,
         segments, Abstract!segments, Ok, Abstract!Ok, TrapResult, Abstract!TrapResult, Refused, Abstract!Refused
<1> QED
  BY <1>4, <1>5, <1>6

LEMMA TableCopyRefines ==
  ASSUME StoreInv, ContentsInv, TableCopy
  PROVE  Abstract!TableCopy
<1> DEFINE t == call.t
           f == call.f
           d == call.d
           s == call.s
           n == call.n
           fits == Abstract!Fits(AbsTables[t], d, n) /\ Abstract!Fits(AbsTables[f], s, n)
           g == [k \in 0 .. (n - 1) |-> tables[f].cells[s + k]]
           w == Abstract!Slice(AbsTables[f], s, n)
<1>1. t \in DOMAIN tables /\ Perform("table_copy") /\ TableOperands(t, call) /\ call.op = "table_copy"
  BY PerformTable DEF TableCopy
<1>2. /\ d \in 0 .. (U8 - 1) /\ d \in Nat /\ n \in Nat
      /\ f \in DOMAIN tables /\ s \in 0 .. (U8 - 1) /\ s \in Nat
  BY <1>1, StoreAssumption DEF TableOperands
<1>3. /\ RangeOk(tables[t].len, d, n) <=> Abstract!Fits(AbsTables[t], d, n)
      /\ RangeOk(tables[f].len, s, n) <=> Abstract!Fits(AbsTables[f], s, n)
  BY <1>1, <1>2, TableRange
<1>4. CASE ~fits /\ Fails(TrapResult)
  <2>1. Failure("table_copy", TrapResult)
    BY <1>1, <1>4, FailsRefines
  <2> QED
    BY <1>4, <2>1 DEF Abstract!TableCopy, Abstract!WriteTable, Failure, AbsMems, AbsMem, AbsTables, AbsTable, Perform, Abstract!Perform, NoCall,
         segments, Abstract!segments, Ok, Abstract!Ok, TrapResult, Abstract!TrapResult, Refused, Abstract!Refused
<1>5. CASE /\ fits /\ tables' = [tables EXCEPT ![t].cells = CopiedTable(t, f, d, s, n)]
           /\ result' = Ok /\ UNCHANGED <<todo, mems, segments>>
  <2>1. s + n <= tables[f].len
    BY <1>2, <1>5, TableRange
  <2>2. CopiedTable(t, f, d, s, n) = Put(tables[t].cells, d, n, g)
    <3>1. \A k \in 0 .. (n - 1) : g[k] = tables[f].cells[s + k]
      OBVIOUS
    <3> HIDE DEF t, f, d, s, n, g
    <3> QED
      BY <1>1, <1>2, <2>1, <3>1, CopiedTableExact
  <2>3. \A k \in 0 .. (n - 1) : w[k] = g[k].ref
    <3> SUFFICES ASSUME NEW k \in 0 .. (n - 1) PROVE w[k] = g[k].ref
      OBVIOUS
    <3>1. tables[f].len \in Nat /\ tables[f].cells \in [0 .. (tables[f].len - 1) -> Slot]
      BY <1>2, ContentsTyped
    <3>2. s + k \in DOMAIN tables[f].cells
      BY <1>2, <2>1, <3>1
    <3>3. AbsTables[f].cells[s + k] = tables[f].cells[s + k].ref
      BY <1>2, <3>2 DEF AbsTables, AbsTable
    <3>4. w[k] = AbsTables[f].cells[s + k]
      BY DEF Abstract!Slice
    <3> QED
      BY <3>3, <3>4
  <2>4. TableWrite("table_copy", d, n, w)
    <3>1. tables' = [tables EXCEPT ![t].cells = Put(@, d, n, g)]
      BY <1>5, <2>2
    <3> HIDE DEF fits, d, n, g, w
    <3> QED
      BY <1>1, <1>2, <1>5, <2>3, <3>1, TableCellsRefine
  <2> QED
    BY <1>5, <2>4 DEF Abstract!TableCopy, Abstract!WriteTable, TableWrite, AbsMems, AbsMem, AbsTables, AbsTable, Perform, Abstract!Perform, NoCall,
         segments, Abstract!segments, Ok, Abstract!Ok, TrapResult, Abstract!TrapResult, Refused, Abstract!Refused
<1> QED
  BY <1>3, <1>4, <1>5 DEF TableCopy

\* Growth of whole pages, and of slots.
LEMMA MemGrowRefines ==
  ASSUME StoreInv, ContentsInv, MemGrow
  PROVE  Abstract!MemGrow
<1> DEFINE m == mems[call.m]
           n == call.n
           newpages == Word(m.size \div PageSize + Signed(n))
           newsize == Word(newpages * PageSize)
           g == Extended(m.cells, m.size, newsize - m.size, 0)
           e == [m EXCEPT !.size = newsize, !.cells = g]
<1>1. call.m \in DOMAIN mems /\ Perform("memory_grow") /\ MemOperands(call.m, call) /\ call.op = "memory_grow"
  BY PerformMem DEF MemGrow
<1>2. n \in 0 .. (U8 - 1) /\ n \in Nat
  BY <1>1, StoreAssumption DEF MemOperands
<1>3. CASE Fails(Refused)
  <2>1. Failure("memory_grow", Refused)
    BY <1>1, <1>3, FailsRefines
  <2> QED
    BY <2>1 DEF Abstract!MemGrow, Failure, AbsMems, AbsMem, AbsTables, AbsTable, Perform, Abstract!Perform, NoCall,
         segments, Abstract!segments, Ok, Abstract!Ok, TrapResult, Abstract!TrapResult, Refused, Abstract!Refused
<1>4. CASE /\ Signed(n) >= 0
           /\ newpages <= PagesAllowed(m)
           /\ mems' = [mems EXCEPT ![call.m] = e]
           /\ result' = Size(m.size \div PageSize)
           /\ UNCHANGED <<todo, tables, segments>>
  <2>1. m \in MemShape
    BY <1>1, ExceptShape DEF ContentsInv
  <2>2. m.size \in Nat /\ PageSize \in Nat /\ m.cells \in [0 .. (m.size - 1) -> Byte]
        /\ DOMAIN m = {"size", "cells", "has_max", "max", "is64"} /\ PagesDeclared(m) \in Nat
    <3>1. m.size \in Nat /\ m.cells \in [0 .. (m.size - 1) -> Byte]
          /\ DOMAIN m = {"size", "cells", "has_max", "max", "is64"} /\ m.max \in Nat
      BY <2>1, MemParts
    <3>2. U8 \div PageSize \in Nat /\ U4 \div PageSize \in Nat
      BY StoreAssumption
    <3> QED
      BY <3>1, <3>2, StoreAssumption DEF PagesDeclared
  <2> HIDE DEF m, n
  <2>3. PICK p \in 0 .. JAV_MAX_MEMORY_PAGES :
          /\ m.size = p * PageSize /\ newpages = p + n /\ p + n \in 0 .. JAV_MAX_MEMORY_PAGES
          /\ p + n <= PagesDeclared(m)
    BY <1>2, <1>4, <2>1, GrownPages
  <2> HIDE DEF newpages
  <2>4. newsize = newpages * PageSize
    BY <2>3, PagesAreWord
  <2> HIDE DEF newsize
  <2>5. /\ p \in Nat /\ p * PageSize \in Nat /\ n * PageSize \in Nat
        /\ newsize = m.size + n * PageSize
        /\ newsize - m.size = n * PageSize
    <3>1. p \in Nat
      BY <2>3, StoreAssumption
    <3>2. (p + n) * PageSize = p * PageSize + n * PageSize
      BY <1>2, <2>2, <3>1
    <3>3. p * PageSize \in Nat /\ n * PageSize \in Nat
      BY <1>2, <2>2, <3>1
    <3> QED
      BY <2>3, <2>4, <3>1, <3>2, <3>3
  <2>6. m.size + n * PageSize <= PagesDeclared(m) * PageSize
    <3> DEFINE limit == PagesDeclared(m)
               k == limit - (p + n)
    <3>1. limit \in Nat /\ k \in Nat /\ limit = (p + n) + k
      BY <1>2, <2>2, <2>3, <2>5
    <3> HIDE DEF limit, k
    <3>2. limit * PageSize = p * PageSize + n * PageSize + k * PageSize
      BY <1>2, <2>2, <2>5, <3>1
    <3>3. k * PageSize \in Nat
      BY <2>2, <3>1
    <3> QED
      BY <2>3, <2>5, <3>2, <3>3 DEF limit
  <2>7. AbsMem(e) = Abstract!Extended(AbsMem(m), n * PageSize, 0)
    <3> DEFINE k == n * PageSize
    <3>1. g = [i \in 0 .. (m.size + k - 1) |-> IF i < m.size THEN m.cells[i] ELSE 0]
      BY <2>5 DEF Extended
    <3>2. e.size = m.size + k /\ e.cells = g /\ e.is64 = m.is64 /\ e.has_max = m.has_max /\ e.max = m.max
      <4> HIDE DEF g
      <4> QED
        BY <2>2, <2>5
    <3> HIDE DEF k, g
    <3>3. PagesDeclared(e) = PagesDeclared(m)
      BY <3>2 DEF PagesDeclared
    <3> HIDE DEF e
    <3>4. AbsMem(e) = [len |-> m.size + k, cells |-> g, is64 |-> m.is64, limit |-> PagesDeclared(m)]
      BY <3>2, <3>3 DEF AbsMem
    <3>5. Abstract!Extended(AbsMem(m), k, 0) = [AbsMem(m) EXCEPT !.len = @ + k, !.cells = g]
      BY <3>1 DEF Abstract!Extended, AbsMem
    <3>6. AbsMem(e) = Abstract!Extended(AbsMem(m), k, 0)
      BY <3>4, <3>5 DEF AbsMem
    <3> QED
      BY <3>6 DEF k
  <2> HIDE DEF e
  <2>8. AbsMems' = [AbsMems EXCEPT ![call.m] = AbsMem(e)]
    BY <1>1, <1>4, MemReplaced
  <2>9. AbsTables' = AbsTables
    BY <1>4, AbsUnchanged
  <2>10. AbsMems[call.m] = AbsMem(m) /\ AbsMem(m).len = m.size /\ AbsMem(m).limit = PagesDeclared(m)
    BY <1>1 DEF AbsMems, AbsMem, m
  <2>11. result' = Abstract!Size(AbsMem(m).len \div PageSize)
    BY <1>4, <2>10 DEF Size, Abstract!Size
  <2>12. Perform("memory_grow")
         /\ AbsMems[call.m].len + call.n * PageSize <= AbsMems[call.m].limit * PageSize
         /\ AbsMems' = [AbsMems EXCEPT ![call.m] = Abstract!Extended(AbsMems[call.m], call.n * PageSize, 0)]
         /\ result' = Abstract!Size(AbsMems[call.m].len \div PageSize)
         /\ UNCHANGED <<todo, AbsTables, segments>>
    BY <1>1, <1>4, <2>6, <2>7, <2>8, <2>9, <2>10, <2>11 DEF n
  <2> QED
    BY <2>12 DEF Abstract!MemGrow, AbsMems, AbsMem, AbsTables, AbsTable, Perform, Abstract!Perform, NoCall,
         segments, Abstract!segments, Ok, Abstract!Ok, TrapResult, Abstract!TrapResult, Refused, Abstract!Refused
<1> QED
  BY <1>3, <1>4 DEF MemGrow

LEMMA TableGrowRefines ==
  ASSUME HostGrowthSmall, StoreInv, ContentsInv, TableGrow
  PROVE  Abstract!TableGrow
<1> DEFINE t == tables[call.t]
           n == call.n
           g == Extended(t.cells, t.len, n, Cell(call.v))
           e == [t EXCEPT !.len = @ + n, !.cells = g]
<1>1. call.t \in DOMAIN tables /\ Perform("table_grow") /\ TableOperands(call.t, call) /\ call.op = "table_grow"
  BY PerformTable DEF TableGrow
<1>2. n \in 0 .. (U8 - 1) /\ n \in Nat /\ call.v \in Ref
  BY <1>1, StoreAssumption DEF TableOperands
<1>3. CASE Fails(Refused)
  <2>1. Failure("table_grow", Refused)
    BY <1>1, <1>3, FailsRefines
  <2> QED
    BY <2>1 DEF Abstract!TableGrow, Failure, AbsMems, AbsMem, AbsTables, AbsTable, Perform, Abstract!Perform, NoCall,
         segments, Abstract!segments, Ok, Abstract!Ok, TrapResult, Abstract!TrapResult, Refused, Abstract!Refused
<1>4. CASE /\ call.host \/ Signed(n) >= 0
           /\ Word(t.len + n) <= SlotsAllowed(t)
           /\ tables' = [tables EXCEPT ![call.t] = e]
           /\ result' = Size(t.len)
           /\ UNCHANGED <<todo, mems, segments>>
  <2>1. t \in TableShape
    BY <1>1, ExceptShape DEF ContentsInv
  <2>2. t.len \in Nat /\ t.cells \in [0 .. (t.len - 1) -> Slot] /\ SlotsDeclared(t) \in Int
        /\ DOMAIN t = {"len", "cells", "has_max", "max", "is64"} /\ t.len <= JAV_MAX_TABLE_ELEMS
    <3>1. t.len \in Nat /\ t.cells \in [0 .. (t.len - 1) -> Slot] /\ t.max \in Nat
          /\ DOMAIN t = {"len", "cells", "has_max", "max", "is64"}
      BY <2>1, TableParts
    <3>2. t.len <= JAV_MAX_TABLE_ELEMS
      BY <1>1, StoreAssumption DEF StoreInv, Sized, Bounded
    <3> QED
      BY <3>1, <3>2, StoreAssumption DEF SlotsDeclared
  <2>3. t.len + n <= SlotsDeclared(t)
    <3>1. t.len + n < U8
      <4>1. CASE call.host
        BY <1>1, <2>2, <4>1, StoreAssumption DEF TableOperands, HostGrowthSmall
      <4>2. CASE Signed(n) >= 0
        <5>1. n < U8 \div 2
          BY <1>2, <4>2, StoreAssumption DEF Signed
        <5>2. U8 \div 2 \in Int /\ 2 * (U8 \div 2) <= U8
          BY StoreAssumption
        <5> QED
          BY <1>2, <2>2, <5>1, <5>2, StoreAssumption
      <4> QED
        BY <1>4, <4>1, <4>2
    <3>2. Word(t.len + n) = t.len + n
      BY <1>2, <2>2, <3>1, WordSmall, StoreAssumption
    <3> QED
      BY <1>2, <1>4, <2>2, <3>2, StoreAssumption DEF SlotsAllowed
  <2> HIDE DEF t, n
  <2>4. AbsTable(e) = Abstract!Extended(AbsTable(t), n, call.v)
    <3> DEFINE w == [i \in 0 .. (t.len + n - 1) |-> IF i < t.len THEN t.cells[i].ref ELSE call.v]
    <3>1. g = [i \in 0 .. (t.len + n - 1) |-> IF i < t.len THEN t.cells[i] ELSE Cell(call.v)]
      BY DEF Extended
    <3> HIDE DEF g
    <3>2. e.len = t.len + n /\ e.cells = g /\ e.is64 = t.is64 /\ e.has_max = t.has_max /\ e.max = t.max
      BY <2>2
    <3>3. SlotsDeclared(e) = SlotsDeclared(t)
      BY <3>2 DEF SlotsDeclared
    <3> HIDE DEF e
    <3>4. [i \in DOMAIN g |-> g[i].ref] = w
      <4>1. DOMAIN g = 0 .. (t.len + n - 1)
        BY <3>1
      <4>2. \A i \in DOMAIN g : g[i].ref = IF i < t.len THEN t.cells[i].ref ELSE call.v
        BY <1>2, <3>1, CellIsSlot
      <4> QED
        BY <4>1, <4>2
    <3>5. AbsTable(e) = [len |-> t.len + n, is64 |-> t.is64, limit |-> SlotsDeclared(t), cells |-> w]
      <4> HIDE DEF w
      <4> QED
        BY <3>2, <3>3, <3>4 DEF AbsTable
    <3>6. [i \in 0 .. (AbsTable(t).len + n - 1) |->
             IF i < AbsTable(t).len THEN AbsTable(t).cells[i] ELSE call.v] = w
      <4>1. \A i \in 0 .. (t.len + n - 1) : i < t.len => i \in DOMAIN t.cells
        BY <2>2
      <4>2. \A i \in 0 .. (t.len + n - 1) : i < t.len => AbsTable(t).cells[i] = t.cells[i].ref
        BY <4>1 DEF AbsTable
      <4>3. AbsTable(t).len = t.len
        BY DEF AbsTable
      <4> QED
        BY <4>2, <4>3
    <3>7. Abstract!Extended(AbsTable(t), n, call.v) = [AbsTable(t) EXCEPT !.len = @ + n, !.cells = w]
      <4> HIDE DEF w
      <4> QED
        BY <3>6 DEF Abstract!Extended, AbsTable
    <3> HIDE DEF w
    <3> QED
      BY <3>5, <3>7 DEF AbsTable
  <2> HIDE DEF e
  <2>5. AbsTables' = [AbsTables EXCEPT ![call.t] = AbsTable(e)]
    BY <1>1, <1>4, TableReplaced
  <2>6. AbsMems' = AbsMems
    BY <1>4, AbsUnchanged
  <2>7. AbsTables[call.t] = AbsTable(t) /\ AbsTable(t).len = t.len /\ AbsTable(t).limit = SlotsDeclared(t)
    BY <1>1 DEF AbsTables, AbsTable, t
  <2>8. result' = Abstract!Size(AbsTable(t).len)
    BY <1>4, <2>7 DEF Size, Abstract!Size
  <2>9. Perform("table_grow")
        /\ AbsTables[call.t].len + call.n <= AbsTables[call.t].limit
        /\ AbsTables' = [AbsTables EXCEPT ![call.t] = Abstract!Extended(AbsTables[call.t], call.n, call.v)]
        /\ result' = Abstract!Size(AbsTables[call.t].len)
        /\ UNCHANGED <<todo, AbsMems, segments>>
    BY <1>1, <1>4, <2>3, <2>4, <2>5, <2>6, <2>7, <2>8 DEF n
  <2> QED
    BY <2>9 DEF Abstract!TableGrow, AbsMems, AbsMem, AbsTables, AbsTable, Perform, Abstract!Perform, NoCall,
         segments, Abstract!segments, Ok, Abstract!Ok, TrapResult, Abstract!TrapResult, Refused, Abstract!Refused
<1> QED
  BY <1>3, <1>4 DEF TableGrow

LEMMA DropsRefine ==
  /\ DropData => Abstract!DropData
  /\ DropElem => Abstract!DropElem
<1>1. ASSUME DropData PROVE Abstract!DropData
  <2>1. AbsMems' = AbsMems /\ AbsTables' = AbsTables
    BY <1>1, AbsUnchanged DEF DropData
  <2> QED
    BY <1>1, <2>1 DEF DropData, Abstract!DropData, AbsMems, AbsMem, AbsTables, AbsTable, Perform, Abstract!Perform, NoCall,
         segments, Abstract!segments, Ok, Abstract!Ok, TrapResult, Abstract!TrapResult, Refused, Abstract!Refused
<1>2. ASSUME DropElem PROVE Abstract!DropElem
  <2>1. AbsMems' = AbsMems /\ AbsTables' = AbsTables
    BY <1>2, AbsUnchanged DEF DropElem
  <2> QED
    BY <1>2, <2>1 DEF DropElem, Abstract!DropElem, AbsMems, AbsMem, AbsTables, AbsTable, Perform, Abstract!Perform, NoCall,
         segments, Abstract!segments, Ok, Abstract!Ok, TrapResult, Abstract!TrapResult, Refused, Abstract!Refused
<1> QED
  BY <1>1, <1>2

LEMMA InvokeRefines == Invoke => Abstract!Invoke
<1> SUFFICES ASSUME Invoke PROVE Abstract!Invoke
  OBVIOUS
<1>1. call' # NoCall
  <2>1. PICK c \in Calls : c = call'
    BY DEF Invoke
  <2>2. c.op # "none"
    BY CallOperands DEF MemOperands, TableOperands
  <2> QED
    BY <2>1, <2>2 DEF NoCall
<1>2. AbsMems' = AbsMems /\ AbsTables' = AbsTables
  BY AbsUnchanged DEF Invoke
<1> QED
  BY <1>1, <1>2 DEF Invoke, Abstract!Invoke, Pending, Abstract!Pending, AbsMems, AbsMem, AbsTables, AbsTable, Perform, Abstract!Perform, NoCall,
         segments, Abstract!segments, Ok, Abstract!Ok, TrapResult, Abstract!TrapResult, Refused, Abstract!Refused

\* What is still to be allocated declares maxima that fit, and segments are dropped or not.
RefinesInv ==
  /\ StoreInv /\ ContentsInv
  /\ \A i \in DOMAIN todo : MaximumSmall(todo[i])
  /\ data_dropped \in [DOMAIN DataSegs -> BOOLEAN]
  /\ elem_dropped \in [DOMAIN ElemSegs -> BOOLEAN]

LEMMA AppendUnfolds ==
  ASSUME NEW S, NEW q \in Seq(S), NEW e
  PROVE  Append(q, e) = [i \in 1 .. (Len(q) + 1) |-> IF i = Len(q) + 1 THEN e ELSE q[i]]
<1> DEFINE T == S \cup {e}
           r == Append(q, e)
<1>1. q \in Seq(T) /\ e \in T
  BY SeqMonotonic
<1>2. r \in Seq(T) /\ Len(r) = Len(q) + 1 /\ (\A i \in 1 .. Len(q) : r[i] = q[i]) /\ r[Len(q) + 1] = e
  BY <1>1, AppendProperties
<1>3. Len(q) \in Nat /\ r \in [1 .. Len(r) -> T]
  BY <1>1, <1>2, LenProperties
<1> HIDE DEF r
<1>4. r = [i \in 1 .. (Len(q) + 1) |-> r[i]]
  BY <1>2, <1>3
<1>5. \A i \in 1 .. (Len(q) + 1) : r[i] = IF i = Len(q) + 1 THEN e ELSE q[i]
  BY <1>2, <1>3
<1>6. r = [i \in 1 .. (Len(q) + 1) |-> IF i = Len(q) + 1 THEN e ELSE q[i]]
  BY <1>4, <1>5
<1> QED
  BY <1>6 DEF r

LEMMA AppendMem ==
  ASSUME ContentsInv, NEW e, mems' = Append(mems, e)
  PROVE  AbsMems' = Append(AbsMems, AbsMem(e))
<1> DEFINE n == Len(mems)
<1>1. mems \in Seq(MemShape) /\ n \in Nat /\ DOMAIN mems = 1 .. n
  BY LenProperties DEF ContentsInv
<1>2. mems' = [i \in 1 .. (n + 1) |-> IF i = n + 1 THEN e ELSE mems[i]]
  BY <1>1, AppendUnfolds
<1> HIDE DEF n
<1>3. AbsMems' = [i \in DOMAIN mems' |-> AbsMem(mems'[i])]
  BY DEF AbsMems, AbsMem, PagesDeclared
<1>4. AbsMems' = [i \in 1 .. (n + 1) |-> AbsMem(IF i = n + 1 THEN e ELSE mems[i])]
  BY <1>2, <1>3
<1> DEFINE a == AbsMems
           x == AbsMem(e)
           S == {AbsMem(mems[i]) : i \in 1 .. n} \cup {x}
<1>5. a = [i \in 1 .. n |-> AbsMem(mems[i])]
  BY <1>1 DEF AbsMems
<1>6. a \in [1 .. n -> S] /\ x \in S
  <2> HIDE DEF x
  <2> QED
    BY <1>5
<1> HIDE DEF a, S
<1>7. a \in Seq(S) /\ Len(a) = n
  BY <1>1, <1>6
<1>8. Append(a, x) = [i \in 1 .. (n + 1) |-> IF i = n + 1 THEN x ELSE a[i]]
  <2> HIDE DEF x
  <2> QED
    BY <1>7, AppendUnfolds
<1>9. \A i \in 1 .. (n + 1) : i # n + 1 => a[i] = AbsMem(mems[i])
  <2>1. \A i \in 1 .. (n + 1) : i # n + 1 => i \in 1 .. n
    BY <1>1
  <2> QED
    BY <1>5, <2>1
<1>10. AbsMems' = Append(a, x)
  BY <1>4, <1>8, <1>9
<1> QED
  BY <1>10 DEF a

LEMMA AppendTable ==
  ASSUME ContentsInv, NEW e, tables' = Append(tables, e)
  PROVE  AbsTables' = Append(AbsTables, AbsTable(e))
<1> DEFINE n == Len(tables)
<1>1. tables \in Seq(TableShape) /\ n \in Nat /\ DOMAIN tables = 1 .. n
  BY LenProperties DEF ContentsInv
<1>2. tables' = [i \in 1 .. (n + 1) |-> IF i = n + 1 THEN e ELSE tables[i]]
  BY <1>1, AppendUnfolds
<1> HIDE DEF n
<1>3. AbsTables' = [i \in DOMAIN tables' |-> AbsTable(tables'[i])]
  BY DEF AbsTables, AbsTable, SlotsDeclared
<1>4. AbsTables' = [i \in 1 .. (n + 1) |-> AbsTable(IF i = n + 1 THEN e ELSE tables[i])]
  BY <1>2, <1>3
<1> DEFINE a == AbsTables
           x == AbsTable(e)
           S == {AbsTable(tables[i]) : i \in 1 .. n} \cup {x}
<1>5. a = [i \in 1 .. n |-> AbsTable(tables[i])]
  BY <1>1 DEF AbsTables
<1>6. a \in [1 .. n -> S] /\ x \in S
  <2> HIDE DEF x
  <2> QED
    BY <1>5
<1> HIDE DEF a, S
<1>7. a \in Seq(S) /\ Len(a) = n
  BY <1>1, <1>6
<1>8. Append(a, x) = [i \in 1 .. (n + 1) |-> IF i = n + 1 THEN x ELSE a[i]]
  <2> HIDE DEF x
  <2> QED
    BY <1>7, AppendUnfolds
<1>9. \A i \in 1 .. (n + 1) : i # n + 1 => a[i] = AbsTable(tables[i])
  <2>1. \A i \in 1 .. (n + 1) : i # n + 1 => i \in 1 .. n
    BY <1>1
  <2> QED
    BY <1>5, <2>1
<1>10. AbsTables' = Append(a, x)
  BY <1>4, <1>8, <1>9
<1> QED
  BY <1>10 DEF a

LEMMA AllocateRefines ==
  ASSUME RefinesInv, Allocate
  PROVE  Abstract!Allocate
<1> DEFINE o == Head(todo)
<1>1. o \in ObjType /\ MaximumSmall(o)
  <2>1. todo \in Seq(ObjType) /\ todo # <<>>
    BY DEF RefinesInv, ContentsInv, Allocate
  <2>2. o = todo[1] /\ 1 \in DOMAIN todo /\ o \in ObjType
    BY <2>1, HeadTailProperties, LenProperties
  <2> QED
    BY <2>2 DEF RefinesInv
<1>2. o.min \in Nat /\ o.max \in Nat /\ o.has_max \in BOOLEAN /\ o.is64 \in BOOLEAN /\ o.fill \in Ref
      /\ o.kind \in {"memory", "table"}
  BY <1>1, StoreAssumption DEF ObjType
<1>3. call = NoCall /\ call' = NoCall /\ todo # <<>> /\ UNCHANGED segments
  BY DEF Allocate
<1> HIDE DEF o
<1>4. ContentsInv
  BY DEF RefinesInv
<1>5. ASSUME UNCHANGED <<mems, tables>>, todo' = <<>>, result' = Refused
      PROVE  Abstract!Allocate
  <2>1. AbsMems' = AbsMems /\ AbsTables' = AbsTables
    BY <1>5, AbsUnchanged
  <2> QED
    BY <1>3, <1>5, <2>1 DEF Abstract!Allocate, AbsMems, AbsMem, AbsTables, AbsTable, Perform, Abstract!Perform, NoCall,
         segments, Abstract!segments, Ok, Abstract!Ok, TrapResult, Abstract!TrapResult, Refused, Abstract!Refused
<1>6. ASSUME o.kind = "memory", MemAdd(o), UNCHANGED tables
      PROVE  Abstract!Allocate
  <2>1. CASE mems' = mems /\ todo' = <<>> /\ result' = Refused
    BY <1>5, <1>6, <2>1
  <2>2. CASE ~(mems' = mems /\ todo' = <<>> /\ result' = Refused)
    <3> DEFINE size == Word(o.min * PageSize)
               e == [size |-> size, cells |-> Array(size, 0),
                     has_max |-> o.has_max, max |-> o.max, is64 |-> o.is64]
    <3>1. o.min <= JAV_MAX_MEMORY_PAGES /\ mems' = Append(mems, e) /\ todo' = Tail(todo) /\ result' = Ok
      BY <1>6, <2>2 DEF MemAdd
    <3>2. size = o.min * PageSize
      <4>1. o.min \in 0 .. JAV_MAX_MEMORY_PAGES
        BY <1>2, <3>1, StoreAssumption
      <4> QED
        BY <4>1, PagesAreWord
    <3>3. AbsMem(e) = [len |-> o.min * PageSize, cells |-> Abstract!Array(o.min * PageSize, 0),
                       limit |-> IF o.has_max THEN o.max ELSE (IF o.is64 THEN U8 ELSE U4) \div PageSize,
                       is64 |-> o.is64]
      BY <3>2 DEF AbsMem, PagesDeclared, Array, Abstract!Array
    <3> HIDE DEF e
    <3>4. AbsMems' = Append(AbsMems, AbsMem(e)) /\ AbsTables' = AbsTables
      BY <1>4, <1>6, <3>1, AppendMem, AbsUnchanged
    <3> QED
      BY <1>3, <1>6, <3>1, <3>3, <3>4 DEF Abstract!Allocate, o, AbsMems, AbsMem, AbsTables, AbsTable, Perform, Abstract!Perform, NoCall,
         segments, Abstract!segments, Ok, Abstract!Ok, TrapResult, Abstract!TrapResult, Refused, Abstract!Refused
  <2> QED
    BY <2>1, <2>2
<1>7. ASSUME o.kind = "table", TableAdd(o), UNCHANGED mems
      PROVE  Abstract!Allocate
  <2>1. CASE tables' = tables /\ todo' = <<>> /\ result' = Refused
    BY <1>5, <1>7, <2>1
  <2>2. CASE ~(tables' = tables /\ todo' = <<>> /\ result' = Refused)
    <3> DEFINE max == o.max % U4
               g == Array(o.min, Cell(o.fill))
               e == [len |-> o.min, cells |-> g, has_max |-> o.has_max, max |-> max, is64 |-> o.is64]
               limit == IF o.has_max THEN o.max ELSE (IF o.is64 THEN U8 ELSE U4) - 1
               w == Abstract!Array(o.min, o.fill)
    <3>1. o.min <= JAV_MAX_TABLE_ELEMS /\ tables' = Append(tables, e) /\ todo' = Tail(todo) /\ result' = Ok
      BY <1>7, <2>2 DEF TableAdd
    <3>2. o.has_max => max = o.max
      BY <1>1, <1>2, <1>7, StoreAssumption DEF MaximumSmall
    <3> HIDE DEF max
    <3>3. SlotsDeclared(e) = limit
      BY <3>2 DEF SlotsDeclared
    <3>4. [k \in DOMAIN g |-> g[k].ref] = w
      <4>1. DOMAIN g = 0 .. (o.min - 1) /\ \A k \in DOMAIN g : g[k].ref = o.fill
        BY <1>2, CellIsSlot DEF Array
      <4> HIDE DEF g
      <4> QED
        BY <4>1 DEF Abstract!Array
    <3>5. AbsTable(e) = [len |-> o.min, cells |-> w, limit |-> limit, is64 |-> o.is64]
      <4>1. e.len = o.min /\ e.cells = g /\ e.is64 = o.is64
        OBVIOUS
      <4> HIDE DEF e, g, w, limit
      <4> QED
        BY <3>3, <3>4, <4>1 DEF AbsTable
    <3> HIDE DEF e, g
    <3>6. AbsTables' = Append(AbsTables, AbsTable(e)) /\ AbsMems' = AbsMems
      BY <1>4, <1>7, <3>1, AppendTable, AbsUnchanged
    <3> QED
      BY <1>3, <1>7, <3>1, <3>5, <3>6 DEF Abstract!Allocate, o, AbsMems, AbsMem, AbsTables, AbsTable, Perform, Abstract!Perform, NoCall,
         segments, Abstract!segments, Ok, Abstract!Ok, TrapResult, Abstract!TrapResult, Refused, Abstract!Refused
  <2> QED
    BY <2>1, <2>2
<1> QED
  BY <1>6, <1>7 DEF Allocate, o

LEMMA RefinesInit == TableMaximaSmall /\ Init => RefinesInv
BY StoreInit, ContentsInit DEF Init, RefinesInv, TableMaximaSmall

LEMMA RefinesStep == HostGrowthSmall /\ RefinesInv /\ [Next]_vars => RefinesInv'
<1> SUFFICES ASSUME HostGrowthSmall, RefinesInv, [Next]_vars PROVE RefinesInv'
  OBVIOUS
<1>1. StoreInv' /\ ContentsInv'
  BY StoreStep, ContentsStep DEF RefinesInv
<1>2. todo' = todo \/ todo' = <<>> \/ (todo # <<>> /\ todo' = Tail(todo))
  BY DEF vars, Next, Allocate, MemAdd, TableAdd, Invoke, Fails, PutMem, PutTable, MemLoad, MemStore, MemFill,
         MemCopy, MemInit, DropData, ActiveData, MemGrow, HostMemWrite, TableGet, TableSet, HostTableWrite,
         TableFill, TableCopy, TableInit, DropElem, ActiveElem, TableGrow
<1>3. \A i \in DOMAIN todo' : MaximumSmall(todo'[i])
  <2>1. CASE todo' = todo
    BY <2>1 DEF RefinesInv
  <2>2. CASE todo' = <<>>
    BY <2>2
  <2>3. CASE todo # <<>> /\ todo' = Tail(todo)
    <3>1. todo \in Seq(ObjType)
      BY DEF RefinesInv, ContentsInv
    <3>2. \A i \in DOMAIN Tail(todo) : i + 1 \in DOMAIN todo /\ Tail(todo)[i] = todo[i + 1]
      BY <2>3, <3>1
    <3> QED
      BY <2>3, <3>2 DEF RefinesInv
  <2> QED
    BY <1>2, <2>1, <2>2, <2>3
<1>4. \/ UNCHANGED segments
      \/ data_dropped' = [data_dropped EXCEPT ![call.x] = TRUE] /\ elem_dropped' = elem_dropped
      \/ elem_dropped' = [elem_dropped EXCEPT ![call.x] = TRUE] /\ data_dropped' = data_dropped
  BY DEF vars, Next, Allocate, MemAdd, TableAdd, Invoke, Fails, PutMem, PutTable, MemLoad, MemStore, MemFill,
         MemCopy, MemInit, DropData, ActiveData, MemGrow, HostMemWrite, TableGet, TableSet, HostTableWrite,
         TableFill, TableCopy, TableInit, DropElem, ActiveElem, TableGrow
<1>5. data_dropped' \in [DOMAIN DataSegs -> BOOLEAN] /\ elem_dropped' \in [DOMAIN ElemSegs -> BOOLEAN]
  BY <1>4 DEF RefinesInv, segments
<1> QED
  BY <1>1, <1>3, <1>5 DEF RefinesInv

\* The steps on memories and on tables, and all others.
LEMMA MemsRefine ==
  ASSUME ActiveSmall, OffsetsSmall, RefinesInv,
         MemLoad \/ MemStore \/ MemFill \/ MemCopy \/ MemInit \/ DropData \/ ActiveData \/ MemGrow \/ HostMemWrite
  PROVE  Abstract!Next
<1>1. StoreInv /\ ContentsInv /\ data_dropped \in [DOMAIN DataSegs -> BOOLEAN]
  BY DEF RefinesInv
<1> QED
  BY <1>1, MemLoadRefines, MemStoreRefines, MemFillRefines, MemCopyRefines, MemInitRefines, DropsRefine,
     ActiveDataRefines, MemGrowRefines, HostMemWriteRefines DEF Abstract!Next

LEMMA TablesRefine ==
  ASSUME HostGrowthSmall, RefinesInv,
         TableGet \/ TableSet \/ HostTableWrite \/ TableFill \/ TableCopy \/ TableInit \/ DropElem
           \/ ActiveElem \/ TableGrow
  PROVE  Abstract!Next
<1>1. StoreInv /\ ContentsInv /\ elem_dropped \in [DOMAIN ElemSegs -> BOOLEAN]
  BY DEF RefinesInv
<1> QED
  BY <1>1, TableGetRefines, TableSetRefines, HostTableWriteRefines, TableFillRefines, TableCopyRefines,
     TableInitRefines, DropsRefine, ActiveElemRefines, TableGrowRefines DEF Abstract!Next

LEMMA StepRefines ==
  ASSUME HostGrowthSmall, ActiveSmall, OffsetsSmall, RefinesInv, [Next]_vars
  PROVE  [Abstract!Next]_Abstract!vars
<1>1. CASE UNCHANGED vars
  <2>1. AbsMems' = AbsMems /\ AbsTables' = AbsTables
    BY <1>1, AbsUnchanged DEF vars
  <2> QED
    BY <1>1, <2>1 DEF vars, Abstract!vars, AbsMems, AbsMem, AbsTables, AbsTable, Perform, Abstract!Perform, NoCall,
         segments, Abstract!segments, Ok, Abstract!Ok, TrapResult, Abstract!TrapResult, Refused, Abstract!Refused
<1>2. CASE Allocate
  BY <1>2, AllocateRefines DEF Abstract!Next
<1>3. CASE Invoke
  BY <1>3, InvokeRefines DEF Abstract!Next
<1> QED
  BY <1>1, <1>2, <1>3, MemsRefine, TablesRefine DEF Next

LEMMA InitRefines == Init => Abstract!Init
BY DEF Init, Abstract!Init, NoCall, Ok, Abstract!Ok

\* Memories, tables and segments of 64-bit words are arrays indexed by numbers of any size:
\* the guards by subtraction, the order in which table.copy moves slots, the tags, the limits
\* of growth and the signed lengths of segments never show (mem_ok, jav_table_copy,
\* mem_grow_inst, jav_tableinst_grow).  They would show in four places, which the
\* assumptions exclude: a growth by the embedder, the end of an active segment and an
\* effective address that wrap, and the maximum of a table that 32 bits do not hold.
THEOREM StoreImplements ==
  ASSUME HostGrowthSmall, ActiveSmall, OffsetsSmall, TableMaximaSmall
  PROVE  Spec => ImplementsStore
<1>1. Init => RefinesInv
  BY RefinesInit, TableMaximaSmall
<1>2. RefinesInv /\ [Next]_vars => RefinesInv'
  BY RefinesStep, HostGrowthSmall
<1>3. RefinesInv /\ [Next]_vars => [Abstract!Next]_Abstract!vars
  BY StepRefines, HostGrowthSmall, ActiveSmall, OffsetsSmall
<1> QED
  BY <1>1, <1>2, <1>3, InitRefines, PTL DEF Spec, ImplementsStore, Abstract!Spec
=============================================================================
