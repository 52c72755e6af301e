---------------------------- MODULE StoreObjects ----------------------------
(***************************************************************************)
(* Memories, tables and segments of a store, with the integers of the C    *)
(* code: addresses and lengths are 64-bit words, 32-bit operands are zero- *)
(* extended, sums wrap, and a range is checked by subtraction (mem_ok).    *)
(* U4 and U8 stand for 2^32 and 2^64.                                      *)
(*                                                                         *)
(* A program's instruction or an embedder's call is first `call`, with its *)
(* operands, and then performed in one step.  `stray` records that some    *)
(* operation touched a cell outside its array.                             *)
(***************************************************************************)
EXTENDS Integers, Sequences

CONSTANTS
  U4, U8,               \* the moduli of the two word sizes
  PageSize,             \* bytes of a page
  JAV_MAX_MEMORY_PAGES, \* what one allocation can back
  JAV_MAX_TABLE_ELEMS,
  Byte, Ref, Null,
  Managed,              \* the references that are managed objects
  DataSegs, ElemSegs,   \* segments: records [len, cells]
  Addr,                 \* the words a program passes as addresses and lengths
  Offset,               \* the static offsets of its accesses
  Count,                \* the words it passes as segment indices and lengths
  Width,                \* storage widths of its accesses
  ActiveAt,             \* where later modules place active segments
  HostDelta,            \* by how much the embedder grows
  Stores                \* the memory and table types to allocate, by program

\* The types of memories and tables; the fill of a memory is not used.
ObjType == [kind : {"memory", "table"}, min : 0 .. (U8 - 1), has_max : BOOLEAN,
            max : 0 .. (U8 - 1), is64 : BOOLEAN, fill : Ref]

ASSUME StoreAssumption ==
  /\ U4 \in Nat \ {0} /\ U8 \in Nat /\ U4 < U8
  /\ PageSize \in Nat \ {0} /\ JAV_MAX_MEMORY_PAGES \in Nat /\ JAV_MAX_TABLE_ELEMS \in Nat
  /\ JAV_MAX_MEMORY_PAGES * PageSize < U8
  /\ 2 * JAV_MAX_MEMORY_PAGES < U8 /\ 2 * JAV_MAX_TABLE_ELEMS < U8
  /\ 0 \in Byte /\ Null \in Ref \ Managed
  /\ Addr \subseteq 0 .. (U8 - 1) /\ Offset \subseteq 0 .. (U8 - 1)
  /\ ActiveAt \subseteq 0 .. (U8 - 1) /\ HostDelta \subseteq 0 .. (U8 - 1)
  /\ Count \subseteq 0 .. (U4 - 1) /\ Width \subseteq 1 .. (U4 - 1)
  /\ \A x \in DOMAIN DataSegs : /\ DataSegs[x].len < U4 \div 2 /\ DataSegs[x].len \in Nat
                               /\ DataSegs[x].cells \in [0 .. (DataSegs[x].len - 1) -> Byte]
  /\ \A x \in DOMAIN ElemSegs : /\ ElemSegs[x].len < U4 \div 2 /\ ElemSegs[x].len \in Nat
                               /\ ElemSegs[x].cells \in [0 .. (ElemSegs[x].len - 1) -> Ref]
  /\ Stores \subseteq Seq(ObjType)

VARIABLES
  todo,           \* objects still to be allocated
  mems,           \* jav_mem_t: size in bytes, cells, has_max, max in pages, is64
  tables,         \* jav_tableinst_t: len, cells (a reference and its tag), has_max, max, is64
  data_dropped, elem_dropped,
  call,           \* the operation under way and its operands
  result,         \* what the last operation answered
  stray

segments == <<data_dropped, elem_dropped>>
vars == <<todo, mems, tables, segments, call, result, stray>>

-----------------------------------------------------------------------------
(* Words and arrays                                                        *)

Word(x) == x % U8                                    \* u8
Signed(x) == IF x < U8 \div 2 THEN x ELSE x - U8     \* (s8)
Signed4(x) == IF x < U4 \div 2 THEN x ELSE x - U4    \* (s4)
AddrWord(is64) == 0 .. ((IF is64 THEN U8 ELSE U4) - 1)

\* mem_ok; the same test guards the table operations.  RangeOkSum is the other way
\* to write it, whose sum wraps (and the mutant of RangeOk).
RangeOkSum(len, ea, n) == Word(ea + n) <= len
RangeOk(len, ea, n) == ea <= len /\ n <= Word(len - ea)

Ok == <<"ok">>
TrapResult == <<"trap">>
Refused == <<"refused">>
Pending == <<"pending">>
Size(n) == <<"size", n>>
Cells(v) == <<"cells", v>>

Cell(v) == [ref |-> v, kind |-> IF v \in Managed THEN "T_GCREF" ELSE "T_REF"]
Array(n, v) == [k \in 0 .. (n - 1) |-> v]
\* Reading a cell, and n cells from s; what lies outside an array is unknown, and `junk`
\* stands for it.
At(cells, i, junk) == IF i \in DOMAIN cells THEN cells[i] ELSE junk
Block(cells, s, n) == [k \in 0 .. (n - 1) |-> At(cells, s + k, 0)]

\* memset, memcpy, memmove: those of the n cells from d that exist.
Put(cells, d, n, g) == [k \in DOMAIN cells |-> IF d <= k /\ k < d + n THEN g[k - d] ELSE cells[k]]
\* Appending n cells.  Mutant: one too few.
ExtendedShort(cells, len, n, v) == [k \in 0 .. (len + n - 2) |-> IF k < len THEN cells[k] ELSE v]
Extended(cells, len, n, v) == [k \in 0 .. (len + n - 1) |-> IF k < len THEN cells[k] ELSE v]
Inside(len, d, n) == n = 0 \/ d + n <= len

-----------------------------------------------------------------------------
(* Calls                                                                   *)

NoCall == [op |-> "none"]

\* On memory m, with the words its address type has.  The length of a copy has the
\* smaller of the two types.
MemWord(m) == Addr \cap AddrWord(mems[m].is64)
MemCopies(m) ==
  {c \in [op : {"memory_copy"}, m : {m}, f : DOMAIN mems, d : MemWord(m), s : Addr, n : MemWord(m)] :
     c.s \in MemWord(c.f) /\ c.n \in MemWord(c.f)}
MemCallsOn(m) ==
  [op : {"load"}, m : {m}, d : MemWord(m), o : Offset, n : Width]
    \cup [op : {"store"}, m : {m}, d : MemWord(m), o : Offset, n : Width, v : Byte]
    \cup [op : {"memory_fill"}, m : {m}, d : MemWord(m), n : MemWord(m), v : Byte]
    \cup MemCopies(m)
    \cup [op : {"memory_init"}, m : {m}, x : DOMAIN DataSegs, d : MemWord(m), s : Count, n : Count]
    \cup [op : {"active_data"}, m : {m}, x : DOMAIN DataSegs, d : ActiveAt \cap AddrWord(mems[m].is64)]
    \cup [op : {"memory_grow"}, m : {m}, n : MemWord(m) \cup HostDelta]
    \cup [op : {"wasm_memory_write"}, m : {m}, d : Addr, v : Byte]

TableWord(t) == Addr \cap AddrWord(tables[t].is64)
TableCopies(t) ==
  {c \in [op : {"table_copy"}, t : {t}, f : DOMAIN tables, d : TableWord(t), s : Addr, n : TableWord(t)] :
     c.s \in TableWord(c.f) /\ c.n \in TableWord(c.f)}
TableCallsOn(t) ==
  [op : {"table_get"}, t : {t}, d : TableWord(t)]
    \cup [op : {"table_set"}, t : {t}, d : TableWord(t), v : Ref]
    \cup [op : {"wasm_table_set"}, t : {t}, d : Addr, v : Ref]
    \cup [op : {"table_fill"}, t : {t}, d : TableWord(t), n : TableWord(t), v : Ref]
    \cup TableCopies(t)
    \cup [op : {"table_init"}, t : {t}, x : DOMAIN ElemSegs, d : TableWord(t), s : Count, n : Count]
    \cup [op : {"active_elem"}, t : {t}, x : DOMAIN ElemSegs, d : ActiveAt \cap AddrWord(tables[t].is64)]
    \cup [op : {"table_grow"}, t : {t}, n : TableWord(t), v : Ref, host : {FALSE}]
    \cup [op : {"table_grow"}, t : {t}, n : HostDelta, v : Ref, host : {TRUE}]

Calls ==
  (UNION {MemCallsOn(m) : m \in DOMAIN mems}) \cup (UNION {TableCallsOn(t) : t \in DOMAIN tables})
    \cup [op : {"data_drop"}, x : DOMAIN DataSegs] \cup [op : {"elem_drop"}, x : DOMAIN ElemSegs]

Invoke ==
  /\ call = NoCall
  /\ call' \in Calls
  /\ result' = Pending
  /\ UNCHANGED <<todo, mems, tables, segments, stray>>

Perform(op) == call.op = op /\ call' = NoCall

\* The guard fails: a trap, or an error for the embedder.
Fails(answer) == result' = answer /\ UNCHANGED <<todo, mems, tables, segments, stray>>
PutMem(d, n, g) ==
  /\ mems' = [mems EXCEPT ![call.m].cells = Put(@, d, n, g)]
  /\ stray' = (stray \/ ~Inside(mems[call.m].size, d, n))
  /\ result' = Ok /\ UNCHANGED <<todo, tables, segments>>
PutTable(d, n, g) ==
  /\ tables' = [tables EXCEPT ![call.t].cells = Put(@, d, n, g)]
  /\ stray' = (stray \/ ~Inside(tables[call.t].len, d, n))
  /\ result' = Ok /\ UNCHANGED <<todo, mems, segments>>

-----------------------------------------------------------------------------
(* Allocation                                                              *)

\* jav_mem_add, with calloc failing or not.
MemAdd(o) ==
  \/ /\ o.min <= JAV_MAX_MEMORY_PAGES
     /\ mems' = Append(mems, [size |-> Word(o.min * PageSize), cells |-> Array(Word(o.min * PageSize), 0),
                              has_max |-> o.has_max, max |-> o.max, is64 |-> o.is64])
     /\ todo' = Tail(todo) /\ result' = Ok
  \/ mems' = mems /\ todo' = <<>> /\ result' = Refused

\* jav_table_add, whose declared maximum was narrowed by its caller.
TableAdd(o) ==
  \/ /\ o.min <= JAV_MAX_TABLE_ELEMS
     /\ tables' = Append(tables, [len |-> o.min, cells |-> Array(o.min, Cell(o.fill)),
                                  has_max |-> o.has_max, max |-> o.max % U4, is64 |-> o.is64])
     /\ todo' = Tail(todo) /\ result' = Ok
  \/ tables' = tables /\ todo' = <<>> /\ result' = Refused

\* An instantiation allocates memories and tables in turn; the first it cannot back
\* ends it.
Allocate ==
  /\ call = NoCall /\ todo # <<>>
  /\ \/ Head(todo).kind = "memory" /\ MemAdd(Head(todo)) /\ UNCHANGED tables
     \/ Head(todo).kind = "table" /\ TableAdd(Head(todo)) /\ UNCHANGED mems
  /\ UNCHANGED <<segments, call, stray>>

-----------------------------------------------------------------------------
(* Memories                                                                *)

\* The effective address is a 64-bit sum.
EffectiveAddr == Word(call.d + call.o)
MemLoad ==
  /\ Perform("load")
  /\ LET m == mems[call.m] IN
     \/ /\ RangeOk(m.size, EffectiveAddr, call.n)
        /\ result' = Cells(Block(m.cells, EffectiveAddr, call.n))
        /\ stray' = (stray \/ ~Inside(m.size, EffectiveAddr, call.n))
        /\ UNCHANGED <<todo, mems, tables, segments>>
     \/ ~RangeOk(m.size, EffectiveAddr, call.n) /\ Fails(TrapResult)
MemStore ==
  /\ Perform("store")
  /\ \/ /\ RangeOk(mems[call.m].size, EffectiveAddr, call.n)
        /\ PutMem(EffectiveAddr, call.n, Array(call.n, call.v))
     \/ ~RangeOk(mems[call.m].size, EffectiveAddr, call.n) /\ Fails(TrapResult)

MemFill ==
  /\ Perform("memory_fill")
  /\ \/ RangeOk(mems[call.m].size, call.d, call.n) /\ PutMem(call.d, call.n, Array(call.n, call.v))
     \/ ~RangeOk(mems[call.m].size, call.d, call.n) /\ Fails(TrapResult)

MemCopy ==
  /\ Perform("memory_copy")
  /\ LET from == mems[call.f]
         fits == RangeOk(mems[call.m].size, call.d, call.n) /\ RangeOk(from.size, call.s, call.n)
     IN \/ fits /\ PutMem(call.d, call.n, Block(from.cells, call.s, call.n))
        \/ ~fits /\ Fails(TrapResult)

\* Segment indices and lengths are signed 32-bit words; a dropped segment is empty.
SegLen(segs, dropped, x) == IF dropped[x] THEN 0 ELSE segs[x].len
SegmentOk(len, s, n) == n >= 0 /\ s >= 0 /\ s + n <= len

MemInit ==
  /\ Perform("memory_init")
  /\ LET s == Signed4(call.s)
         n == Signed4(call.n)
         fits == /\ SegmentOk(SegLen(DataSegs, data_dropped, call.x), s, n)
                 /\ RangeOk(mems[call.m].size, call.d, n)
     IN \/ fits /\ PutMem(call.d, n, Block(DataSegs[call.x].cells, s, n))
        \/ ~fits /\ Fails(TrapResult)

DropData ==
  /\ Perform("data_drop") /\ result' = Ok
  /\ data_dropped' = [data_dropped EXCEPT ![call.x] = TRUE]
  /\ UNCHANGED <<todo, mems, tables, elem_dropped, stray>>

\* An active segment of a module that imports the memory.  It is applied once and
\* dropped, so nothing of it stays.
ActiveData ==
  /\ Perform("active_data")
  /\ LET seg == DataSegs[call.x] IN
     \/ RangeOkSum(mems[call.m].size, call.d, seg.len) /\ PutMem(call.d, seg.len, seg.cells)
     \/ ~RangeOkSum(mems[call.m].size, call.d, seg.len) /\ Fails(TrapResult)

\* mem_grow_inst, with realloc failing or not.  Mutant of PagesAllowed: no limit of the
\* engine.
PagesDeclared(m) == IF m.has_max THEN m.max ELSE (IF m.is64 THEN U8 ELSE U4) \div PageSize
PagesAllowed(m) ==
  IF PagesDeclared(m) > JAV_MAX_MEMORY_PAGES THEN JAV_MAX_MEMORY_PAGES ELSE PagesDeclared(m)

MemGrow ==
  /\ Perform("memory_grow")
  /\ LET m == mems[call.m]
         oldpages == m.size \div PageSize
         newpages == Word(oldpages + Signed(call.n))
         newsize == Word(newpages * PageSize)
     IN \/ /\ Signed(call.n) >= 0
           /\ newpages <= PagesAllowed(m)
           /\ mems' = [mems EXCEPT ![call.m] =
                [m EXCEPT !.size = newsize, !.cells = Extended(@, m.size, newsize - m.size, 0)]]
           /\ result' = Size(oldpages)
           /\ UNCHANGED <<todo, tables, segments, stray>>
        \/ Fails(Refused)

\* wasm_memory_write (wasm_memory_read tests the same)
HostMemWrite ==
  /\ Perform("wasm_memory_write")
  /\ \/ call.d < mems[call.m].size /\ PutMem(call.d, 1, Array(1, call.v))
     \/ call.d >= mems[call.m].size /\ Fails(Refused)

-----------------------------------------------------------------------------
(* Tables                                                                  *)

TableGet ==
  /\ Perform("table_get")
  /\ LET t == tables[call.t] IN
     \/ /\ call.d < t.len
        /\ result' = Cells(Array(1, t.cells[call.d].ref))
        /\ UNCHANGED <<todo, mems, tables, segments, stray>>
     \/ call.d >= t.len /\ Fails(TrapResult)
TableSet ==
  /\ Perform("table_set")
  /\ \/ call.d < tables[call.t].len /\ PutTable(call.d, 1, Array(1, Cell(call.v)))
     \/ call.d >= tables[call.t].len /\ Fails(TrapResult)
\* wasm_table_set through jav_tableinst_write
HostTableWrite ==
  /\ Perform("wasm_table_set")
  /\ \/ call.d < tables[call.t].len /\ PutTable(call.d, 1, Array(1, Cell(call.v)))
     \/ call.d >= tables[call.t].len /\ Fails(Refused)

TableFill ==
  /\ Perform("table_fill")
  /\ \/ RangeOk(tables[call.t].len, call.d, call.n) /\ PutTable(call.d, call.n, Array(call.n, Cell(call.v)))
     \/ ~RangeOk(tables[call.t].len, call.d, call.n) /\ Fails(TrapResult)

\* table.copy goes slot by slot, and so reads what it wrote if the ranges overlap in
\* one table: it counts up when the target lies below the source, else down.
\* Moved: the target after n slots, the j-th of them at distance k[j].
Moved(t, f, d, s, n, k) ==
  LET M[j \in 0 .. n] ==
        IF j = 0 THEN tables[t].cells
        ELSE [M[j - 1] EXCEPT ![d + k[j]] =
                At(IF t = f THEN M[j - 1] ELSE tables[f].cells, s + k[j], Cell(Null))]
  IN M[n]
\* Mutant of CopiedTable: always upwards.
CopiedUp(t, f, d, s, n) == Moved(t, f, d, s, n, [j \in 1 .. n |-> j - 1])
CopiedTable(t, f, d, s, n) ==
  Moved(t, f, d, s, n, IF d <= s THEN [j \in 1 .. n |-> j - 1] ELSE [j \in 1 .. n |-> n - j])

TableCopy ==
  /\ Perform("table_copy")
  /\ LET fits == RangeOk(tables[call.t].len, call.d, call.n) /\ RangeOk(tables[call.f].len, call.s, call.n) IN
     \/ /\ fits
        /\ tables' = [tables EXCEPT ![call.t].cells = CopiedTable(call.t, call.f, call.d, call.s, call.n)]
        /\ stray' = (stray \/ ~Inside(tables[call.t].len, call.d, call.n))
        /\ result' = Ok /\ UNCHANGED <<todo, mems, segments>>
     \/ ~fits /\ Fails(TrapResult)

\* The items of a segment are written with their tags.  Mutant: all as T_REF.
ItemsUntagged(x, s, n) == [k \in 0 .. (n - 1) |-> [ref |-> ElemSegs[x].cells[s + k], kind |-> "T_REF"]]
Items(x, s, n) == [k \in 0 .. (n - 1) |-> Cell(ElemSegs[x].cells[s + k])]

TableInit ==
  /\ Perform("table_init")
  /\ LET s == Signed4(call.s)
         n == Signed4(call.n)
         fits == /\ SegmentOk(SegLen(ElemSegs, elem_dropped, call.x), s, n)
                 /\ RangeOk(tables[call.t].len, call.d, n)
     IN \/ fits /\ PutTable(call.d, n, Items(call.x, s, n))
        \/ ~fits /\ Fails(TrapResult)

DropElem ==
  /\ Perform("elem_drop") /\ result' = Ok
  /\ elem_dropped' = [elem_dropped EXCEPT ![call.x] = TRUE]
  /\ UNCHANGED <<todo, mems, tables, data_dropped, stray>>

ActiveElem ==
  /\ Perform("active_elem")
  /\ LET len == ElemSegs[call.x].len IN
     \/ RangeOk(tables[call.t].len, call.d, len) /\ PutTable(call.d, len, Items(call.x, 0, len))
     \/ ~RangeOk(tables[call.t].len, call.d, len) /\ Fails(TrapResult)

SlotsDeclared(t) == IF t.has_max THEN t.max ELSE (IF t.is64 THEN U8 ELSE U4) - 1
SlotsAllowed(t) ==
  IF SlotsDeclared(t) > JAV_MAX_TABLE_ELEMS THEN JAV_MAX_TABLE_ELEMS ELSE SlotsDeclared(t)

\* jav_table_grow refuses a negative count, wasm_table_grow passes its own on;
\* jav_tableinst_grow then pushes the slots one by one, however many.
TableGrow ==
  /\ Perform("table_grow")
  /\ LET t == tables[call.t]
         allowed == /\ call.host \/ Signed(call.n) >= 0
                    /\ Word(t.len + call.n) <= SlotsAllowed(t)
     IN \/ /\ allowed
           /\ tables' = [tables EXCEPT ![call.t] =
                [t EXCEPT !.len = @ + call.n, !.cells = Extended(@, t.len, call.n, Cell(call.v))]]
           /\ result' = Size(t.len)
           /\ UNCHANGED <<todo, mems, segments, stray>>
        \/ ~allowed /\ Fails(Refused)

-----------------------------------------------------------------------------
Init ==
  /\ todo \in Stores
  /\ mems = <<>> /\ tables = <<>>
  /\ data_dropped = [x \in DOMAIN DataSegs |-> FALSE]
  /\ elem_dropped = [x \in DOMAIN ElemSegs |-> FALSE]
  /\ call = NoCall
  /\ result = Ok
  /\ stray = FALSE

Next ==
  \/ Allocate \/ Invoke
  \/ MemLoad \/ MemStore \/ MemFill \/ MemCopy \/ MemInit \/ DropData \/ ActiveData \/ MemGrow \/ HostMemWrite
  \/ TableGet \/ TableSet \/ HostTableWrite \/ TableFill \/ TableCopy \/ TableInit \/ DropElem
  \/ ActiveElem \/ TableGrow

Spec == Init /\ [][Next]_vars
-----------------------------------------------------------------------------
(* Properties                                                              *)

\* Types; every array has exactly the cells its length says.
StoreTypeOK ==
  /\ \A m \in DOMAIN mems :
       /\ mems[m].size \in 0 .. (U8 - 1) /\ mems[m].size % PageSize = 0
       /\ mems[m].cells \in [0 .. (mems[m].size - 1) -> Byte]
  /\ \A t \in DOMAIN tables :
       /\ tables[t].len \in 0 .. (U8 - 1)
       /\ tables[t].cells \in [0 .. (tables[t].len - 1) -> [ref : Ref, kind : {"T_REF", "T_GCREF"}]]

\* Growth, by the program or by the embedder, in any number of steps, never takes a
\* memory or a table past what one allocation can back (jav_limits.h).
WithinLimits ==
  /\ \A m \in DOMAIN mems : mems[m].size <= JAV_MAX_MEMORY_PAGES * PageSize
  /\ \A t \in DOMAIN tables : tables[t].len <= JAV_MAX_TABLE_ELEMS

\* No operation that its guard let through touches a cell outside its array, though
\* the guards and sums are of wrapping words.
NoStrayAccess == ~stray

\* The tag beside a table slot tells a managed reference from any other, whichever
\* way the slot was written: the collector scans the slots the tags name.
TagsHonest == \A t \in DOMAIN tables : \A k \in DOMAIN tables[t].cells :
  tables[t].cells[k].kind = Cell(tables[t].cells[k].ref).kind

\* The operations are those of unbounded arrays, with no word sizes, no order of
\* copying and no tags.
Abstract == INSTANCE AbstractStore WITH
  Pages <- LAMBDA is64 : (IF is64 THEN U8 ELSE U4) \div PageSize,
  Slots <- LAMBDA is64 : (IF is64 THEN U8 ELSE U4) - 1,
  mems <- [m \in DOMAIN mems |->
             [len |-> mems[m].size, cells |-> mems[m].cells, is64 |-> mems[m].is64,
              limit |-> PagesDeclared(mems[m])]],
  tables <- [t \in DOMAIN tables |->
             [len |-> tables[t].len, is64 |-> tables[t].is64, limit |-> SlotsDeclared(tables[t]),
              cells |-> [k \in DOMAIN tables[t].cells |-> tables[t].cells[k].ref]]]
ImplementsStore == Abstract!Spec
=============================================================================
