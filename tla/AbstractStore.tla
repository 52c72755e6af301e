--------------------------- MODULE AbstractStore ---------------------------
(***************************************************************************)
(* What memories, tables and segments promise a WebAssembly program: they  *)
(* are arrays indexed by numbers of any size; a range that is not inside   *)
(* its array traps and changes nothing; a copy reads all of its source     *)
(* before it writes; an array grows up to its limit or, at the engine's    *)
(* discretion, not at all; a dropped segment is empty.                     *)
(*                                                                         *)
(* A call is a record of the operation and its operands.                   *)
(***************************************************************************)
EXTENDS Naturals, Sequences

CONSTANTS
  PageSize,            \* bytes of a page
  Pages(_), Slots(_),  \* the limits of undeclared memories and tables, by address type
  DataSegs, ElemSegs,  \* the segments, sequences of arrays
  NoCall,
  Stores               \* the objects to allocate, one sequence for each program

VARIABLES
  todo,       \* objects still to be allocated
  mems,       \* arrays of bytes, with their limits in pages
  tables,     \* arrays of references, with their limits
  data_dropped, elem_dropped,
  call,       \* the operation under way
  result      \* what the last operation answered

segments == <<data_dropped, elem_dropped>>
vars == <<todo, mems, tables, segments, call, result>>

Ok == <<"ok">>
TrapResult == <<"trap">>
Refused == <<"refused">>
Pending == <<"pending">>
Size(n) == <<"size", n>>
Cells(v) == <<"cells", v>>

Array(n, v) == [k \in 0 .. (n - 1) |-> v]
Fits(arr, d, n) == d + n <= arr.len
Slice(arr, s, n) == [k \in 0 .. (n - 1) |-> arr.cells[s + k]]
Put(arr, d, n, g) ==
  [arr EXCEPT !.cells = [k \in DOMAIN @ |-> IF d <= k /\ k < d + n THEN g[k - d] ELSE @[k]]]
Extended(arr, n, v) ==
  [arr EXCEPT !.len = @ + n,
              !.cells = [k \in 0 .. (arr.len + n - 1) |-> IF k < arr.len THEN @[k] ELSE v]]
Segment(segs, dropped, x) == IF dropped[x] THEN [len |-> 0, cells |-> Array(0, 0)] ELSE segs[x]

Init ==
  /\ todo \in Stores
  /\ mems = <<>> /\ tables = <<>>
  /\ data_dropped = [x \in DOMAIN DataSegs |-> FALSE]
  /\ elem_dropped = [x \in DOMAIN ElemSegs |-> FALSE]
  /\ call = NoCall
  /\ result = Ok

Allocate ==
  /\ call = NoCall /\ todo # <<>>
  /\ LET o == Head(todo)
         Limit(c) == IF o.has_max THEN o.max ELSE c
         mem == [len |-> o.min * PageSize, cells |-> Array(o.min * PageSize, 0),
                 limit |-> Limit(Pages(o.is64)), is64 |-> o.is64]
         table == [len |-> o.min, cells |-> Array(o.min, o.fill),
                   limit |-> Limit(Slots(o.is64)), is64 |-> o.is64]
     IN \/ /\ todo' = Tail(todo) /\ result' = Ok
           /\ mems' = IF o.kind = "memory" THEN Append(mems, mem) ELSE mems
           /\ tables' = IF o.kind = "table" THEN Append(tables, table) ELSE tables
        \/ todo' = <<>> /\ result' = Refused /\ UNCHANGED <<mems, tables>>
  /\ UNCHANGED <<segments, call>>

Invoke ==
  /\ call = NoCall /\ call' # NoCall /\ result' = Pending
  /\ UNCHANGED <<todo, mems, tables, segments>>

Perform(op) == call.op = op /\ call' = NoCall

\* An operation that writes the n cells g at d of its array if all its ranges fit.
WriteMem(op, fits, otherwise, d, n, g) ==
  /\ Perform(op)
  /\ result' = IF fits THEN Ok ELSE otherwise
  /\ mems' = IF fits THEN [mems EXCEPT ![call.m] = Put(@, d, n, g)] ELSE mems
  /\ UNCHANGED <<todo, tables, segments>>
WriteTable(op, fits, otherwise, d, n, g) ==
  /\ Perform(op)
  /\ result' = IF fits THEN Ok ELSE otherwise
  /\ tables' = IF fits THEN [tables EXCEPT ![call.t] = Put(@, d, n, g)] ELSE tables
  /\ UNCHANGED <<todo, mems, segments>>

MemLoad ==
  /\ Perform("load")
  /\ LET ea == call.d + call.o IN
     result' = IF Fits(mems[call.m], ea, call.n) THEN Cells(Slice(mems[call.m], ea, call.n)) ELSE TrapResult
  /\ UNCHANGED <<todo, mems, tables, segments>>
MemStore ==
  LET ea == call.d + call.o IN
  WriteMem("store", Fits(mems[call.m], ea, call.n), TrapResult, ea, call.n, Array(call.n, call.v))
MemFill ==
  WriteMem("memory_fill", Fits(mems[call.m], call.d, call.n), TrapResult,
           call.d, call.n, Array(call.n, call.v))
MemCopy ==
  WriteMem("memory_copy", Fits(mems[call.m], call.d, call.n) /\ Fits(mems[call.f], call.s, call.n), TrapResult,
           call.d, call.n, Slice(mems[call.f], call.s, call.n))
MemInit ==
  LET seg == Segment(DataSegs, data_dropped, call.x) IN
  WriteMem("memory_init", Fits(mems[call.m], call.d, call.n) /\ Fits(seg, call.s, call.n), TrapResult,
           call.d, call.n, Slice(seg, call.s, call.n))
ActiveData ==
  LET seg == DataSegs[call.x] IN
  WriteMem("active_data", Fits(mems[call.m], call.d, seg.len), TrapResult, call.d, seg.len, seg.cells)
HostMemWrite ==
  WriteMem("wasm_memory_write", Fits(mems[call.m], call.d, 1), Refused, call.d, 1, Array(1, call.v))
MemGrow ==
  /\ Perform("memory_grow")
  /\ LET m == mems[call.m] IN
     \/ /\ m.len + call.n * PageSize <= m.limit * PageSize
        /\ mems' = [mems EXCEPT ![call.m] = Extended(m, call.n * PageSize, 0)]
        /\ result' = Size(m.len \div PageSize)
     \/ result' = Refused /\ UNCHANGED mems
  /\ UNCHANGED <<todo, tables, segments>>

TableGet ==
  /\ Perform("table_get")
  /\ LET t == tables[call.t] IN
     result' = IF Fits(t, call.d, 1) THEN Cells(Slice(t, call.d, 1)) ELSE TrapResult
  /\ UNCHANGED <<todo, mems, tables, segments>>
TableSet ==
  WriteTable("table_set", Fits(tables[call.t], call.d, 1), TrapResult, call.d, 1, Array(1, call.v))
HostTableWrite ==
  WriteTable("wasm_table_set", Fits(tables[call.t], call.d, 1), Refused, call.d, 1, Array(1, call.v))
TableFill ==
  WriteTable("table_fill", Fits(tables[call.t], call.d, call.n), TrapResult,
             call.d, call.n, Array(call.n, call.v))
TableCopy ==
  WriteTable("table_copy", Fits(tables[call.t], call.d, call.n) /\ Fits(tables[call.f], call.s, call.n), TrapResult,
             call.d, call.n, Slice(tables[call.f], call.s, call.n))
TableInit ==
  LET seg == Segment(ElemSegs, elem_dropped, call.x) IN
  WriteTable("table_init", Fits(tables[call.t], call.d, call.n) /\ Fits(seg, call.s, call.n), TrapResult,
             call.d, call.n, Slice(seg, call.s, call.n))
ActiveElem ==
  LET seg == ElemSegs[call.x] IN
  WriteTable("active_elem", Fits(tables[call.t], call.d, seg.len), TrapResult, call.d, seg.len, seg.cells)
TableGrow ==
  /\ Perform("table_grow")
  /\ LET t == tables[call.t] IN
     \/ /\ t.len + call.n <= t.limit
        /\ tables' = [tables EXCEPT ![call.t] = Extended(t, call.n, call.v)]
        /\ result' = Size(t.len)
     \/ result' = Refused /\ UNCHANGED tables
  /\ UNCHANGED <<todo, mems, segments>>

DropData ==
  /\ Perform("data_drop") /\ result' = Ok
  /\ data_dropped' = [data_dropped EXCEPT ![call.x] = TRUE]
  /\ UNCHANGED <<todo, mems, tables, elem_dropped>>
DropElem ==
  /\ Perform("elem_drop") /\ result' = Ok
  /\ elem_dropped' = [elem_dropped EXCEPT ![call.x] = TRUE]
  /\ UNCHANGED <<todo, mems, tables, data_dropped>>

Next ==
  \/ Allocate \/ Invoke
  \/ MemLoad \/ MemStore \/ MemFill \/ MemCopy \/ MemInit \/ ActiveData \/ HostMemWrite \/ MemGrow \/ DropData
  \/ TableGet \/ TableSet \/ HostTableWrite \/ TableFill \/ TableCopy \/ TableInit \/ ActiveElem
  \/ TableGrow \/ DropElem

Spec == Init /\ [][Next]_vars
=============================================================================
