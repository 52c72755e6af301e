------------------------------ MODULE Instances ------------------------------
(***************************************************************************)
(* Instantiation and the lifetime of instances (wasm/src/jav_instance.c:   *)
(* jav_instantiate, jav_instance_visit_roots; wasm_capi.c:                 *)
(* wasm_instance_new, wasm_instance_delete, capi_track_inst, wasm_func_call;*)
(* jav_runtime.c: jav_gc_enum_roots).                                      *)
(*                                                                         *)
(* An instance is built in place, one constant expression after another.   *)
(* An expression may allocate, and an allocation may collect: what the     *)
(* root scan does not visit at that moment is gone (or has moved, which is *)
(* as bad for a slot that was not rewritten).  Guest code, host callbacks, *)
(* further instantiations and deletions interleave through the call stack. *)
(*                                                                         *)
(* A slot holds a managed object, a function of an instance or Nil, with   *)
(* an honest tag.  A module is a plan: what its expressions produce.       *)
(***************************************************************************)
EXTENDS Naturals, FiniteSets, Sequences, SequencesExt

CONSTANTS
  Inst,        \* wasm_instance_t allocations; a freed one is not used again
  Obj,         \* managed objects
  Plan,        \* Module -> [imports, globals, tables, elems, data, start]
  MaxCalls,    \* bound on the nesting of calls, callbacks and instantiations
  Nil, Cluster \* the null reference; &vm->cluster

Module == DOMAIN Plan
Func(i) == <<"func", i>>
Table(i, n) == <<i, n>>

ASSUME InstancesAssumption ==
  /\ Nil \notin Obj \cup Inst /\ Cluster \notin Inst
  /\ \A i \in Inst : Func(i) \notin Obj \cup {Nil}
  /\ MaxCalls \in Nat

\* What a constant expression produces: a new object, a function of the
\* module, or null.
Expr    == {"alloc", "func", "null"}
Segment == [mode : {"active", "passive", "declarative"}, items : Seq(Expr)]

ASSUME PlanAssumption ==
  \A m \in Module :
    /\ {Plan[m].imports, Plan[m].data, Plan[m].start} \subseteq BOOLEAN
    /\ Plan[m].globals \in Seq(Expr) /\ Plan[m].tables \in Seq(Expr)
    /\ Plan[m].elems \in Seq(Segment)

VARIABLES
  state,    \* Inst -> "unused", "building", "live", "trapped" or "freed"
  mod,      \* Inst -> the module it instantiates
  exporter, \* Inst -> the instance whose table it imports, or Nil
  at,       \* Inst -> [stage, n]: where its construction is
  globals,  \* Inst -> global_store
  tabs,     \* Inst -> tables: the store tables it sees, imports first
  store,    \* heap->tables: table -> its slots
  segs,     \* Inst -> elem_segs and elem_dropped
  parked,   \* Inst -> the items of the segment being built, in elem_pool
  view,     \* Inst -> the facets of out->ctx: [tables, nsegs]
  ctx,      \* vm->frame.ctx
  stack,    \* the C stack: calls, callbacks and instantiations
  insts,    \* store->insts
  heap      \* the objects not swept

shape == <<state, mod, exporter, at>>
slots == <<globals, tabs, store, segs, parked>>
vars == <<shape, slots, view, ctx, stack, insts, heap>>

Init ==
  /\ state = [i \in Inst |-> "unused"] /\ mod = [i \in Inst |-> Nil]
  /\ exporter = [i \in Inst |-> Nil] /\ at = [i \in Inst |-> [stage |-> "globals", n |-> 1]]
  /\ globals = [i \in Inst |-> << >>] /\ tabs = [i \in Inst |-> << >>]
  /\ store = << >> /\ segs = [i \in Inst |-> << >>] /\ parked = [i \in Inst |-> << >>]
  /\ view = [i \in Inst |-> [tables |-> FALSE, nsegs |-> 0]]
  /\ ctx = Cluster /\ stack = << >> /\ insts = {} /\ heap = {}

\* What runs: at the bottom of the stack the embedder does.
Top == IF stack = << >> THEN [kind |-> "host", inst |-> Nil, saved |-> Nil] ELSE Last(stack)
Building(i) == Top.kind = "build" /\ Top.inst = i
Guest  == Top.kind = "call"
InHost == Top.kind = "host"
P(i)   == Plan[mod[i]]

\* Not freed since it was made; activation k instantiates i.
Present(i)    == state[i] \in {"building", "live", "trapped"}
IsBuild(k, i) == stack[k].kind = "build" /\ stack[k].inst = i
-----------------------------------------------------------------------------
(***************************************************************************)
(* Roots and collections.                                                  *)
(***************************************************************************)

Managed(S) == S \cap Obj
Live(sg)   == {k \in DOMAIN sg : ~ sg[k].dropped}

TableSlots(ts)   == UNION {ToSet(store[t]) : t \in ToSet(ts)}
SegmentSlots(sg) == UNION {ToSet(sg[k].vals) : k \in Live(sg)}

\* jav_instance_visit_roots
InstRoots(i) == ToSet(globals[i]) \cup TableSlots(tabs[i]) \cup SegmentSlots(segs[i])

\* jav_gc_enum_roots on the bound context b, which may not have every facet; of
\* one that was freed nothing is assumed but that it protects nothing.
BoundRoots(b) ==
  IF b = Cluster \/ state[b] = "freed" THEN {}
  ELSE ToSet(globals[b])
       \cup (IF view[b].tables THEN TableSlots(tabs[b]) ELSE {})
       \cup SegmentSlots(SubSeq(segs[b], 1, view[b].nsegs))

Roots(b) == Managed(BoundRoots(b) \cup UNION {InstRoots(i) : i \in insts})

\* Everything an instance still under construction or in use can read.
Slots(i) == InstRoots(i) \cup ToSet(parked[i])

\* gc_alloc of o while b is bound: with or without a collection first.  The
\* name of an object is free again when no slot holds it.
Alloc(o, b) ==
  /\ o \in Obj /\ \A i \in Inst : state[i] # "freed" => o \notin Slots(i)
  /\ \E kept \in {heap, heap \cap Roots(b)} : o \notin kept /\ heap' = kept \cup {o}

\* A constant expression e evaluated by instance i leaves v.
Eval(e, i, v) ==
  \/ e = "alloc" /\ v \in Obj /\ Alloc(v, ctx)
  \/ e = "func" /\ v = Func(i) /\ UNCHANGED heap
  \/ e = "null" /\ v = Nil /\ UNCHANGED heap

Value(i) == Obj \cup {Func(i), Nil}
-----------------------------------------------------------------------------
(***************************************************************************)
(* jav_instantiate.                                                        *)
(***************************************************************************)

\* wasm_instance_new down to link_imports.
New(m, i, e) ==
  /\ InHost /\ Len(stack) < MaxCalls
  /\ state[i] = "unused"
  /\ IF Plan[m].imports THEN e \in Inst /\ state[e] = "live" /\ tabs[e] # << >> ELSE e = Nil
  /\ state' = [state EXCEPT ![i] = "building"]
  /\ mod' = [mod EXCEPT ![i] = m]
  /\ exporter' = [exporter EXCEPT ![i] = e]
  /\ globals' = [globals EXCEPT ![i] = [g \in DOMAIN Plan[m].globals |-> Nil]]
  /\ tabs' = [tabs EXCEPT ![i] = IF Plan[m].imports THEN <<tabs[e][1]>> ELSE << >>]
  /\ stack' = Append(stack, [kind |-> "build", inst |-> i])
  /\ ctx' = i
  /\ UNCHANGED <<at, store, segs, parked, view, insts, heap>>

\* An import does not match: JAV_UNLINKABLE, and wasm_instance_new frees the
\* instance.
LinkFails(m, i) ==
  /\ InHost /\ Len(stack) < MaxCalls
  /\ state[i] = "unused" /\ Plan[m].imports
  /\ state' = [state EXCEPT ![i] = "freed"]
  /\ ctx' = i
  /\ UNCHANGED <<mod, exporter, at, slots, view, stack, insts, heap>>

Goto(i, s, n) == at' = [at EXCEPT ![i] = [stage |-> s, n |-> n]]

\* A defined global's initialiser.
InitGlobal(i, v) ==
  /\ Building(i) /\ at[i].stage = "globals" /\ at[i].n \in DOMAIN P(i).globals
  /\ Eval(P(i).globals[at[i].n], i, v)
  /\ globals' = [globals EXCEPT ![i][at[i].n] = v]
  /\ Goto(i, "globals", at[i].n + 1)
  /\ UNCHANGED <<state, mod, exporter, tabs, store, segs, parked, view, ctx, stack, insts>>

\* A defined table, filled with its initialiser's value.
InitTable(i, v) ==
  /\ Building(i) /\ at[i].stage = "globals" /\ at[i].n > Len(P(i).globals)
  /\ LET d == at[i].n - Len(P(i).globals) IN
       /\ d \in DOMAIN P(i).tables
       /\ Eval(P(i).tables[d], i, v)
       /\ store' = [t \in DOMAIN store \cup {Table(i, d)} |->
                      IF t = Table(i, d) THEN <<v, v>> ELSE store[t]]
       /\ tabs' = [tabs EXCEPT ![i] = Append(@, Table(i, d))]
  /\ Goto(i, "globals", at[i].n + 1)
  /\ UNCHANGED <<state, mod, exporter, globals, segs, parked, view, ctx, stack, insts>>

\* Mutant of Trapped: the instance is freed like an unlinkable one.
TrappedFreed(i) ==
  /\ state' = [state EXCEPT ![i] = "freed"]
  /\ insts' = insts \ {i}

\* JAV_UNINSTANTIABLE: wasm_instance_new keeps the instance until the store goes.
Trapped(i) ==
  /\ state' = [state EXCEPT ![i] = "trapped"]
  /\ insts' = insts

Pop == stack' = SubSeq(stack, 1, Len(stack) - 1)

\* A table (or, before the first one, a memory) cannot be backed:
\* JAV_E_ALLOCATION_FAILED, after the table's initialiser was evaluated.
AllocationFails(i) ==
  /\ Building(i) /\ at[i].stage = "globals"
  /\ \E d \in DOMAIN P(i).tables :
       /\ at[i].n = Len(P(i).globals) + d
       /\ \/ UNCHANGED heap
          \/ P(i).tables[d] = "alloc" /\ heap' = heap \cap Roots(ctx)
  /\ Trapped(i) /\ Pop
  /\ UNCHANGED <<mod, exporter, at, slots, view, ctx>>

\* Mutant of AllocModule: the store learns of the instance at the end only.
AllocModuleUntracked(i) ==
  /\ Building(i) /\ at[i].stage = "globals"
  /\ at[i].n > Len(P(i).globals) + Len(P(i).tables)
  /\ view' = [view EXCEPT ![i] = [tables |-> TRUE, nsegs |-> 0]]
  /\ insts' = insts
  /\ Goto(i, "elems", 1)
  /\ UNCHANGED <<state, mod, exporter, slots, ctx, stack, heap>>

\* Everything is allocated: the first jav_fill_ctx and on_inst_alloc.
AllocModule(i) ==
  /\ Building(i) /\ at[i].stage = "globals"
  /\ at[i].n > Len(P(i).globals) + Len(P(i).tables)
  /\ view' = [view EXCEPT ![i] = [tables |-> TRUE, nsegs |-> 0]]
  /\ insts' = insts \cup {i}
  /\ Goto(i, "elems", 1)
  /\ UNCHANGED <<state, mod, exporter, slots, ctx, stack, heap>>

\* The next item of an element segment, into elem_pool.
ElemItem(i, v) ==
  /\ Building(i) /\ at[i].stage = "elems" /\ at[i].n \in DOMAIN P(i).elems
  /\ LET items == P(i).elems[at[i].n].items IN
       /\ Len(parked[i]) < Len(items)
       /\ Eval(items[Len(parked[i]) + 1], i, v)
  /\ parked' = [parked EXCEPT ![i] = Append(@, v)]
  /\ UNCHANGED <<shape, globals, tabs, store, segs, view, ctx, stack, insts>>

Register(i, dropped) ==
  /\ Building(i) /\ at[i].stage = "elems" /\ at[i].n \in DOMAIN P(i).elems
  /\ Len(parked[i]) = Len(P(i).elems[at[i].n].items)
  /\ segs' = [segs EXCEPT ![i] = Append(@, [vals |-> parked[i], dropped |-> dropped])]
  /\ parked' = [parked EXCEPT ![i] = << >>]

\* A passive or declarative segment is registered.
KeepSegment(i) ==
  /\ Register(i, P(i).elems[at[i].n].mode = "declarative")
  /\ P(i).elems[at[i].n].mode # "active"
  /\ Goto(i, "elems", at[i].n + 1)
  /\ UNCHANGED <<state, mod, exporter, globals, tabs, store, view, ctx, stack, insts, heap>>

\* An active segment is written to table 0 at offset o, or is out of bounds.
ActiveSegment(i, o) ==
  /\ Register(i, TRUE)
  /\ P(i).elems[at[i].n].mode = "active"
  /\ LET t == tabs[i][1]
         n == Len(parked[i]) IN
     \/ /\ o + n <= Len(store[t])
        /\ store' = [store EXCEPT ![t] = [k \in DOMAIN @ |->
                       IF k \in o + 1 .. o + n THEN parked[i][k - o] ELSE @[k]]]
        /\ Goto(i, "elems", at[i].n + 1)
        /\ UNCHANGED <<state, stack, insts>>
     \/ /\ o + n > Len(store[t])
        /\ Trapped(i) /\ Pop
        /\ UNCHANGED <<at, store>>
  /\ UNCHANGED <<mod, exporter, globals, tabs, view, ctx, heap>>

AfterSegments(i) ==
  /\ Building(i) /\ at[i].stage = "elems" /\ at[i].n = Len(P(i).elems) + 1

\* An active data segment is out of bounds.
DataTraps(i) ==
  /\ AfterSegments(i) /\ P(i).data
  /\ Trapped(i) /\ Pop
  /\ UNCHANGED <<mod, exporter, at, slots, view, ctx, heap>>

\* The data segments are in place: the second jav_fill_ctx, then the start
\* function is called, or the instance is ready.
Complete(i) ==
  /\ AfterSegments(i)
  /\ view' = [view EXCEPT ![i] = [tables |-> TRUE, nsegs |-> Len(segs[i])]]
  /\ Goto(i, "start", 1)
  /\ IF P(i).start
     THEN /\ stack' = Append(stack, [kind |-> "call", inst |-> i, saved |-> i])
          /\ UNCHANGED state
     ELSE Pop /\ state' = [state EXCEPT ![i] = "live"]
  /\ ctx' = i
  /\ UNCHANGED <<mod, exporter, slots, insts, heap>>

\* The start function has returned, or trapped.
StartEnds(i) ==
  /\ Building(i) /\ at[i].stage = "start"
  /\ Pop
  /\ \/ state' = [state EXCEPT ![i] = "live"] /\ UNCHANGED insts
     \/ Trapped(i)
  /\ UNCHANGED <<mod, exporter, at, slots, view, ctx, heap>>
-----------------------------------------------------------------------------
(***************************************************************************)
(* Guest code, running in the instance ctx.                                *)
(***************************************************************************)

\* A fresh object goes into a global, a table slot, or nowhere.
GuestAlloc(o) ==
  /\ Guest /\ Alloc(o, ctx)
  /\ \/ \E g \in DOMAIN globals[ctx] : globals' = [globals EXCEPT ![ctx][g] = o] /\ UNCHANGED store
     \/ \E t \in ToSet(tabs[ctx]), k \in {1, 2} :
          store' = [store EXCEPT ![t][k] = o] /\ UNCHANGED globals
     \/ UNCHANGED <<globals, store>>
  /\ UNCHANGED <<shape, tabs, segs, parked, view, ctx, stack, insts>>

\* The segments the running code knows of.
Usable == Live(segs[ctx]) \cap 1 .. view[ctx].nsegs

\* table.init of one slot from a segment that was not dropped.
GuestTableInit ==
  /\ Guest /\ tabs[ctx] # << >>
  /\ \E s \in Usable : \E v \in ToSet(segs[ctx][s].vals) :
       store' = [store EXCEPT ![tabs[ctx][1]][1] = v]
  /\ UNCHANGED <<shape, globals, tabs, segs, parked, view, ctx, stack, insts, heap>>

\* elem.drop
GuestElemDrop ==
  /\ Guest
  /\ \E s \in Usable : segs' = [segs EXCEPT ![ctx][s].dropped = TRUE]
  /\ UNCHANGED <<shape, globals, tabs, store, parked, view, ctx, stack, insts, heap>>

Push(kind, i) ==
  /\ Len(stack) < MaxCalls
  /\ stack' = Append(stack, [kind |-> kind, inst |-> i, saved |-> ctx])
  /\ UNCHANGED <<shape, slots, view, insts, heap>>

\* call_indirect through a table, and a call of an imported host function.
GuestCall(i) ==
  /\ Guest /\ Func(i) \in TableSlots(tabs[ctx])
  /\ Push("call", i) /\ ctx' = i

HostCallback == Guest /\ Push("host", ctx) /\ UNCHANGED ctx

\* A call or a callback is over: jav_call_fn and wasm_func_call put the
\* caller's frame back.
Return ==
  /\ stack # << >> /\ Top.kind # "build"
  /\ ctx' = Top.saved /\ Pop
  /\ UNCHANGED <<shape, slots, view, insts, heap>>
-----------------------------------------------------------------------------
(***************************************************************************)
(* The embedder, at the top level or in a callback.                        *)
(***************************************************************************)

\* wasm_func_call of an export.
CallExport(i) == InHost /\ state[i] = "live" /\ Push("call", i) /\ ctx' = i

\* An API function boxes a host reference: a collection may run.
HostAlloc ==
  /\ InHost
  /\ heap' = heap \cap Roots(ctx)
  /\ UNCHANGED <<shape, slots, view, ctx, stack, insts>>

\* The embedder deletes an instance nothing refers to: it is not running,
\* was not imported from, and none of its functions is in a table of another.
Unused(i) ==
  /\ \A k \in DOMAIN stack : stack[k].inst # i
  /\ \A j \in Inst \ {i} : Present(j) =>
       exporter[j] # i /\ Func(i) \notin InstRoots(j)

\* Mutant of Delete: the store goes on tracking the instance.
DeleteTracked(i) ==
  /\ InHost /\ state[i] = "live" /\ Unused(i)
  /\ state' = [state EXCEPT ![i] = "freed"]
  /\ insts' = insts
  /\ ctx' = IF ctx = i THEN Cluster ELSE ctx
  /\ UNCHANGED <<mod, exporter, at, slots, view, stack, heap>>

\* wasm_instance_delete
Delete(i) ==
  /\ InHost /\ state[i] = "live" /\ Unused(i)
  /\ state' = [state EXCEPT ![i] = "freed"]
  /\ insts' = insts \ {i}
  /\ ctx' = IF ctx = i THEN Cluster ELSE ctx
  /\ UNCHANGED <<mod, exporter, at, slots, view, stack, heap>>
-----------------------------------------------------------------------------
Build(i) ==
  \/ \E v \in Value(i) : InitGlobal(i, v) \/ InitTable(i, v) \/ ElemItem(i, v)
  \/ AllocationFails(i) \/ AllocModule(i)
  \/ KeepSegment(i) \/ \E o \in 0 .. 2 : ActiveSegment(i, o)
  \/ DataTraps(i) \/ Complete(i) \/ StartEnds(i)

Next ==
  \/ \E i \in Inst :
       \/ \E m \in Module : LinkFails(m, i) \/ \E e \in Inst \cup {Nil} : New(m, i, e)
       \/ Build(i)
       \/ GuestCall(i) \/ CallExport(i) \/ Delete(i)
  \/ \E o \in Obj : GuestAlloc(o)
  \/ GuestTableInit \/ GuestElemDrop
  \/ HostCallback \/ Return \/ HostAlloc

Spec == Init /\ [][Next]_vars
-----------------------------------------------------------------------------

\* The stack nests instantiations of different instances, each still being
\* built; the store tracks exactly the instances that were allocated and not
\* deleted, and a table slot holds a value.
InstancesTypeOK ==
  /\ insts \subseteq {i \in Inst : Present(i)}
  /\ \A i \in Inst : state[i] = "live" => i \in insts
  /\ \A k \in DOMAIN stack : stack[k].kind = "build" => state[stack[k].inst] = "building"
  /\ \A i \in Inst : state[i] = "building" => \E k \in DOMAIN stack : IsBuild(k, i)
  /\ \A i \in Inst, k, l \in DOMAIN stack : IsBuild(k, i) /\ IsBuild(l, i) => k = l
  /\ \A t \in DOMAIN store : ToSet(store[t]) \subseteq UNION {Value(i) : i \in Inst}
  /\ heap \subseteq Obj

\* The instances whose code can still run, and read their slots: those being
\* built, those the embedder holds, and those that trapped with a function in
\* a table that the store knows of.
InUse == {i \in Inst : \/ state[i] \in {"building", "live"}
                       \/ state[i] = "trapped" /\ \E j \in insts : Func(i) \in TableSlots(tabs[j])}

\* A managed object in a slot of an instance that is in use survives every
\* collection, also one that runs in the middle of an instantiation or in
\* another instance (jav_instance.c: "T_GCREF entries in a live segment are
\* GC roots").
NothingLost == \A i \in InUse : Managed(Slots(i)) \subseteq heap

\* Every function in a table that an instance in use can see belongs to an
\* instance that still exists: what a failed instantiation left in a shared
\* table can be called (wasm_instance_new's comment on trapped instances).
NoDanglingFunction ==
  \A i \in InUse : \A j \in Inst :
    Func(j) \in InstRoots(i) => Present(j)

\* The context the vm runs in belongs to an instance that still exists
\* (wasm_instance_delete: "don't leave frame.ctx dangling").
ContextAlive == ctx \in Inst => state[ctx] # "freed"
-----------------------------------------------------------------------------
(***************************************************************************)
(* Why nothing is lost and no function dangles: the inductive invariant.   *)
(***************************************************************************)

Val   == Obj \cup {Nil} \cup {Func(i) : i \in Inst}
Frame == [kind : {"build"}, inst : Inst]
         \cup [kind : {"call", "host"}, inst : Inst, saved : Inst \cup {Cluster}]

Shapes ==
  /\ state \in [Inst -> {"unused", "building", "live", "trapped", "freed"}]
  /\ mod \in [Inst -> Module \cup {Nil}] /\ \A i \in Inst : Present(i) => mod[i] \in Module
  /\ exporter \in [Inst -> Inst \cup {Nil}]
  /\ at \in [Inst -> [stage : {"globals", "elems", "start"}, n : Nat \ {0}]]
  /\ globals \in [Inst -> Seq(Val)] /\ tabs \in [Inst -> Seq(DOMAIN store)]
  /\ DOMAIN store \subseteq Inst \X Nat /\ store \in [DOMAIN store -> [1 .. 2 -> Val]]
  /\ segs \in [Inst -> Seq([vals : Seq(Val), dropped : BOOLEAN])]
  /\ parked \in [Inst -> Seq(Val)]
  /\ view \in [Inst -> [tables : BOOLEAN, nsegs : Nat]]
  /\ ctx \in Inst \cup {Cluster} /\ stack \in Seq(Frame)
  /\ insts \subseteq Inst /\ heap \subseteq Obj

\* Instantiations nest in one another only through callbacks, so all but the
\* innermost have come to their start function; the running code is bound to
\* its own instance.
StackNests ==
  /\ \A k \in DOMAIN stack :
       /\ Present(stack[k].inst)
       /\ stack[k].kind = "build" =>
            /\ state[stack[k].inst] = "building"
            /\ at[stack[k].inst].stage # "start" => k = Len(stack) /\ ctx = stack[k].inst
       /\ k > 1 /\ stack[k - 1].kind = "call" =>
            stack[k].kind # "build" /\ stack[k].saved = stack[k - 1].inst
  /\ \A i \in Inst : state[i] = "building" => \E k \in DOMAIN stack : IsBuild(k, i)
  /\ \A i \in Inst, k, l \in DOMAIN stack : IsBuild(k, i) /\ IsBuild(l, i) => k = l
  /\ Guest => ctx = Top.inst

\* The store tracks every instance once its slots are allocated, and so every
\* one whose code runs.
StoreTracks ==
  /\ \A k \in DOMAIN stack : stack[k].kind # "build" => stack[k].inst \in insts
  /\ insts \subseteq {i \in Inst : Present(i)}
  /\ \A i \in Inst : state[i] = "live" => i \in insts
  /\ \A i \in Inst : state[i] = "building" /\ at[i].stage # "globals" => i \in insts
  /\ \A i \in Inst : Present(i) /\ exporter[i] # Nil => state[exporter[i]] = "live"

\* The tables of an instance are made one after another.
TablesInOrder ==
  \A i \in Inst : \A t \in DOMAIN store : t[1] = i =>
    /\ state[i] # "unused"
    /\ state[i] = "building" /\ at[i].stage = "globals" => Len(P(i).globals) + t[2] < at[i].n

\* What an instance holds before it has come so far is nothing.
SlotsInTurn ==
  /\ TablesInOrder
  /\ \A i \in Inst : state[i] = "unused" => at[i].stage = "globals" /\ at[i].n = 1
  /\ \A i \in Inst : state[i] = "unused" \/ (state[i] = "building" /\ at[i].stage = "globals")
                       => segs[i] = << >>
  /\ \A i \in Inst : parked[i] # << >> =>
       state[i] = "building" /\ at[i].stage = "elems" /\ at[i].n \in DOMAIN P(i).elems

\* The instances the store tracks or that are being built; what trapped before
\* the store knew of it is out of everyone's sight.
Seen == insts \cup {i \in Inst : state[i] = "building"}

\* Every function in a slot of such an instance is its own or one the store
\* tracks.
FunctionsTracked ==
  \A i \in Seen : \A j \in Inst : Func(j) \in Slots(i) => j \in insts \cup {i}

InstancesInv == Shapes /\ StackNests /\ StoreTracks /\ SlotsInTurn /\ FunctionsTracked

\* The precondition of NothingLost: no module has two tables whose
\* initialisers allocate, or a segment with two such items.
OneAllocation(es) == \A c, d \in DOMAIN es : es[c] = "alloc" /\ es[d] = "alloc" => c = d
PlansProtected ==
  \A m \in Module : /\ OneAllocation(Plan[m].tables)
                    /\ \A k \in DOMAIN Plan[m].elems : OneAllocation(Plan[m].elems[k].items)

\* The tables an instance sees before the store tracks it: its exporter's,
\* and its own as far as they are made, with what their initialisers left.
TablesInTurn ==
  \A i \in Inst : state[i] = "building" /\ at[i].stage = "globals" =>
    \A t \in ToSet(tabs[i]) :
      \/ exporter[i] \in Inst /\ t \in ToSet(tabs[exporter[i]])
      \/ \E d \in DOMAIN P(i).tables :
           /\ t = Table(i, d) /\ Len(P(i).globals) + d < at[i].n
           /\ P(i).tables[d] = "alloc" \/ Managed(ToSet(store[t])) = {}

\* Only an item that allocates has left an object in the pool.
ItemsInTurn ==
  \A i \in Inst : \A k \in DOMAIN parked[i] :
    parked[i][k] \in Obj => P(i).elems[at[i].n].items[k] = "alloc"

\* What a slot of a tracked instance or of one under construction holds is
\* still there.
SlotsKept == \A i \in Seen : Managed(Slots(i)) \subseteq heap

KeptInv == InstancesInv /\ TablesInTurn /\ ItemsInTurn /\ SlotsKept
=============================================================================
