# A TLA+ development of javelina

javelina is an embeddable WebAssembly 3.0 engine in C11 (`wasm/`), with a
Java-to-Wasm-GC compiler (`compiler/`) that serves as the instrument exercising
it.  This directory holds TLA+ models of the engine's run-time core, the TLC
configurations that check them on small instances, and TLAPS proofs of what
matters most.  Line references below are to the repository's files.

Contents: [1 Inventory](#1-inventory) - [2 Modules](#2-modules) -
[3 Runs](#3-runs) - [4 Disagreements found](#4-disagreements-found) -
[5 Proofs](#5-proofs) - [6 Abstractions](#6-abstractions-and-what-is-left-out) -
[7 Plan](#7-plan)

## 1 Inventory

The engine is single-threaded.  What makes it hard is not parallelism but
re-entrancy and shared mutable state: one `vm_t` per store carries the running
frame, the handler stack, the trap, unwinding and tail-call flags, and every
guest function, host callback, instantiation and collection works on it.

| Component | State | Operations | Interacts with |
|---|---|---|---|
| Line map, block (`immix_line_map.c`, `immix_block.c`, `immix_block_allocator.c`) | a line bitmap, an object-start bitmap, the last sweep's statistics, a pool of blocks | mark an object's lines, next hole, count holes, classify; acquire a block | the space |
| Immix space (`immix_space.c`) | block lists (free, recyclable, unavailable, evacuation reserve), the small and the medium allocator's cursors, evacuation targets and cursor | allocate, select candidates, begin/end evacuation, allocate for evacuation, mark, reclaim | the heap calls it; nothing else does |
| Garbage-collected heap (`jav_gc.c`) | object headers (epoch, forwarding), large objects, epoch, live bytes, budget, worklist | `gc_alloc`, `gc_collect` (enumerate roots, trace, move, sweep) | root callbacks into the runtime, the instances, the C API |
| Calls, tail calls, exceptions (`jav_runtime.c`, `jav_frame.h`, `interp.c`) | `vm->frame`, value stack, locals store, handlers, call depth, `trapped`, `tail_pending`, `unwinding` | `jav_call_fn`, `jav_return_call`, `jav_try_table`, `do_throw`, trap | the two tiers run the bodies; host thunks re-enter |
| C API (`wasm_capi.c`) | handles with reference counts and root tables, saved activations | `wasm_func_call`, `capi_host_invoke`, instance/module/store lifetime, reflection | calls, instantiation, roots |
| Instances (`jav_instance.c`, `jav_extern.c`) | functions, globals, tables, memories, segments, the context they publish | link, allocate, initialise, copy active segments, start | calls (start function), heap (constant expressions) |
| Roots (`jav_gc_enum_roots`, `jav_instance_visit_roots`, C-API roots) | a tag beside each slot of stack, locals, globals, tables, segments, handlers | enumerate and rewrite | the heap |
| Store objects (`heap.h`, `jav_mem.h`) | memories, tables, element and data segments | load/store with bounds, grow, init, copy, drop | instances share them |
| Aggregates, casts (`jav_runtime.c`, `jav_subtype.c`) | none of their own | struct/array access, `ref.test`, `ref.cast`, indirect call checks | closed-type registry |
| Closed-type registry (`jav_module_index.c`, `jav_subtype.c`) | interned recursive types and layouts of a store | absorb a module, intern a host's function type, canonicalise, subtype | instantiation, casts |
| Validation (`validate.c`, `jav_module_validate.c`) | operand and control stacks per function | one pass over a body; one per section | gives the interpreter its side table; its subtype check is what casts trust |
| Compiling tier (`jit_driver.c`, `jav_ttree.c`, `jav_eqsat.c`) | stamped code, cached operands, an e-graph | compile, enter | same run protocol as the interpreter |
| Text toolchain (`wat_*.c`, `water.c`) | per-pass trees | assemble | none at run time |
| Java compiler (`compiler/src/compiler`) | per-pass IR | parse, type, analyse, optimise, emit | produces modules |

Where the difficulty lies, and what makes each part correct:

* **Storage.** A small object that runs over a line boundary leaves its second
  line unmarked; correctness needs the hole search to skip that line, the
  cursors to agree with the marks through refills, failures and collections,
  and the evacuation reserve to be really empty.  *No word belongs to two
  objects; "empty" blocks hold none; the collector never evacuates a block it
  evacuates into.*
* **Collection.** Slots are visited before and after their object moved, targets
  may run out half way, the large-object sweep depends on the order of two
  statements, the epoch has 32 bits.  *No reference the program can reach
  dangles; exactly the reachable objects survive; the program cannot tell that a
  collection took place; the collection ends.*
* **Control.** Handlers are pruned lazily by comparing code positions, a tail
  call reuses frame and depth, an exception crosses activations one by one, a
  callback re-enters and overwrites the frame it runs in, four flags are set in
  one place and cleared in another.  *The handlers in force are the try_tables
  around the instruction; operand heights are the validator's; each function runs
  in its own instance; a trap, an exception, a tail call belongs to the call it
  was raised in.*
* **Instances.**  Instantiation may fail half way, a trapped one leaves an instance
  that persists because a shared table may hold its functions, constant expressions
  allocate while the instance is half built, a callback may instantiate and delete.
  *What a live slot holds survives every collection; no function in a table and no
  context belongs to a freed instance.*
* **Function bodies.**  A single pass over the bytes type-checks a body, tracks which
  locals are written, and lays down the side table by which the interpreter branches
  without labels: distances in bytes and in table entries, operands to keep and to
  drop.  Unreachable code is polymorphic, an if and its else share entries, a catch
  takes entries laid down at its try's start.  *Running through the side table is
  structured control; the operands are those the validator computed; no local without
  a default is read before it is written.*
* **Store objects.**  Addresses and lengths are 64-bit words whose sums wrap, limits
  come from the declaration, the address type and the engine, segments may be dropped,
  a copy within a table overlaps.  *The operations are those of plain unbounded arrays;
  growth stays within the engine's limits; no cell outside an array is touched; the
  tag of a table slot agrees with the reference.*
* **Roots.**  Whether a slot is a root is decided by a tag kept apart from the value,
  whether a cell is one by the object's layout; the layout of an exception is made from the
  tags of the first throw, a global's cell is shared and its tag is not, a cast trusts
  both.  *Wherever an instruction put it, an object the program can read is one the
  collector finds; what the collector follows is a reference; a cast is right about every
  operand.*
* **Types.**  A module's types refer to each other by number; the store interns them by
  the shape of their group with the ids of the types outside it, and keeps per id the
  supertype and the layout.  Casts, indirect calls and imports compare ids, or the
  module's own numbers where both sides are of one module.  *Two types have one id exactly
  if they are equal as recursive types, whatever module was absorbed first; a match accepts
  exactly the declared subtypes; what it accepts has the fields and operands that the
  compiled code expects.*

`PROJECT.json` lists all components with their status, and the hazards of this
code at the lines where they bite, with the properties that watch them.  Two hazards
have no property, an instantiation inside a callback (`jav_instance.c:238`) and the byte
size of an array (`jav_runtime.c:983`); their notes say why.

## 2 Modules

```
LineMap  <-  ImmixSpace  <-  GcHeap  --implements-->  ObjectGraph
                 |              |- MCGcHeap
                 |              `- GcHeap_proofs
                 |- ImmixSpace_proofs
                 `- MCImmixSpace
Calls  <-  MCCalls                Instances  <-  MCInstances
   `- Calls_proofs                    `- Instances_proofs

BodyCode  <-  SideTable  --implements-->  StructuredBody      (EXTENDS BodyCode)
                  |- SideTable_proofs
                  `- MCSideTable
StoreObjects  --implements-->  AbstractStore
   |- StoreObjects_proofs
   `- MCStoreObjects
TaggedSlots                       TypeSections  <-  ClosedTypes
   |- TaggedSlots_proofs                               |- ClosedTypes_proofs
   `- MCTaggedSlots                                    `- MCClosedTypes
```

**`LineMap`** (pure).  The geometry of a block and its line bitmap: `IsNextHole`
and `NoNextHole` are the two outcomes of `imx_lb_next_hole`, `Usable` its spill
rule, `ObjectLines` what `imx_block_mark_object` marks, `CountHoles` the sweep's
statistics.  Lines are numbered from the first data line; words are
`IMX_OBJECT_ALIGN` bytes.

**`ImmixSpace`** (EXTENDS LineMap).  The space of `immix_space.c`, for any client.
State: `all`, `lineMarks`, the defragmentation statistics and candidate flags, the
block lists, the two allocators' cursors (`small`, `medium`), the evacuation
allocator (`evac`, `targets`, `untouched`), and the extents of the objects
(`objs`, the object-start bitmap; `live`, those marked so far).

| Action | Code |
|---|---|
| `AllocSmallBump`, `AllocSmallNextHole`, `AllocSmallNextBlock` | `alloc_small` with `refill_small`: fast path, next hole of the block, next block |
| `AllocMedium` | `alloc_medium` |
| `AllocateFails` | `imx_space_allocate` returning NULL, with the recyclable blocks it consumed |
| `BeginCollection` | `imx_space_clear_marks`, `imx_space_begin_evacuation` with `select_candidates` |
| `MarkInPlace`, `Evacuate` | what `gc_mark1` does to the space: mark, or copy into a target |
| `EndCollection` | `imx_space_end_evacuation`, `imx_space_reclaim` |

The client is left open: a collection marks any set of objects, in any order.

**`GcHeap`** (EXTENDS ImmixSpace).  `jav_gc.c`: headers (`mem[r].epoch`,
`.forward`), the large-object space, the epoch, `liveBytes`, and a collection as
interleaved slot visits (`VisitDone`, `VisitUnmarked`) and worklist pops (`Trace`),
every step one that the code takes in some order.  The program's side is `New`,
`NewLarge`, `NewFails`, `Store`, `Load`, `Assign`.  A collection begins at any point
where the program runs, which is what `GC_STRESS` does and includes what the
allocation budget does.

**`ObjectGraph`**.  What a heap promises: a graph of objects, roots into it, four
operations, and no collector.  `GcHeap!ImplementsObjectGraph` is the refinement, by
the identity an address stands for (`IdOf`, `Graph`).  Reachability is the smallest closed
set, in both modules, which is what the proofs reason with.

**`Calls`**.  Control flow of the engine: `cstack` is the C stack of
`jav_call_fn` activations, `frame`, `sp`, `handlers`, `depth`, `trapped`, `tail`
and `pending` are the fields of `vm_t`.

| Action | Code |
|---|---|
| `ApiCall`, `ApiStart` | `wasm_func_call` (from the embedder or from a callback); the start function in `jav_instantiate` |
| `Call`, `TailCall` | `jav_call_fn` and its guards (`Enter`, `Refuse`); `jav_return_call` |
| `TryTable`, `Throw`, `Br`, `Return`, `Trap`, `Plain` | the control instructions of a body and `jav_try_table`, `do_throw` |
| `WasmEnds`, `HostReturns`, `HostTraps` | the end of a run: the rest of `jav_call_fn` (`RunEnds`, `Finish`), continued in its caller or in the API function (`AfterApi`, `Unreported`) |

Two fields exist for the properties only and no guard but the callback's choice
reads them: `raised` and `owes` of an activation record that a trap was raised in
its run, or came back from a call its callback made.  `pending.level` records in
which API call an exception was thrown.  A program is a skeleton (`MCCalls`):
structured constructs at fixed places and, at each place marked `any`, every
instruction a validated body could have there.

**`Instances`**.  Instantiation and the lifetime of instances.  `at` is the place an
instantiation has reached, `globals`, `tabs`, `segs` and `parked` are the instance's
globals, tables, element segments and the pooled items of the segment being built;
`store` holds the slots of `heap->tables`, `view` what the published context shows,
`ctx` is `vm->frame.ctx`, `stack` the C stack and `insts` the store's list.

| Action | Code |
|---|---|
| `New`, `LinkFails` | `wasm_instance_new` and `jav_instantiate` up to `link_imports` |
| `InitGlobal`, `InitTable`, `AllocationFails` | initialisers of globals and tables |
| `AllocModule` | the first `jav_fill_ctx`, and `on_inst_alloc` (`capi_track_inst`) |
| `ElemItem`, `KeepSegment`, `ActiveSegment` | element segments, item by item |
| `DataTraps`, `Complete`, `StartEnds` | data segments, the second `jav_fill_ctx`, the start function |
| `GuestAlloc`, `GuestTableInit`, `GuestElemDrop`, `GuestCall`, `HostCallback`, `Return` | running guest code, through tables into other instances, and callbacks |
| `CallExport`, `HostAlloc`, `Delete` | the embedder, also inside a callback |

An allocation (`Alloc`) may collect first, and then keeps what `Roots` visits: the
bound context as far as it is filled in (`BoundRoots`) and the tracked instances
(`InstRoots`).  A module is a plan of what its constant expressions produce
(`MCInstances`).

**`BodyCode`** (pure).  A function body as a sequence of instructions, its block
structure (`EndOf`, `ElsesOf`), where a branch to a construct goes and how
many operands it carries.

**`SideTable`** (EXTENDS BodyCode).  The validator of `validate.c` and the machine that
runs what it accepted.  In the phase "validate" any instruction may come next: the state
is the validator's (`vals`, `ctrls`, `set` and `inits` for the locals, `st` and `trys`
under construction), the body is what it has read.  `Accept` turns the entries into
distances; in the phase "run" the state is the interpreter's (`pc`, `stp`, operand
stack, locals, handlers).

| Action | Code |
|---|---|
| `ReadBlock`, `ReadIf`, `ReadElse`, `ReadEnd`, `ReadBr`, `ReadBrIf`, `ReadBrTable`, `ReadReturn`, `ReadThrow`, `ReadTryTable`, `ReadUnreachable`, `ReadDrop`, `ReadLocalGet`, `ReadLocalSet`, `ReadConst` | the cases of `jav_typecheck_ex`, with `tc_pop_vals`, `tc_reset_locals`, the fixups of forward branches |
| `Accept`, `Reject` | the end of the pass (`Deltas` computes the distances); any failure |
| `RunIf`, `RunElse`, `RunBr`, `RunBrIf`, `RunBrTable` | the generated branches, all through `opgen_do_transfer` (`Transfer`) |
| `RunTryTable`, `RunThrow` | `jav_try_table`, `do_throw`, `prune_handlers` |
| `RunConst`, `RunDrop`, `RunLocalGet`, `RunLocalSet`, `RunMarker`, `RunReturn`, `RunTrap`, `RunFinish` | the other instructions, and the end of the run |

**`StructuredBody`** (EXTENDS BodyCode).  What a body means: a stack of labels and a
stack of operands, branches to labels, exceptions that go to the innermost try_table
that catches them.  It has no side table, no positions of entries and no pruning.
`SideTable!ImplementsStructured` is the refinement; the labels are the constructs
the validator had open at the place, with their heights.

**`StoreObjects`**.  Memories, tables and segments with the words of the C code: `U4` and
`U8` stand for 2^32 and 2^64, sums are taken modulo `U8`, operands of a 32-bit object
are below `U4`.  `Invoke` records an operation and its operands in `call`, the action of
that name performs it: loads and stores, fill, copy, init, drop, active segments, grow,
and the embedder's `wasm_memory_write`, `wasm_table_set`, `wasm_table_grow`.  `Allocate`
is `jav_mem_add`/`jav_table_add` of an instantiation.  A table slot is a reference and its
tag.  `stray` records that an operation reached past its array.

**`AbstractStore`**.  What the program is promised: arrays over the natural numbers, a
range inside or a trap without effect, copies that read before they write, growth to the
limit or a refusal, dropped segments that are empty.  `StoreObjects!ImplementsStore` is the
refinement.

**`TaggedSlots`**.  What the collector can see of a running program.  A slot of `stack`, of
a frame's locals or of a global is a value and a run-time tag (`value_types`,
`global_types`); an object of `heap` has a type and cells, and an exception the tags it was
thrown with; `exn_rtts` are the layouts `jav_exn_rtt_for` has made so far.  An operand also
carries the type the validator gave it, which the code does not keep: it decides which
instructions may come next, so that a program is any sequence of instructions a validated
function could execute, and the properties compare it with the value.  An allocation
collects first (`Allocated`, `Marked`), from the slots tagged `T_GCREF` and through the cells the
layouts name (`Roots`, `Traced`).

| Action | Code |
|---|---|
| `Const`, `Drop`, `Select`, `LocalGet`, `LocalSet` | `jav_push`/`jav_pop` with the value and the tag, `locals` and `local_types` |
| `GlobalGet`, `GlobalSet` | the shared cell and the running instance's `global_types` |
| `RefAsNonNull`, `RefCast` | `ref.as_non_null` (a handle is popped and pushed); `jav_ref_matches`, `value_heaptype` |
| `StructNew`, `StructNewDefault`, `StructGet`, `StructSet` | the generated handlers, `jav_struct_alloc`, `jav_struct_get_v`; `Offset` and `RefOffsets` are the layout of `build_rtts` |
| `ArrayNew`, `ArrayNewFixed`, `ArrayNewDefault`, `ArrayGet`, `ArraySet`, `ArrayFill`, `ArrayCopy` | the generated handlers, `jav_array_get_v` |
| `Throw`, `ThrowRef` | `jav_throw`, `jav_exn_rtt_for`, `do_throw` with any handler the program may have (`Caught`) |
| `HostCall`, `Call`, `Return` | `jav_call_fn`: the argument becomes a local, the other locals are zeroed, the result slides down |

**`TypeSections`** (pure).  A type section as a sequence of members in recursive groups, the
layout `build_rtts` makes for each, and the reference for what follows: when two types of
two sections are equal (`SameType`: alike, member for member, with references inside the
group compared by place and references out of it by equality), and when one is a declared
subtype of the other (`DeclaredSub`).  The reference knows no ids.

**`ClosedTypes`** (EXTENDS TypeSections).  The registry of a store: `reg` holds `keys`, `kinds`,
`supers` and `rtts` by global id as `jav_typereg` does, `insts` the instances with both their
numberings (`canon`, `gcanon`) and the layouts of their types, `work` the absorption under
way, `hosts` the ids of host function types.  The sections that instances have are those
the validator passes (`ValidSections`: `type_refs_in_scope`, `types_err`, `comptype_sub`).

| Action | Code |
|---|---|
| `Instantiate` | `jav_instantiate` begins to absorb the types of a valid module |
| `AbsorbNext` | one type in `jav_typereg_absorb`: its closed form (`KeyOf`, `CanonMember`, `CanonRef`), `canon_intern`, and for a new id kind, supertype and a stamped copy of the layout |
| `AbsorbDone` | `gcanon` and `interned_rtts` of the instance, from `jav_typereg_rtt` |
| `InternHost` | `jav_typereg_intern_functype`, for an import, an indirect call or a cast |

`HtSub` is `jav_ht_sub` over either numbering.  The matches are operators, evaluated in every
state between absorptions: `ObjectMatches` (`jav_ref_matches` with `rtt_typeidx`, `value_heaptype` and
`gcref_closed_matches`), `FuncMatches` (`jav_funcref_typematch`), `HostMatches`
(`funcref_closed_matches`) and `LinkMatches` (`link_imports`).

## 3 Runs

| Run | Instance | States | Properties |
|---|---|---|---|
| `immix_spill` | 1 block of 6 lines of 3 words, sizes 2 and 4 | 145,952 | `TypeOK`, `NoOverlap`, `SpaceInv` |
| `immix_headroom` | 3 blocks of 2 lines of 3 words, sizes 2 and 4 | 28,851 | `EmptyBlocksHoldNothing`, `TargetsAreNotCandidates` |
| `heap_graph` | 2 blocks, 3 identities, 2 roots, 1 field | 134,110 | `HeapTypeOK`, `NoDanglingReference`, `SweepSparesReachable`, `SweepIsExact`, `ImplementsObjectGraph` |
| `heap_large` | 1 large slot, an i31 value, fairness | 123,004 | `SweepIsExact`, `CollectionEnds` |
| `calls_mixed` | 4 functions, 2 instances, depth 3 | 122,382 | `CallsTypeOK`, `HandlersMatchScopes`, `StackMatchesTypes`, `ContextIsOwn`, `TrapIsOwn`, `ExceptionsStayInTheirCall`, `HostNotReplaced` |
| `calls_host_args` | two functions | violation | section 4 |
| `instances_shared` | 3 instances of 2 modules, 4 objects, nesting 3 | 404,648 | `InstancesTypeOK`, `NothingLost`, `NoDanglingFunction` |
| `instances_context` | one module, two instances | violation | section 4 |
| `body_mixed` | every body of up to 8 instructions out of 25 | 744,427 | `SideTableTypeOK`, `OperandsAsValidated`, `ReadsAreOfSetLocals`, `ImplementsStructured` |
| `store_ops` | 6 stores of one or two objects, words of 3 and 4 bits | 447,991 | `StoreTypeOK`, `WithinLimits`, `NoStrayAccess`, `TagsHonest`, `ImplementsStore` |
| `slots_typed` | 2 objects, a struct, two arrays, an exception, a global, 2 operands, 2 frames | 435,233 | `SlotsTypeOK`, `NoUntracedReference`, `FollowedAreReferences`, `CastsAreExact`, `ValuesHaveTypes` |
| `types_absorb` | all valid sections of up to 3 types in up to 3 groups out of 12, 2 instances, a host type | 345,781 | `ClosedTypesOK`, `IdsAreClosures`, `CastsAreRight`, `AcceptedValuesFit` |

**Bounds, and why they suffice.**

* *Geometry.*  A line of 3 words with objects of 2 and 4 words is the smallest in
  which a small object can cross a line boundary and a medium object needs two
  lines.  A second hole in a block needs a hole, a marked line, the line the spill
  rule skips and a hole behind it: four lines; six leave room for a medium object or
  a second skipped line as well.  `immix_spill` looks inside one block,
  `immix_headroom` at the traffic between blocks: two blocks are enough for one to be
  evacuated into the other, the third lets the free list, the reserve and the targets
  be non-empty together, and all three run out.
* *Heap.*  Two objects form a cycle; three with two roots give a shared object
  that is reached before and after it moved while another one is garbage.
  `MaxEpoch` 2 means two collections, the second choosing candidates from the
  first one's statistics with allocation in between.  `Id` bounds the objects the
  program holds at a time and identities are reused, so allocation never ends
  because of it.
* *Large objects* share the epoch and the sweep but not the blocks; one slot shows
  both outcomes of the sweep, and reuse after it.
* *Calls.*  Depth 3 is the first at which an exception crosses two frames, one of
  which may be a callback, and still meets the exhaustion guard.  `LocalsPool` 5 is
  small enough for some calls to be refused for locals, `StackPool` 24 with
  `MAX_STACK` 8 for operands.  The bodies have a try inside a try whose labels
  leave both, a loop with an operand beneath it, and a start function.
* *Instances.*  An exporter of a table and an importer that fills it from an active
  segment, keeps a passive one, and may trap in a segment, in its data or in its start
  function.  The third instance is a second exporter or importer, so that one can be
  instantiated or deleted while functions of the others are in a table or on the
  stack.  Nesting 3 (one more for a start function) is call, callback, instantiation.
  `Obj` bounds the objects that slots hold at a time.
* *Bodies.*  The instructions of `body_mixed` are all the kinds `BodyCode` knows, with
  block types that take and leave operands, with two tags and with clauses of three
  kinds.  Eight instructions hold an if with both arms and a branch out of one of them, a
  try_table whose body throws behind another construct, a loop that is left by a
  conditional branch.  `MAX_STACK` 3 is the engine's operand limit and small enough to be
  met; `MaxDead` 1 lets one instruction besides else and end be unreachable.
* *Stores.*  With `U4` = 8 and `U8` = 16 every sum of two words that can wrap does wrap for
  some operands; pages of 2 bytes, 2 pages and 3 slots put the engine's limits below the
  words' own.  The stores are a memory and a table alone and two between which an
  operation copies, of equal and of different address types, limits declared below and
  above the engine's.
* *Slots.*  `MaxStack` 2 and `MaxFrames` 2 hold an instruction with two operands, or a
  callee above an operand of its caller; one global, one local, one cell per array.  Two
  objects give one that is kept and one that is freed, an object inside another, and reuse
  of a freed one.  Types: a struct with an `anyref` before a vector, an array of `anyref`, one of
  `funcref`, an exception that carries a struct.  The values are an object, null, an i31, a
  function and a number, the five kinds whose confusion the tags prevent.
* *Types.*  Equality can go wrong between two modules, or two numbers of one, so two instances
  are enough; the second may be of the same module.  Of three groups the third can refer to
  the second and the second to the first, and the same group stands at places 0, 1 and 2,
  where its numbers mean different things.  The groups: structs that are wider, narrower
  and of another shape than their supertype, a mutable and an immutable reference to an
  earlier type, arrays, functions final and open, one with a supertype, and pairs that refer
  to each other, written twice with the numbers of different places.
* Blocks, identities, roots, instances and objects are symmetric; symmetry is not used in
  `heap_large`, which checks liveness.

**Deadlock** is not checked in the heap's configurations: a full memory with
`MaxEpoch` reached really stops; nor for `Instances`, where a full memory leaves a
constant expression without a value; nor for `SideTable` and `StoreObjects`: a body ends, and a
program whose allocation failed has no object to work on; nor for `TaggedSlots`, which stops
at an access through a wrong pointer or with a full heap; nor for `ClosedTypes`, which stops
when the last instance is there.  It is checked for `Calls`: some
instruction, or the end of a run, is always possible.

**Fairness.**  Only `FairHeapSpec` has it: weak fairness of the collector's steps.
`gc_collect` is a C loop without blocking calls; once entered, the next thing that
happens is its next iteration.  Nothing is assumed of the program.

**Mutants.**  Definitions named "Mutant of X" are variants of X with a plausible bug
(a guard dropped, an off-by-one, a flag not reset); each property of a passing run
is violated once the variant replaces the original.  They take no part in the
specifications.

`Instances!Delete` assumes of the embedder that it deletes an instance only when it is
not running, was not imported from and has no function in another one's table
(`Unused`): the engine does not count these references.

`HostIgnoresTraps` is the assumption about the embedder in `Calls`: with FALSE (the
passing run) a callback that received a trap from a call it made returns a trap
itself.  Bodies in the passing run never branch backwards over a try_table, and
its start function cannot throw.  These are the preconditions under which the
control properties hold; section 4 shows what happens without each of them.

Preconditions of the others: `TryInLoop` = FALSE keeps try_tables out of loops in
`body_mixed`, as the bodies of `Calls` do.  In `slots_typed`, `ref.as_non_null` is used on functions
and i31 only (`AsNonNullAt`) and `array.new` on arrays of functions only (`ArrayNewAt`), the
exception's parameter is a non-null struct, the global is seen by one instance, and the
vector is the struct's last field.  In `types_absorb` a host function's type is interned when a
module has declared it or when no module follows (`HostMayBeNew` = FALSE), and functions of
other instances are cast to concrete types.  In `store_ops` no
static offset takes an address past 2^64 (the sum of `wasm.def:190-193` would wrap),
active segments end below 2^64 (`ActiveAt`), the embedder grows tables by small amounts
(`HostDelta`), and declared table maxima fit 32 bits.  Section 4 says what happens without
each of them, the static offset excepted.

## 4 Disagreements found

Each of these runs checks one property and TLC violates it with a short trace.

* `calls_host_args` - `wasm_func_call` on re-entry sets `num_locals` to 0
  (`wasm_capi.c:1304`): the argument slots of the suspended callback, which
  `capi_host_invoke` calls rooted (`wasm_capi.c:957`), are reused and no longer
  scanned.
* `instances_context` - a call saves the context that was bound before it; if a callback
  deletes that context's instance, the restore at the call's end binds a freed context
  (`wasm_capi.c:1205, 1288, 1365`).  A link failure does the same in one step
  (`wasm_capi.c:1160`).

More that no run of the list shows, each with the property and the change to a configuration
under which TLC shows it:

* `array.new` pops its initial value into a C variable and allocates then
  (`gen_interp.c:2415`), against `jav_gc.c:37-39` ("allocating natives root their operands
  FIRST").  The value is on no scanned slot while the allocation collects: the array is
  filled with a pointer to storage that was freed, or left by a move.  `array.new_fixed` and
  `struct.new` leave their operands on the stack until the object is filled
  (`FollowedAreReferences`, with "A" in `ArrayNewAt`).
* `jav_typereg_intern_functype` gives a new id a kind and a supertype and no entry in `rtts`
  (`jav_module_index.c:379`), which is "kept parallel to r->keys ... so gid indexes it directly"
  (`:335-336`).  Every type absorbed later gets its neighbour's layout, and the last one none
  (`jav_typereg_rtt`): its objects are allocated with the wrong size and traced at the wrong
  offsets.  A host function whose type no module declared is enough: imported into a module
  that does not link, called indirectly or cast (`AcceptedValuesFit`, with `HostMayBeNew` = TRUE).
* a cast to a concrete type takes a value tagged `T_GCREF` for an object
  (`jav_runtime.c:942-945`); an i31 read from an `anyref` field has that tag, and `value_heaptype`
  says of it "ask the VALUE, not the tag" (`:891-897`).  The layout is read through the number
  (`CastsReadObjects`, in the configuration of `slots_typed` as it is; `RefCast` stops there).
* a cast of another instance's or the host's function to the abstract `func` decides by
  `fn->type_index` in the running module's lattice (`jav_runtime.c:887-889, 948`), which the
  comment above calls "garbage" for a foreign function (`:928-932`); a concrete target is
  treated apart, an abstract one is not.  `FuncMatches` says so, and `CastsAreRight` is stated for
  concrete targets of functions.

* `prune_handlers` (`jav_runtime.c:574`) drops a handler only when the position is past the
  end of its try block.  A backward branch to an enclosing loop leaves the block at a
  smaller position: the handler stays, may catch a throw from outside its block, and one
  more is pushed at each iteration (`HandlersMatchScopes`, with the program `Looping`; and
  `SideTableTypeOK`, with `TryInLoop` = TRUE: the handler's operands are gone).
* an if without else passes its parameters through as results, and `validate.c:537`
  compares only how many of each there are: the body of an `(if (param ref) (result i32))`
  without else is accepted, and leaves a reference where the code behind it was validated
  for an i32 (`OperandsAsValidated`, with `NoElseInstr` and `MaxLen` 7).
* `ref.as_non_null` pops a handle and pushes one (`gen_interp.c:2302`): a struct comes back with
  the tag of a function, and the root scan skips it (`NoUntracedReference`, with "P" in
  `AsNonNullAt`).
* the layout of an exception is made from the tags of the first throw of its tag
  (`jav_runtime.c:541`): if that one carried a null, the objects later ones carry are not
  traced (`NoUntracedReference`, with `RefNull("P")` in `MCParams`).
* a field's reference test takes every field for one cell (`jav_gc.h:160`), a vector takes two:
  a reference behind a vector is read with the tag of a number (`NoUntracedReference`, with
  `<<Numeric("v128"), AnyRef>>` in `MCFields`).
* a mutable global's cell is shared between the instances that see it, its tag is kept by each
  (`jav_frame.h:418`): after one stored an object, the other reads it with a stale tag
  (`NoUntracedReference`, with two instances and `SharedGlobal`).
* `jav_instantiate` (`jav_instance.c:488`) looks for a trap only.  A start function that
  ends by an exception is reported as success and the exception stays pending for the
  next call into the store (`ExceptionsStayInTheirCall`, with a start function that
  throws).
* the trap flag of a nested call survives a callback that ignores its result
  (`wasm_capi.c:949, 995`), and the guest that called the callback is reported as trapped when
  it ends (`TrapIsOwn`, with `HostIgnoresTraps`).
* the items of an element segment wait in `elem_pool` until the last one is evaluated,
  and no root scan visits the pool before the segment is registered
  (`jav_instance.c:425-431`).  A second item whose allocation collects loses the first, as two
  tables with allocating initialisers do (`jav_instance.c:366`).  In the passing run no
  segment has two such items and no module two such tables (`NothingLost`, with a plan
  that has).
* an active data segment is checked by `addr + len > mem->size` (`jav_instance.c:473`), whose sum
  wraps for an offset near 2^64 into a 64-bit memory; the element segments' check
  (`:446`) does not (`NoStrayAccess`, with 15 added to `ActiveAt`).
* `jav_tableinst_grow` (`jav_runtime.c:482-492`) compares a sum that wraps; `jav_table_grow`
  refuses negative counts before it, `wasm_table_grow` (`wasm_capi.c:1913-1918`) passes any
  count on (`WithinLimits`, with 15 added to `HostDelta`).
* the declared maximum of a 64-bit table is narrowed to 32 bits (`jav_instance.c:374`): one that
  is a multiple of 2^32 becomes 0 (`ImplementsStore`, with a table of maximum `U4`).
* when the 32-bit epoch wraps to 0, the value of fresh objects, those count as already
  marked and are swept although reachable (`jav_gc.c:300`; `EpochMod` = 2,
  `MaxEpoch` = 1 in `MCGcHeap_graph.cfg` violates
  `SweepSparesReachable` and `NoDanglingReference`);
* a tail call refused by a frame guard stays pending (`jav_runtime.c:104-113, 142`); if a
  callback swallows that trap, its own frame is retargeted to the refused callee when it
  returns (`HostNotReplaced`, with `HostIgnoresTraps` and a callee of many locals).

Seen while reading, and outside the models: the byte size of an array is computed in 32 bits
(`jav_runtime.c:983`); `struct.new` and `array.new` go on after an allocation that
returned 0; the upper half of a v128 local is not zeroed at entry.

## 5 Proofs

TLAPS checks the theorems below for every value of the constants.

| Theorem | Statement |
|---|---|
| `SpaceCorrect` | `Spec => []SpaceInv` |
| `SpaceTypeCorrect` | `Spec => []TypeOK` |
| `StorageNeverShared` | `Spec => []NoOverlap` |
| `EmptyBlocksAreEmpty` | `Spec => []EmptyBlocksHoldNothing` |
| `TargetsNeverEvacuated` | `Spec => []TargetsAreNotCandidates` |
| `HoleAvoidsMarkedObject` (LineMap) | a hole the scan finds is disjoint from every object with marked lines |
| `HeapUsesSpace` (GcHeap) | `HeapSpec => Spec`, the space's specification |
| `HeapCorrect` (GcHeap) | `EpochDoesNotWrap => (HeapSpec => []HeapInv)` |
| `HeapTypeCorrect` (GcHeap) | `EpochDoesNotWrap => (HeapSpec => []HeapTypeOK)` |
| `NothingDangles` (GcHeap) | `EpochDoesNotWrap => (HeapSpec => []NoDanglingReference)` |
| `ReachableIsSpared` (GcHeap) | `EpochDoesNotWrap => (HeapSpec => []SweepSparesReachable)` |
| `SweepLeavesExactlyReachable` (GcHeap) | under the same assumption, every sweep leaves `SweepLeavesReachable` |
| `HeapImplementsGraph` (GcHeap) | `EpochDoesNotWrap => (HeapSpec => ImplementsObjectGraph)` |
| `ContextCorrect`, `ContextIsKept` (Calls) | `Spec => []ContextInv`, `Spec => []ContextIsOwn` |
| `ScopesCorrect` (Calls) | `LoopsHoldNoTry => (Spec => []HandlersMatchScopes)` |
| `CallsCorrect` (Calls) | `~ HostIgnoresTraps => (Spec /\ []StartsCatch => []CallsInv)` |
| `CallsTyped`, `HeightsAreTyped`, `TrapsAreOwn`, `ExceptionsStay` (Calls) | under the same assumptions, `CallsTypeOK`, `StackMatchesTypes`, `TrapIsOwn`, `ExceptionsStayInTheirCall` |
| `HostIsNotReplaced` (Calls) | under the same assumptions, the action property `HostNotReplaced` |
| `ValidatorKeeps` (SideTable) | `Spec => []ValidatorInv` |
| `MachineKeeps` (SideTable) | `~ TryInLoop => (Spec => [](ValidatorInv /\ MachineInv))` |
| `BodiesStayInside`, `ReadsFindValues` (SideTable) | under the same assumption, `SideTableTypeOK`, `ReadsAreOfSetLocals` |
| `BodiesAreSound` (SideTable) | under the same assumption, `Spec => [](ElselessIfsFit => OperandsAsValidated)` |
| `RangeOkExact` (StoreObjects) | the guard by subtraction of words is the comparison of unbounded sums |
| `StoreWithinLimits` (StoreObjects) | `HostGrowthSmall => (Spec => []WithinLimits)` |
| `StoreNoStrayAccess` (StoreObjects) | `HostGrowthSmall /\ ActiveSmall => (Spec => []NoStrayAccess)` |
| `TagsCorrect` (StoreObjects) | `Spec => []TagsHonest` |
| `StoreTyped` (StoreObjects) | `HostGrowthSmall => (Spec => []StoreTypeOK)` |
| `CopiedTableExact` (StoreObjects) | the loop of `table.copy` is a copy that reads everything first, whatever the ranges |
| `StoreImplements` (StoreObjects) | `HostGrowthSmall /\ ActiveSmall /\ OffsetsSmall /\ TableMaximaSmall => (Spec => ImplementsStore)` |
| `ClosedTypesTypeCorrect` (ClosedTypes) | `Spec => []ClosedTypesOK` |
| `IdsAreIsoRecursive` (ClosedTypes) | `Spec => []IdsAreClosures` |
| `RecordsCorrect` (ClosedTypes) | `Spec => []CastsInv` |
| `CastsCorrect`, `ValuesFit` (ClosedTypes) | `~ HostMayBeNew => (Spec => []CastsAreRight)`, and `[]AcceptedValuesFit` |
| `InstancesCorrect` (Instances) | `Spec => []InstancesInv` |
| `InstancesTypeCorrect` (Instances) | `Spec => []InstancesTypeOK` |
| `NoFunctionDangles` (Instances) | `Spec => []NoDanglingFunction` |
| `NothingIsLost` (Instances) | `PlansProtected => (Spec => []NothingLost)` |
| `ObjectsAreFound` (TaggedSlots) | `LayoutAgrees /\ ParamsStatic /\ GlobalsPrivate /\ AsNonNullOnHandles => (Spec => []NoUntracedReference)` |
| `SlotsTyped`, `ValuesTyped`, `FollowedCorrect`, `CastsExact` (TaggedSlots) | under the same assumptions and `ArrayNewOnScalars`, `SlotsTypeOK`, `ValuesHaveTypes`, `FollowedAreReferences`, `CastsAreExact` |

**The space.**  `ImmixSpace_proofs` holds for every number of
data lines, line size, finite set of blocks, set of object sizes and headroom
divisor, under `GeometryAssumption` and `SpaceAssumption`, which say no more than
that (the sizes are between 1 and a block: larger objects never reach the space).

`NoOverlap` is not inductive: from a state with disjoint objects, an allocator whose
hole covers an object would violate it.  `SpaceInv` adds what makes it so:

* `EmptyBlocksHoldNothing`, because a block taken from the free list, from the
  operating system or from the targets is bumped from its first word;
* `BlocksApart`, because the same block must not be given to two allocators;
* `AllocatorsClear`: every object of the small allocator's block is below the
  cursor or beyond the hole, and has marked lines unless it lies before the next
  hole's first line; every object of a recyclable block has marked lines;
* `CollectorClear`: marked objects have marked lines, so the classification at the
  end of the collection re-establishes the previous clause, and nothing lies ahead
  of the evacuation cursor;
* `StatisticsAgree`: empty blocks recorded no marks and candidates some, which is
  why a target is never a candidate although the statistics are a cycle old.

The argument meets the arithmetic in one place, `HoleAvoidsMarkedObject`: if the
line an object starts in is marked, or the hole starts after it, the spill rule
keeps the hole clear of the object's second line.  `ImmixSpace_proofs` has one
lemma per action (`BumpKeepsInv`, `HoleKeepsInv`, `NextHoleKeepsInv`,
`NextBlockKeepsInv`, `MediumKeepsInv`, `FailureKeepsInv`, `BeginKeepsInv`,
`MarkKeepsInv`, `EvacuateKeepsInv`, `EndKeepsInv`), joined in `NextKeepsInv`.
`SpaceInv` is also checked by TLC, in both runs of the space.

The proof is about the space under any client.  `HeapUsesSpace` says that the heap is one,
so the storage theorems hold of it too (`HeapStorageNeverShared`).

**The heap.**  `GcHeap_proofs` holds for every geometry, every set of
blocks, large-object slots, roots, fields, identities and scalars, under `HeapAssumption`
(null and scalars are no addresses, a large object does not fit a block) and one
precondition, `EpochDoesNotWrap`: fewer collections than the 32-bit epoch can count.
Without it the theorems are false, as section 4 says.

`NoDanglingReference` speaks of what the program can reach while it runs and says nothing of
a collection half done.  `HeapInv` does, in four parts:

* `PointersHaveHeaders`: every pointer of a root or of an object still there, reachable or
  not, leads to a header, be it that of an object or of the forwarding pointer it left;
* `HeadersAgree`: a forwarding pointer leads to a marked copy in one step (`gc_mark1`
  follows it once), a block object's header has the current epoch exactly when the space has
  it marked, and no object enters a collection with that collection's epoch;
* `NothingForgotten`, the tracing invariant: a pointer of a root or of a marked object that
  does not lead to a marked object is in a slot still to be visited, or in an object
  still queued.  With no slot and no queue left, what is reachable is marked;
* `NothingMarkedInVain`, the converse: a set of marked objects that holds those the roots
  point at, and those its own fields point at, holds them all.  It is stated over sets because
  an object is marked along a path of any length, and a set closed under a step needs no
  induction over the path.

There is one lemma per action, joined in `HeapNextKeepsInv`.  A visit is proved once for the
three forms it takes (`VisitKeepsInv`: the slot is left settled, at most one object joins the
survivors, and it is the one the slot led to).

The refinement sees the heap through identities.  During a collection a moved object exists
twice, so the graph is not read off one header: `CopiesAgree` says that an object and its
copy have the same identity and that their fields lead to the same identities, whichever of
them have been rewritten.  Then reachability over addresses and over identities is the same
(`ReachableThroughIds`), a visit changes no identity (`IdsKept`, `KeptIdsKeepGraph`), and a sweep
removes nothing reachable (`FinishKeepsGraph`); an instruction of the program changes the graph as
`ObjectGraph` says, and what it makes unreachable leaves the graph at once, since only
the part closed under the fields counts (`ReachableInPart`, `BecomesPart`).

TLC agrees with `HeapInv` and `GraphInv` on the configurations of the heap's runs.

**The calls.**  `Calls_proofs` holds for every set of functions whose bodies the validator
accepts (`ValidAssumption`: constructs nest, leave the height they found, catches lead outwards,
no operand is taken that is not there), every depth of calls and every size of the two pools.
TLC evaluates the assumption on the programs of `MCCalls`.  There are three layers, each on the
one before:

* `ContextInv` needs no precondition.  `Resumed(i)` is the frame of the i-th activation, running or
  to be resumed; each is in its own context, a caller waits behind an instruction that may
  call, and handlers are stacked in the order of their frames, each of a try_table of the
  function of its frame.  `do_throw` is proved once for the two ways it ends (`Caught`,
  `Uncaught`), from what `prune_handlers` and the pop after a call leave (`PruneEffect`, `BelowEffect`).
* `ScopesInv` adds `Installed`: the handlers of a frame lie inside one another, none of them ahead
  of its place, and every try_table around the place is among them.  Handlers that are no
  longer around it may be there too: the code prunes late.  Pruning drops these and no others
  because the bodies nest (`PrunedInstalled`).  It does so only if a place is never reached
  again from behind: hence `LoopsHoldNoTry`, which excludes the disagreement of section 4 and
  without which the theorem is false.
* `CallsInv` is about heights and flags.  `StackMatchesTypes` speaks of the running frame alone,
  and where a call returns its height comes back from what the caller left:
  `CallsLinked` says that the callee's base and arity make up the height behind the call, a link
  that a tail call keeps because the arities are equal.  `TrapsAgree` says where the flag may
  stand: in guest code exactly if the innermost activation raised it, and in a callback only if
  a call it made, or one its callers made with nothing but callbacks since, trapped.
  `TailsAgree` and `Unwinds` bound the life of a tail call and of an exception.  The two preconditions,
  `~ HostIgnoresTraps` and `[]StartsCatch` (no exception leaves a start function), exclude three
  disagreements of section 4: the trap of a nested call that is ignored, the refused tail call that
  replaces a callback, and the exception of a start function.

TLC agrees with `ContextInv`, `ScopesInv`, `CallsInv` and `StartsCatch` in every state of `calls_mixed`.

**The store.**  `StoreObjects_proofs` holds for words, pages and limits of any size
(`StoreAssumption`: the engine's limits in bytes are below 2^64, twice its limits in pages and in
slots do not wrap, and a segment's length is positive as a signed 32-bit word).  The theorems have up to
four hypotheses, the preconditions of section 3 in general form: `HostGrowthSmall`,
`ActiveSmall`, `TableMaximaSmall` (the maximum a table declares fits its 32-bit field) and
`OffsetsSmall` (address and static offset make a word, which they always do if the
address has 32 bits).  Each excludes a place where the code would not do what an unbounded array does;
section 4 lists all but the static offset, which section 3 explains.

The inductive invariant `StoreInv` is `WithinLimits` with the shapes the
guards need: a size is a number of whole pages, as many cells as the size says, and the call
under way has operands in the words of its object.  `RangeOkExact` is where the
arithmetic of words meets that of numbers: with a length below `U8` the guard
`ea <= len /\ n <= len - ea` cannot wrap, whatever `ea` and `n`; `NoStrayAccess` follows
from it operation by operation.

`ContentsInv` says what the cells hold: bytes, and slots that `Cell` made of some reference, whose
tag is then right.  It is inductive alone, without a hypothesis: every write takes its slots from a
table or from `Cell`, and growth and allocation make as many cells as they count.

The refinement maps a memory to its cells, its length and the limit its declaration gives
(`AbsMem`), and a table likewise, with the references of its slots (`AbsTable`).  There is one lemma
per operation, from `MemLoadRefines` to `AllocateRefines`, joined in `StepRefines`; most
have the two outcomes of the operation, `Failure` and a write (`PutMemRefines`,
`PutTableRefines`).  Three lemmas carry the arithmetic:

* `MovesAreExact`: `Moved` copies one cell after another and may read what it has
  written.  After n moves the cells moved so far hold what was there at the start, because the
  direction keeps the cells still to be read ahead of those written (`Stages`, by the least number of
  moves at which it would fail).  `CopiedTableExact` says that the direction `table.copy` chooses,
  by comparing the two starts, is such a direction; in two different tables any is.
* `SegmentRange`: the test of a segment's range takes the operands as signed words and still
  decides the range of numbers, because a segment's length is positive as one.
* `GrownPages`: the page count after growth, computed from bytes, is the old count plus the increment,
  and the comparison with the limit does not wrap.

The abstract allocation appends to the abstract sequences, the engine to its own (`AppendMem`, `AppendTable`).
`RefinesInv` adds to the two invariants that the objects still to be allocated satisfy
`TableMaximaSmall`, of which only allocation makes use.

**The slots.**  `TaggedSlots_proofs` holds for all types, struct layouts, tags, globals and
bounds, under `SlotsAssumption`, which says that the kinds of values and types are apart and
that there are finitely many objects.  Each of the five hypotheses excludes one
of the disagreements of section 4, and without any one of them some theorem is false:
`LayoutAgrees` a vector before a reference, `ParamsStatic` an exception parameter whose tag its
type leaves open (a nullable reference or an `anyref`), `GlobalsPrivate` a global of two instances,
`AsNonNullOnHandles` a `ref.as_non_null` on an object, `ArrayNewOnScalars` an `array.new` whose
initial value the collector would follow.  `ObjectsAreFound` does not need the last one.
That distinct fields lie in distinct cells of a struct (`LayoutFacts`) follows from the
recursion of `Offset`, by the least field at which the recursion, or the order of the offsets,
would fail (`OffsetUnfolds`, `OffsetsGrow`).

`NoUntracedReference` speaks of values and tags only and is not inductive: what an instruction
writes into a cell must be a reference only where the layout has one, and that is a matter of
the operand's type.  `Honest(v, t, vt)` joins the three: an object is tagged as one and of
a type the collector would follow, and a value of a type all of whose values are objects has
their tag.  It is preserved when a value is used at a supertype (`Subsumption`), which carries it
from the operands of an instruction to the field, element, parameter, local or global they
are stored in, and back with the tag a load gives (`StructGetKeepsInv`, `ArrayGetKeepsInv`).  The
second half is what `RttsWithHonest` needs: a layout made from the tags of one throw then
names every cell in which another may carry an object.  `SlotsInv` says of every slot, object and
layout that it is honest; there is one lemma per action, joined in `NextKeepsInv`.  What a
collection frees plays no part: objects only leave the heap.

In the other four properties it does: a value of a validated type is a pointer to an object that
is there (`Fits`), so what the program still holds must survive each collection.  `TypedInv` says
that every slot, global and cell is `Kept`: it fits its type, and if its tag or its layout makes
the collector follow it, its type is one of references.  A collection keeps that because what
is honest is a root or lies in a marked object (`RootKept`, `MarkedKept`), and because the marked
objects are closed under what the collector follows.  The last is a lemma about `gc_collect`'s
loop, `MarkedIsClosed`: `Marked` runs as many rounds as there are objects, each round but a last
one finds a new object, so the rounds suffice.  `NewKeepsTyped` then serves every allocating
instruction whose operands stay on the stack, and `ArrayNewKeepsTyped` shows what
`ArrayNewOnScalars` is for: the initial value is in no slot while the allocation collects.
`ShapeInv` is the order of the frames' bases, for which a return and a catch have to cut
the stack inside the right frame (`ReturnKeepsShape`, `UnwindKeepsShape`).  `AllInvHolds` joins
the three invariants.

**The registry.**  `ClosedTypes_proofs` holds for every set of type sections that
`SectionsAssumption` describes (groups are contiguous, kinds are kinds, lists are sequences), every
set of host types and any number of instances, absorbed in any order.  The definitions recurse
over a section: `SameTypes`, `DeclaredSub`, `ConcreteSub`, `Canon`.  That each recursion ends,
and defines a function, is a lemma (`SameUnfolds`, `SubUnfolds`, `ClimbUnfolds`,
`CanonIsFaithful`), by the least type at which it would not (`LeastNumber`, from the
well-foundedness of `<`).  The heart is `KeysAlike`: if the ids of the types two groups refer to
tell equal types from different ones, two keys are the same record exactly if the types are
alike, so the id that `canon_intern` finds by comparing keys is the id of an equal type.  The
invariant `TypesInv` carries this through the absorption: keys are distinct, every number
given so far, in a finished instance, in the one under way or to the host, is the id of its
type's key, and ids are faithful between any two of them.  It needs the validator in two
places: a type refers to no group after its own, so the ids a key mentions exist, and a
supertype comes first, so its id is smaller (`AbsorbNextKeepsInv`; `KeyOfPrefix` says that
a key does not change when later types get their ids).  `RegistryCorrect` is `Spec => []TypesInv`.

`CastsInv` adds what the registry keeps of an id: the kind and the supertype's id that every type
with that id declares (`RecordsOK`), whichever of them came first, because equal types have
equal supertypes (`SameSupers`) and equal layouts (`SameLayouts`); and, if no host's type takes an id
ahead of a module's, the layout at the id's own place, stamped with the id (`LayoutsOK`).
With that, climbing ids in the registry decides declared subtyping between any two modules
(`RegistrySub`), climbing numbers decides it within one (`ModuleSub`), and a cast that looks the
object's layout up among its own module's gives the answer it would have given by the id
(`ObjectMatch`): `CastsCorrect`.  `ValuesFit` then follows the declarations upwards: the
validator compares a type with its supertype only, in its own module, and `SubFits` carries widths,
places and traced fields from there through any number of steps and across modules.  The
hypothesis `~ HostMayBeNew` excludes the disagreement of section 4 about host types, and
without it both theorems are false.

**The instances.**  `Instances_proofs` holds for every set of modules, any number of instances
and objects, and calls nested to any depth (`InstancesAssumption`, `PlanAssumption`).
`NoDanglingFunction` is not inductive: a function comes into a slot from another slot, so the
invariant must speak of all slots that can be read, and who can read them depends on the C
stack.  `InstancesInv` has five parts besides the shapes:

* `StackNests`: an instantiation is on the stack once, and all but the innermost have come to
  their start function, for only that runs code that can call back; so at most one is being
  filled, and the code that runs is bound to its own instance;
* `StoreTracks`: an instance is tracked from `AllocModule` to `Delete`, and the exporter of one
  that is present is live;
* `SlotsInTurn`: what an instantiation has not come to is empty, in particular the pool of
  segment items outside the segment being built;
* `FunctionsTracked`: a function in a slot of an instance of `Seen` (tracked, or being built) is
  its own or one of a tracked instance.  An instance that trapped before it was tracked is
  not in `Seen`, and nobody reaches it: `InUse` is contained in `Seen`.

`NothingIsLost` adds what each stage protects: before `AllocModule` a collection finds the
globals through the bound context, but not the tables made so far, and the pooled items of a
segment are no roots until it is registered.  They hold an object only if their own initialiser
allocated it (`TablesInTurn`, `ItemsInTurn`), so a second allocation is needed to lose it;
from then on every slot is found (`SlotsKept`, `KeptInv`).  Hence its
hypothesis `PlansProtected`: no two tables of a module, and no two items of a segment,
allocate.  It excludes exactly the disagreement of section 4 (`jav_instance.c:366`,
`425-431`), and without it the theorem is false.

**The bodies.**  `SideTable_proofs` holds for every set of instructions, function type, tags and
subtyping (reflexive and transitive, `SideTableAssumption`), and bodies of any length.  It has two
hypotheses, and without either some theorem is false, as section 4 says: `~ TryInLoop`, no
try_table inside a loop, and for the types of operands, not their number, `ElselessIfsFit`: an if
that was closed without an else has parameters of its results' types.  `ValidatorKeeps` needs neither.

The properties speak of the machine at one position.  They are not inductive because a branch
compares two positions far apart: the entry was written at one, with the frames open there,
and lands at another, whose record the pass made much later.  What joins them is the history:

* `HistoryOK`: the record of a position is what its instruction makes of the record before it
  (`Effect`), with the frames in order of start, height and marks (`HeldOK`).  `FrozenWhileOpen` says
  that while a frame is open neither the frames nor the operands and marks below it change, between
  any two positions.  It takes the place of an induction over the nesting of constructs;
* `EntriesOK`: entry k of an instruction carries and pops what the record there says, and either
  waits in the frame it branches out of, its home, or has its target (`Landing`): a loop's start, or
  behind the end or the else that closed the same frame.  A frame waits for its own entries only
  (`WaitsOK`).  So when the last frame is closed no entry is open;
* `TrysOK`: the same for the metadata of a try_table and the end of its frame.

Each instruction is first brought into one form (`Did`, `Wrote`, from `ConstRead` to `TryTableRead`), and the
invariant is proved once, for that form (`ReadKeeps`).  `Accepted` turns entries into distances: the
cursor distance `Deltas` counts is the number of the target's first entry less the entry's own, because the
entries that branch from before a position are those with smaller numbers (`EntriesBefore`);
the entry an else leaves is the one the if skips.

`MachineInv` says that the machine stands at a live position (`Alive`: the pass had no dead frame
there) with its cursor, operands that fit its record, its written locals, and handlers that lie
inside one another.  There is one lemma per kind of instruction, from `ConstRun` to `TryRun`.  For
the branches, `BranchLands` says what the record at the target is: by `FrozenWhileOpen` what was below the home
frame at the branch, then the types carried, with no mark that was not there at the branch, the marks having
been rolled back.  `MovedFits` says that this is what `opgen_do_transfer` leaves on the stack.  A catch
branches from its try_table: its frame is still open at the throw (`HandlerOpen`), so
the operands below it are those of the try_table's record (`ThrowHandler`, `CatchRun`).  `HandlersLand` is the only place where
`~ TryInLoop` is used: a backward branch passes no try_table, and so keeps no handler it should drop.
In dead code the validator accepts operands that are not there, and clamps what an entry pops;
no live position is reached from it.

TLC agrees with `ValidatorInv` and `MachineInv` on the configuration of `body_mixed` with `MaxLen` 7 and on
a second set of instructions.

**Model-checked only:** of `GcHeap` the sum `liveBytes` in `SweepIsExact` (a sum over a set is
a fold, an induction) and `CollectionEnds` (liveness under fairness is out of
TLAPS's reach), and of `SideTable` the refinement `ImplementsStructured`: `StructuredBody` finds an
end by counting the constructs opened and closed since (`OpenAt`), which needs an induction over
the places of a body that the installed provers cannot take.

## 6 Abstractions, and what is left out

* Block lists are sets: the code's vectors are stacks and scanned in order of
  acquisition, the model lets any member be popped, and ties in `select_candidates`
  be ranked either way.  This adds behaviours and removes none.
* Objects are extents; the object-start bitmap and the header's size say the same.
  `align_up` is not represented: every object size of the runtime is a multiple of
  the alignment.
* A reference is an address or an unboxed scalar; a field is a reference field.
  Which cells *are* references is decided by tags in the code and is the subject of
  `TaggedSlots`.
* `TaggedSlots` collects at every allocation, as the `GC_STRESS` build does, and moves nothing:
  an object that moved unseen is the same loss as one freed unseen.  It stops where the code
  would read through a pointer to something else (`PointsAt`, `ReadsThrough`).  Lengths and indices are
  chosen on the spot, not computed; a function has one parameter and one result; the
  aggregate types have no declared supertypes and there is one bottom type; a handler's place
  is the program's choice (`SideTable` and `Calls` say which it is).  Left out: packed fields,
  `array.new_data`, `array.new_elem` and the init instructions, `ref.test` and `br_on_cast`
  (they decide as `ref.cast`), external references, indirect calls, element segments.
* `Calls` keeps the height of the operand stack, not the operands, and the tag of
  an exception, not the object.  Blocks and try_tables take and leave one operand.
  Catch clauses are one label per try_table.
* `Instances` keeps the slots that can hold a managed reference or a function, two per
  table, with honest tags; objects have no fields, one table is imported at most, and
  what `link_imports` compares is one choice, it matches or not.  A moved object whose
  slot was not rewritten is the same loss as a swept one.
* `SideTable` counts positions in instructions, not bytes: what the validator and the
  machine do with a position is to compare and subtract it.  A reference to a type is a
  member of a small set with a given `SubType`; blocks, branches, exceptions and locals
  are there, the numeric, reference and aggregate instructions (`const` and `drop` stand
  for them) are not.  A caught exception object is one value.
* `ClosedTypes` absorbs type by type where the code serialises a group once and interns its
  members: a key depends on ids of earlier groups only.  A key is a record where the code
  has bytes that say the same; a packed type is one more value type.  External and exception
  types are left out, their lattice has two elements each.  Whether the imports match is decided
  after the absorption and changes no type: a module that does not link counts as an instance.
  A host's type names no concrete type, as `jav_typereg_intern_functype` demands.  `CastsAreRight`
  compares objects by their layout (`rtt_typeidx` compares pointers; a layout carries its id, so
  layouts are equal exactly if they are one).
* `StoreObjects` has cells of a byte and of a reference with its tag; numbers are not put
  together from bytes.  Allocation may fail for want of storage at any growth.
* Left out of modelled files: `imx_block_pool_release`/`_trim` (no caller in the
  space), destruction, `gc_verify` as a pass (its conditions are the invariants), the
  collection budget, frame traces, trap messages, `catch_all`/`catch_ref` as
  separate kinds.
* Not modelled: the compiling tier's code generation, the text toolchain, the numeric
  opcode handlers, the validation of sections other than the types and the Java compiler.  They are
  sequential passes with no state beyond a pass, or data-path code; the repository's
  conformance corpus and differential tests are the better instrument.

## 7 Plan

Done, in this order: `LineMap`, `ImmixSpace` and its proofs, `ObjectGraph`,
`GcHeap` and its proofs, `Calls`, `Instances`, `BodyCode`, `StructuredBody`, `SideTable`,
`AbstractStore`, `StoreObjects` and its proofs, `TaggedSlots` and its proofs, `TypeSections`,
`ClosedTypes` and its proofs, and the proofs of `Instances`, of `Calls` and of `SideTable`.  What is left, most important first:

1. **`GcBudget`** - the collection threshold, small enough to be proved entirely.
2. **`CachedStack`** and the e-graph's union-find of the compiling tier.
3. In `ClosedTypes`, the matching of imported tables and globals (`imp_vt_sub_g`).

Proofs: that the frames the validator has open are the constructs `EndOf` counts, with which
`BranchLands` would give `ImplementsStructured`.
